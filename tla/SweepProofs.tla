---------------------------- MODULE SweepProofs ----------------------------
(***************************************************************************)
(* Proofs about the nightly sweep for any number of postings, founders,    *)
(* jobs, nights and faults: its types, one document per founder and        *)
(* solicitation, files and mails that match the rows, and no posting that  *)
(* is dropped silently.                                                    *)
(*                                                                         *)
(* None is inductive.  Rows of a sweep under way must be new (Distinct), a *)
(* digest may only name rows of its own sweep (Digest), matches are places *)
(* in what was fetched (Walk); and a posting is followed through the pages *)
(* to come, the matches to come and the reports kept (SilentInv).          *)
(***************************************************************************)
EXTENDS Sweep, FiniteSetTheorems, WellFoundedInduction, TLAPS

Added(R) == {r.id : r \in R}

\* Fields of the sweep under way, and when it has no rows.
Shape ==
  /\ DOMAIN run = DOMAIN NoRun
  /\ run.phase \in {"none", "cleanup", "other"} => run.new = {} /\ run.entries = {}
  /\ ids \in Nat /\ faults \in Nat /\ now \in Nat

\* Every row has an id of its own, given out before.
Distinct ==
  /\ \A r \in rows \cup run.new : r.id \in Nat /\ r.id <= ids /\ r.at \in Nat
  /\ \A r, q \in rows \cup run.new : r.id = q.id => r = q
  /\ rows \cap run.new = {}

\* The digest to be mailed names rows of this sweep only.
Digest == run.entries \subseteq Added(run.new)

SweepInv == Shape /\ Distinct /\ Digest /\ OneMatchEach /\ FilesInStep

-----------------------------------------------------------------------------

LEMMA SweepStart == Init => SweepInv
<1> SUFFICES ASSUME Init PROVE SweepInv
  OBVIOUS
<1>1. /\ rows = {} /\ run = NoRun /\ files = {} /\ mails = {} /\ ids = 0 /\ faults = 0
      /\ now = 0
  BY DEF Init
<1>2. run.new = {} /\ run.entries = {}
  BY <1>1 DEF NoRun
<1>3. Made = {} /\ rows \cup run.new = {}
  BY <1>1, <1>2 DEF Made
<1> QED
  BY <1>1, <1>2, <1>3 DEF SweepInv, Shape, Distinct, Digest, OneMatchEach, FilesInStep

\* Steps that leave the rows, their files and the digest as they are.
LEMMA Elsewhere ==
  ASSUME SweepInv, UNCHANGED <<rows, files, mails, ids, faults>>,
         now' \in {now, now + 1}, DOMAIN run' = DOMAIN NoRun,
         run'.new = run.new, run'.entries \in {run.entries, {}},
         run'.phase \in {"none", "cleanup", "other"} =>
           run.new = {} /\ run'.entries = {}
  PROVE  SweepInv'
<1>1. (rows \cup run.new)' = rows \cup run.new /\ Made' = Made
  BY DEF Made
<1>2. Shape'
  BY DEF SweepInv, Shape
<1>3. Distinct'
  BY DEF SweepInv, Distinct
<1>4. Digest'
  BY DEF SweepInv, Digest, Added
<1>5. OneMatchEach'
  BY <1>1 DEF SweepInv, OneMatchEach
<1>6. FilesInStep'
  <2>1. \A r \in rows \cup run.new : r.id \in files \/ ~Retained(r)'
    <3>1. ASSUME NEW r \in rows \cup run.new, r.id \notin files
          PROVE  now' >= r.at + Minutes
      <4>1. /\ now \in Nat /\ r.at \in Nat /\ Minutes \in Nat
            /\ ~(now < r.at + Minutes)
        BY <3>1, SweepBounds DEF SweepInv, Shape, Distinct, FilesInStep, Retained
      <4> QED
        BY <4>1
    <3>2. ASSUME NEW r \in rows \cup run.new PROVE r.at \in Nat
      BY DEF SweepInv, Distinct
    <3>3. now' \in Nat /\ Minutes \in Nat
      BY SweepBounds DEF SweepInv, Shape
    <3>4. ASSUME NEW r \in rows \cup run.new, r.id \notin files PROVE ~Retained(r)'
      <4>1. now' >= r.at + Minutes /\ r.at \in Nat
        BY <3>1, <3>2, <3>4
      <4> QED
        BY <3>3, <4>1 DEF Retained
    <3> QED
      BY <3>4
  <2> QED
    BY <1>1, <2>1 DEF SweepInv, FilesInStep
<1> QED
  BY <1>6, <1>2, <1>3, <1>4, <1>5 DEF SweepInv

\* A sweep that is lost: its rows are rolled back, its files and mails are not.
LEMMA SweepLost ==
  ASSUME SweepInv, run' = NoRun, Fault, UNCHANGED <<now, rows, files, mails, ids>>
  PROVE  SweepInv'
<1>1. run'.new = {} /\ run'.entries = {} /\ run'.phase = "none"
  BY DEF NoRun
<1>2. faults' \in Nat /\ faults' # 0
  BY DEF SweepInv, Shape, Fault
<1>3. (rows \cup run.new)' \subseteq rows \cup run.new /\ Made' \subseteq Made
  BY <1>1 DEF Made
<1>4. Shape'
  BY <1>1, <1>2 DEF SweepInv, Shape
<1>5. Distinct'
  BY <1>1, <1>3 DEF SweepInv, Distinct
<1>6. Digest'
  BY <1>1 DEF Digest
<1>7. OneMatchEach' /\ FilesInStep'
  BY <1>2, <1>3 DEF SweepInv, OneMatchEach, FilesInStep, Retained
<1> QED
  BY <1>4, <1>5, <1>6, <1>7 DEF SweepInv

\* A new row: nothing of its founder and solicitation is there yet.
LEMMA MatchAdds == SweepInv /\ Materialize => SweepInv'
<1> SUFFICES ASSUME SweepInv, Materialize PROVE SweepInv'
  OBVIOUS
<1> DEFINE id == ids + 1
           row == [who |-> run.who, sol |-> Solicitation[Match], id |-> id,
                   at |-> now]
           old == rows \cup run.new
<1>1. /\ run.phase = "match" /\ ~AlreadyMatched(Match)
      /\ ids' = id /\ files' = files \cup {id} /\ UNCHANGED <<now, rows, mails, faults>>
      /\ \E rest : run' = [run EXCEPT !.rest = rest, !.count = @ + 1,
                              !.entries = @ \cup {id}, !.new = @ \cup {row}]
  BY DEF Materialize
<1>2. DOMAIN run = DOMAIN NoRun /\ ids \in Nat /\ faults \in Nat /\ now \in Nat
  BY DEF SweepInv, Shape
<1>3. {"phase", "new", "entries", "rest", "count"} \subseteq DOMAIN run
  BY <1>2 DEF NoRun
<1>4. PICK new : new = run'.new
  OBVIOUS
<1>5. /\ DOMAIN run' = DOMAIN NoRun /\ run'.phase = "match"
      /\ new = run.new \cup {row} /\ run'.entries = run.entries \cup {id}
  BY <1>1, <1>2, <1>3, <1>4
<1>6. /\ row.id = id /\ row.who = run.who /\ row.sol = Solicitation[Match]
      /\ row.at = now
  OBVIOUS
<1>7. \A r \in old : ~(r.who = row.who /\ r.sol = row.sol)
  BY <1>1, <1>6 DEF AlreadyMatched
<1>8. /\ id \in Nat /\ id > ids
      /\ \A r \in old : r.id \in Nat /\ r.id <= ids
  BY <1>2 DEF SweepInv, Distinct
<1>8a. \A r \in old : r.id # id /\ r.id <= id
  BY <1>2, <1>8
<1> HIDE DEF row, id, old
<1>9. rows' \cup new = old \cup {row}
  BY <1>1, <1>5 DEF old
<1>10. Shape'
  BY <1>1, <1>2, <1>5, <1>8 DEF Shape
<1>11. Distinct'
  <2>1. \A r \in old \cup {row} : r.id \in Nat /\ r.id <= id /\ r.at \in Nat
    BY <1>2, <1>6, <1>8, <1>8a DEF SweepInv, Distinct, old
  <2>2. \A r, q \in old \cup {row} : r.id = q.id => r = q
    BY <1>6, <1>8a DEF SweepInv, Distinct, old
  <2>3. rows \cap new = {}
    BY <1>5, <1>6, <1>8a DEF SweepInv, Distinct, old
  <2> QED
    BY <1>1, <1>4, <1>9, <2>1, <2>2, <2>3 DEF Distinct
<1>12. Digest'
  <2>1. Added(new) = Added(run.new) \cup {id}
    BY <1>5, <1>6 DEF Added
  <2>2. run'.entries \subseteq Added(new)
    BY <1>5, <2>1 DEF SweepInv, Digest
  <2> QED
    BY <1>4, <2>2 DEF Digest, Added
<1>13. OneMatchEach'
  <2>1. \A r, q \in old \cup {row} : r.who = q.who /\ r.sol = q.sol => r = q
    BY <1>7 DEF SweepInv, OneMatchEach, old
  <2> QED
    BY <1>4, <1>9, <2>1 DEF OneMatchEach
<1>14. FilesInStep'
  <2>1. Made' = {r.id : r \in old \cup {row}}
    BY <1>4, <1>9 DEF Made
  <2>2. Made' = Made \cup {id}
    BY <1>6, <2>1 DEF Made, old
  <2>3. \A r \in old \cup {row} : r.id \in files' \/ ~Retained(r)'
    BY <1>1, <1>6 DEF SweepInv, FilesInStep, Retained, old
  <2>4. faults' = 0 => files' \cup mails' \subseteq Made'
    BY <1>1, <2>2 DEF SweepInv, FilesInStep
  <2> QED
    BY <1>4, <1>9, <2>3, <2>4 DEF FilesInStep
<1> QED
  BY <1>10, <1>11, <1>12, <1>13, <1>14 DEF SweepInv

LEMMA CommitKeeps == SweepInv /\ CommitSweep => SweepInv'
<1> SUFFICES ASSUME SweepInv, CommitSweep PROVE SweepInv'
  OBVIOUS
<1>1. /\ rows' = rows \cup run.new /\ run' = NoRun
      /\ UNCHANGED <<now, files, mails, ids, faults>>
  BY DEF CommitSweep
<1>2. run'.new = {} /\ run'.entries = {} /\ run'.phase = "none"
  BY <1>1 DEF NoRun
<1>3. (rows \cup run.new)' = rows \cup run.new /\ Made' = Made
  BY <1>1, <1>2 DEF Made
<1>4. Shape'
  BY <1>1, <1>2 DEF SweepInv, Shape
<1>5. Distinct'
  BY <1>1, <1>2, <1>3 DEF SweepInv, Distinct
<1>6. Digest'
  BY <1>2 DEF Digest
<1>7. OneMatchEach' /\ FilesInStep'
  BY <1>1, <1>3 DEF SweepInv, OneMatchEach, FilesInStep, Retained
<1> QED
  BY <1>4, <1>5, <1>6, <1>7 DEF SweepInv

\* A committed document is deleted while a sweep may be under way: no other row
\* has its id.
LEMMA DeletionKeeps ==
  ASSUME SweepInv, NEW d \in rows, DeleteMatrix(d)
  PROVE  SweepInv'
<1>1. /\ rows' = rows \ {d} /\ files' = files \ {d.id} /\ mails' = mails \ {d.id}
      /\ UNCHANGED <<now, run, ids, faults>>
  BY DEF DeleteMatrix
<1>2. (rows \cup run.new)' = (rows \cup run.new) \ {d}
  BY <1>1 DEF SweepInv, Distinct
<1>3. Made' = Made \ {d.id}
  BY <1>2 DEF SweepInv, Distinct, Made
<1>4. Shape'
  BY <1>1 DEF SweepInv, Shape
<1>5. Distinct'
  BY <1>1, <1>2 DEF SweepInv, Distinct
<1>6. Digest'
  BY <1>1 DEF SweepInv, Digest, Added
<1>7. OneMatchEach'
  BY <1>2 DEF SweepInv, OneMatchEach
<1>8. FilesInStep'
  <2>1. \A r \in (rows \cup run.new)' : r.id \in files' \/ ~Retained(r)'
    BY <1>1, <1>2 DEF SweepInv, Distinct, FilesInStep, Retained
  <2> QED
    BY <1>1, <1>3, <2>1 DEF SweepInv, FilesInStep
<1> QED
  BY <1>4, <1>5, <1>6, <1>7, <1>8 DEF SweepInv

\* The retention takes the file of a document that is a day old, and of no
\* other: no other row has its id.
LEMMA DestroyKeeps ==
  ASSUME SweepInv, NEW d \in rows, Destroy(d)
  PROVE  SweepInv'
<1>1. /\ files' = files \ {d.id} /\ ~Retained(d)
      /\ UNCHANGED <<now, run, rows, mails, ids, faults>>
  BY DEF Destroy
<1>2. Shape' /\ Distinct' /\ Digest' /\ OneMatchEach'
  BY <1>1 DEF SweepInv, Shape, Distinct, Digest, Added, OneMatchEach
<1>3. \A r \in rows \cup run.new : r.id \in files' \/ ~Retained(r)
  BY <1>1 DEF SweepInv, Distinct, FilesInStep
<1>4. FilesInStep'
  BY <1>1, <1>3 DEF SweepInv, FilesInStep, Retained, Made
<1> QED
  BY <1>2, <1>4 DEF SweepInv

LEMMA DigestKeeps == SweepInv /\ SendDigest => SweepInv'
<1> SUFFICES ASSUME SweepInv, SendDigest PROVE SweepInv'
  OBVIOUS
<1>1. /\ mails' = mails \cup run.entries /\ UNCHANGED <<now, rows, files, ids, faults>>
      /\ run' = [run EXCEPT !.phase = "founders", !.who = None, !.entries = {}, !.count = 0]
  BY DEF SendDigest
<1>2. {"phase", "new", "entries", "who", "count"} \subseteq DOMAIN run
  BY DEF SweepInv, Shape, NoRun
<1>3. /\ DOMAIN run' = DOMAIN NoRun /\ run'.phase = "founders"
      /\ run'.new = run.new /\ run'.entries = {}
  BY <1>1, <1>2 DEF SweepInv, Shape
<1>4. (rows \cup run.new)' = rows \cup run.new /\ Made' = Made
  BY <1>1, <1>3 DEF Made
<1>5. run.entries \subseteq Made
  BY DEF SweepInv, Digest, Added, Made
<1>6. Shape'
  BY <1>1, <1>3 DEF SweepInv, Shape
<1>7. Distinct'
  BY <1>1, <1>3 DEF SweepInv, Distinct
<1>8. Digest'
  BY <1>3 DEF Digest
<1>9. OneMatchEach' /\ FilesInStep'
  BY <1>1, <1>4, <1>5 DEF SweepInv, OneMatchEach, FilesInStep, Retained
<1> QED
  BY <1>6, <1>7, <1>8, <1>9 DEF SweepInv

\* The steps of a sweep that only move it on.
LEMMA SweepMoves ==
  SweepInv /\ (FetchPage \/ FailPage \/ SkipMatch \/ FailMatch
               \/ \E f \in Founders : NextFounder(f)) => SweepInv'
<1> SUFFICES ASSUME SweepInv, FetchPage \/ FailPage \/ SkipMatch \/ FailMatch
                              \/ \E f \in Founders : NextFounder(f)
             PROVE  SweepInv'
  OBVIOUS
<1>1. /\ DOMAIN run = DOMAIN NoRun
      /\ {"phase", "offset", "fetched", "todo", "who", "rest", "count", "new", "entries",
          "errors"} \subseteq DOMAIN run
  BY DEF SweepInv, Shape, NoRun
<1>2. CASE FetchPage
  <2>1. PICK x, y : \/ run' = [[run EXCEPT !.fetched = x, !.offset = y] EXCEPT
                                  !.phase = "founders", !.todo = Founders, !.offset = 0]
                    \/ run' = [run EXCEPT !.fetched = x, !.offset = y]
    BY <1>2, Zenon DEF FetchPage, Fetched
  <2>2. /\ DOMAIN run' = DOMAIN NoRun /\ run'.new = run.new /\ run'.entries = run.entries
        /\ run'.phase \in {"fetch", "founders"} /\ UNCHANGED <<now, rows, files, mails, ids, faults>>
    BY <1>1, <1>2, <2>1 DEF FetchPage
  <2> QED
    BY <2>2, Elsewhere
<1>3. CASE FailPage
  <2>1. PICK x, y : \/ run' = [[run EXCEPT !.errors = x, !.offset = y] EXCEPT
                                  !.phase = "founders", !.todo = Founders, !.offset = 0]
                    \/ run' = [run EXCEPT !.errors = x, !.offset = y]
    BY <1>3, Zenon DEF FailPage, Fetched
  <2>2. /\ DOMAIN run' = DOMAIN NoRun /\ run'.new = run.new /\ run'.entries = run.entries
        /\ run'.phase \in {"fetch", "founders"} /\ UNCHANGED <<now, rows, files, mails, ids, faults>>
    BY <1>1, <1>3, <2>1 DEF FailPage
  <2> QED
    BY <2>2, Elsewhere
<1>4. CASE SkipMatch
  <2>1. /\ DOMAIN run' = DOMAIN NoRun /\ run'.new = run.new /\ run'.entries = run.entries
        /\ run'.phase = "match" /\ UNCHANGED <<now, rows, files, mails, ids, faults>>
    BY <1>1, <1>4 DEF SkipMatch
  <2> QED
    BY <2>1, Elsewhere
<1>5. CASE FailMatch
  <2>1. /\ DOMAIN run' = DOMAIN NoRun /\ run'.new = run.new /\ run'.entries = run.entries
        /\ run'.phase = "match" /\ UNCHANGED <<now, rows, files, mails, ids, faults>>
    BY <1>1, <1>5 DEF FailMatch
  <2> QED
    BY <2>1, Elsewhere
<1>6. CASE \E f \in Founders : NextFounder(f)
  <2>1. /\ DOMAIN run' = DOMAIN NoRun /\ run'.new = run.new /\ run'.entries = {}
        /\ run'.phase = "match" /\ UNCHANGED <<now, rows, files, mails, ids, faults>>
    BY <1>1, <1>6 DEF NextFounder
  <2> QED
    BY <2>1, Elsewhere
<1> QED
  BY <1>2, <1>3, <1>4, <1>5, <1>6

\* The loop, the world outside and the other jobs.
LEMMA LoopMoves ==
  SweepInv /\ (Tick \/ Cycle \/ EndOther \/ Restart \/ UNCHANGED vars
               \/ (\E j \in Range(Jobs) : StartJob(j))
               \/ (\E n \in Notices : Post(n))) => SweepInv'
<1> SUFFICES ASSUME SweepInv, Tick \/ Cycle \/ EndOther \/ Restart \/ UNCHANGED vars
                              \/ (\E j \in Range(Jobs) : StartJob(j))
                              \/ (\E n \in Notices : Post(n))
             PROVE  SweepInv'
  OBVIOUS
<1>1. UNCHANGED <<rows, files, mails, ids, faults>> /\ now' \in {now, now + 1}
  BY DEF Tick, Cycle, EndOther, Restart, StartJob, Post, vars
<1>2. CASE UNCHANGED run
  BY <1>1, <1>2, Elsewhere DEF SweepInv, Shape
<1>3. CASE EndOther
  <2>1. run.new = {} /\ run.entries = {}
    BY <1>3 DEF EndOther, SweepInv, Shape
  <2>2. run'.new = {} /\ run'.entries = {} /\ DOMAIN run' = DOMAIN NoRun
    BY <1>3 DEF EndOther, NoRun
  <2> QED
    BY <1>1, <2>1, <2>2, Elsewhere
<1>4. ASSUME NEW j \in Range(Jobs), StartJob(j) PROVE SweepInv'
  <2>1. run.new = {} /\ run.entries = {}
    BY <1>4 DEF StartJob, SweepInv, Shape
  <2>2. run'.new = {} /\ run'.entries = {} /\ DOMAIN run' = DOMAIN NoRun
    BY <1>4 DEF StartJob, NoRun
  <2> QED
    BY <1>1, <2>1, <2>2, Elsewhere
<1> QED
  BY <1>2, <1>3, <1>4 DEF Tick, Cycle, Restart, Post, vars

\* Rows, files and digests of committed sweeps and of the one under way.
THEOREM SweepInvariance == Spec => []SweepInv
<1>1. SweepInv /\ [Next]_vars => SweepInv'
  <2> SUFFICES ASSUME SweepInv, [Next]_vars PROVE SweepInv'
    OBVIOUS
  <2>1. CASE FailSweep
    BY <2>1, SweepLost DEF FailSweep
  <2>2. CASE Crash
    BY <2>2, SweepLost DEF Crash
  <2>3. CASE \E d \in rows : DeleteMatrix(d)
    BY <2>3, DeletionKeeps
  <2>4. CASE \E d \in rows : Destroy(d)
    BY <2>4, DestroyKeeps
  <2> QED
    BY <2>1, <2>2, <2>3, <2>4, MatchAdds, CommitKeeps, DigestKeeps, SweepMoves, LoopMoves
       DEF Next, Step, RunSweep
<1> QED
  BY <1>1, SweepStart, PTL DEF Spec

\* However pages shift, postings come again and sweeps are lost, a founder has
\* one swept document of a solicitation.
THEOREM OneDocumentPerMatch == Spec => []OneMatchEach
<1>1. SweepInv => OneMatchEach
  BY DEF SweepInv
<1> QED
  BY <1>1, SweepInvariance, PTL

\* A swept document has its file until the retention may take it, a day after
\* it was made, and without a lost sweep no file is without its document and
\* no mailed link leads nowhere.
THEOREM FilesAndMailsMatch == Spec => []FilesInStep
<1>1. SweepInv => FilesInStep
  BY DEF SweepInv
<1> QED
  BY <1>1, SweepInvariance, PTL
-----------------------------------------------------------------------------
(* Types.  A founder's matches are places in what was fetched.             *)

Walk == run.phase = "match" => run.who \in Founders /\ run.rest \subseteq DOMAIN run.fetched

Clock == now \in 0..MaxTime
Data ==
  /\ posted \in Seq([notice: Notices, day: Days])
  /\ loop \in Loop
  /\ run \in Run
  /\ rows \subseteq Row
  /\ files \subseteq 1..MaxIds /\ mails \subseteq 1..MaxIds
  /\ ids \in 0..MaxIds
  /\ matched \subseteq Founders \X Sols
  /\ nights \in [Days -> SUBSET Report]
  /\ faults \in 0..MaxFaults

Types == Clock /\ Data /\ Walk

LEMMA TypesAreTypeOK == TypeOK <=> Clock /\ Data
BY DEF TypeOK, Clock, Data

LEMMA Least ==
  ASSUME NEW T \in SUBSET Nat, T # {}
  PROVE  \E x \in T : \A y \in T : x <= y
<1>1. IsWellFoundedOn(OpToRel(<, Nat), Nat)
  BY NatLessThanWellFounded
<1>2. \E x \in T : \A y \in T : ~ (<<y, x>> \in OpToRel(<, Nat))
  BY <1>1, WFMin
<1>3. \A x, y \in T : <<y, x>> \notin OpToRel(<, Nat) => x <= y
  BY DEF OpToRel
<1> QED
  BY <1>2, <1>3

LEMMA MinIsLeast ==
  ASSUME NEW T \in SUBSET Nat, T # {}
  PROVE  Min(T) \in T /\ \A y \in T : Min(T) <= y
BY Least DEF Min

LEMMA MaxIsGreatest ==
  ASSUME NEW n \in Nat, NEW T \in SUBSET (1..n), T # {}
  PROVE  Max(T) \in T /\ \A y \in T : Max(T) >= y
<1> DEFINE C == {n - y : y \in T}
<1>a. \A y \in T : y \in Int /\ n - y \in Nat
  OBVIOUS
<1>1. C \in SUBSET Nat /\ C # {}
  BY <1>a
<1>2. PICK x \in C : \A y \in C : x <= y
  BY <1>1, Least
<1>b. PICK z \in T : x = n - z
  BY <1>2
<1>3. \A y \in T : y <= z
  <2> SUFFICES ASSUME NEW y \in T PROVE y <= z
    OBVIOUS
  <2>1. x <= n - y
    BY <1>2
  <2> QED
    BY <1>a, <1>b, <2>1
<1>4. z \in T /\ \A y \in T : z >= y
  BY <1>a, <1>b, <1>3
<1> QED
  BY <1>4 DEF Max

\* Days go on with the minutes.
LEMMA DayIsADay == ASSUME TypeOK PROVE Day(now) \in Days /\ Day(now) \in Nat
<1>1. /\ now \in Nat /\ now <= MaxTime /\ MaxTime < (MaxDay + 1) * Minutes
      /\ Minutes \in Nat \ {0} /\ MaxDay \in Nat /\ MaxTime \in Nat
  BY SweepBounds, TimeWithinDays DEF TypeOK
<1> HIDE DEF TypeOK
<1>2. now \div Minutes \in Nat /\ now \div Minutes <= MaxDay
  BY <1>1
<1> QED
  BY <1>1, <1>2 DEF Day, Days

LEMMA ElementOf == ASSUME NEW S, NEW s \in Seq(S), NEW i \in 1..Len(s) PROVE s[i] \in S
OBVIOUS

LEMMA PostedTyped ==
  ASSUME TypeOK
  PROVE  /\ Len(posted) \in Nat /\ DOMAIN posted = 1..Len(posted)
         /\ \A i \in DOMAIN posted : posted[i].notice \in Notices /\ posted[i].day \in Nat
<1>1. posted \in Seq([notice: Notices, day: Days])
  BY DEF TypeOK
<1>2. \A d \in Days : d \in Nat
  BY SweepBounds DEF Days
<1>3. Len(posted) \in Nat /\ DOMAIN posted = 1..Len(posted)
  BY <1>1
<1>4. \A i \in DOMAIN posted : posted[i] \in [notice: Notices, day: Days]
  BY <1>1, <1>3, ElementOf
<1> QED
  BY <1>2, <1>3, <1>4

\* Postings are in the order of their days, none of a day to come.
Today == now \div Minutes
InOrder == \A i, j \in DOMAIN posted : i <= j =>
  posted[i].day <= posted[j].day /\ posted[j].day <= Today

\* A page is made of postings; and of two postings of the window, the earlier
\* one is on it, if not on a page before or to come.
Window == {i \in DOMAIN posted : posted[i].day <= run.to /\ posted[i].day + 1 >= run.to}
LEMMA PageHolds ==
  ASSUME TypeOK
  PROVE  /\ Page \in Seq(Notices)
         /\ InOrder => \A i, j \in Window : i + run.offset <= j =>
              \/ posted[i].notice \in Range(Page)
              \/ Len(Page) = PageLimit /\ \E k \in Window : i + run.offset + PageLimit <= k
<1> DEFINE n == Len(posted)
           o == run.offset
           w == Window
           found == Cardinality(w)
           end == IF o + PageLimit < found THEN o + PageLimit ELSE found
           size == IF end > o THEN end - o ELSE 0
<1>1. /\ n \in Nat /\ o \in Nat /\ PageLimit \in Nat \ {0} /\ w \in SUBSET (1..n)
      /\ DOMAIN posted = 1..n /\ run.to \in Nat
      /\ \A i \in 1..n : posted[i].notice \in Notices /\ posted[i].day \in Nat
  <2>1. run \in Run
    BY DEF TypeOK
  <2>2. run.offset \in Nat /\ run.to \in Nat
    BY <2>1, SweepBounds DEF Run, Days
  <2> QED
    BY <2>2, PostedTyped, SweepBounds DEF Window
<1>3. Page = [i \in 1..size |-> posted[Max(w) + 1 - (o + i)].notice]
  BY DEF Page, Window, InWindow
<1> HIDE DEF n, o, w
<1>2. IsFiniteSet(w) /\ found \in Nat
  <2>1. IsFiniteSet(1..n)
    BY <1>1, FS_Interval
  <2> QED
    BY <1>1, <2>1, FS_Subset, FS_CardinalityType
<1>4. w # {} => Max(w) \in w /\ \A y \in w : Max(w) >= y
  BY <1>1, MaxIsGreatest
<1>c. ASSUME NEW M, M = Max(w), w # {} PROVE M \in 1..n /\ found <= M
  <2>3. M \in 1..n /\ \A y \in w : M >= y /\ y \in 1..n
    BY <1>1, <1>4, <1>c
  <2>1. M \in 1..n /\ w \in SUBSET (1..M)
    BY <1>1, <2>3
  <2>2. IsFiniteSet(1..M) /\ Cardinality(1..M) = M
    BY <2>1, FS_Interval
  <2> QED
    BY <2>1, <2>2, FS_Subset
<1>5. found > 0 => w # {}
  BY FS_EmptySet
<1> HIDE DEF found
<1>6. size \in Nat /\ (size > 0 => o + size <= found)
  BY <1>1, <1>2
<1>7. \A k \in Nat \ {0} : (k <= PageLimit /\ o + k <= found) => k <= size
  BY <1>1, <1>2
<1>8. size <= PageLimit
  BY <1>1, <1>2
<1> HIDE DEF size
<1>9. Page \in [1..size -> Notices]
  <2> SUFFICES ASSUME NEW i \in 1..size
               PROVE  posted[Max(w) + 1 - (o + i)].notice \in Notices
    BY <1>3
  <2>1. w # {} /\ o + i <= found
    BY <1>1, <1>2, <1>5, <1>6
  <2>2. PICK M : M = Max(w)
    OBVIOUS
  <2>3. M \in 1..n /\ o + i <= M
    BY <1>1, <1>2, <1>c, <2>1, <2>2
  <2>4. M + 1 - (o + i) \in 1..n
    BY <1>1, <2>3
  <2> QED
    BY <1>1, <2>2, <2>4
<1>10. Page \in Seq(Notices) /\ Len(Page) = size /\ DOMAIN Page = 1..size
  BY <1>6, <1>9
<1>11. ASSUME InOrder, NEW i \in w, NEW j \in w, i + o <= j
       PROVE  \/ posted[i].notice \in Range(Page)
              \/ size = PageLimit /\ \E k \in w : i + o + PageLimit <= k
  <2>1. PICK M : M = Max(w)
    OBVIOUS
  <2>2. M \in w /\ i \in 1..n /\ M \in 1..n /\ i + o <= M /\ found <= M
    BY <1>1, <1>4, <1>11, <1>c, <2>1
  <2>3. i..M \in SUBSET w
    <3> SUFFICES ASSUME NEW k \in i..M PROVE k \in w
      OBVIOUS
    <3>a. {i, k, M} \subseteq 1..n /\ i <= k /\ k <= M
      BY <1>1, <2>2
    <3>1. k \in DOMAIN posted /\ posted[i].day <= posted[k].day /\ posted[k].day <= posted[M].day
      BY <1>1, <1>11, <3>a DEF InOrder
    <3>2. /\ posted[i].day + 1 >= run.to /\ posted[M].day <= run.to
          /\ {posted[i].day, posted[k].day, posted[M].day} \subseteq Nat
      BY <1>1, <2>2, <3>a DEF w, Window
    <3> QED
      BY <1>1, <3>1, <3>2 DEF w, Window
  <2>4. M - i + 1 <= found
    <3>1. Cardinality(i..M) = M - i + 1
      BY <1>1, <2>2, FS_Interval
    <3> QED
      BY <1>2, <2>3, <3>1, FS_Subset DEF found
  <2>5. CASE M - i < o + PageLimit
    <3> DEFINE k == M - i - o + 1
    <3>1. k \in 1..size /\ M + 1 - (o + k) = i
      BY <1>1, <1>2, <1>6, <1>7, <2>2, <2>4, <2>5
    <3>2. Page[k] = posted[i].notice
      BY <1>3, <2>1, <3>1
    <3> QED
      BY <1>10, <3>1, <3>2 DEF Range
  <2>6. CASE ~(M - i < o + PageLimit)
    <3>1. i + o + PageLimit <= M /\ o + PageLimit <= found
      BY <1>1, <1>2, <2>2, <2>4, <2>6
    <3>2. PageLimit <= size
      BY <1>1, <1>7, <3>1
    <3> QED
      BY <1>1, <1>6, <1>8, <2>2, <3>1, <3>2
  <2> QED
    BY <2>5, <2>6
<1> QED
  BY <1>10, <1>11 DEF w, o

LEMMA NoRunTyped == /\ NoRun \in Run /\ NoRun.phase = "none" /\ NoRun.new = {}
                    /\ NoRun.errors = {} /\ NoRun.fetched = <<>> /\ NoRun.offset = 0
BY SweepBounds DEF NoRun, Run, Days

LEMMA StartedTyped == Started \in Loop /\ [Started EXCEPT !.up = FALSE] \in Loop
BY DEF Started, Loop

LEMMA Reports ==
  /\ <<"done">> \in Report /\ <<"call_failed">> \in Report
  /\ \A f \in Founders : <<"excess", f>> \in Report
  /\ \A f \in Founders, n \in Notices : <<"attachment", f, n>> \in Report
BY DEF Report

\* What each step of a sweep makes of it.
LEMMA FetchPageFields ==
  ASSUME Types, FetchPage
  PROVE  /\ run.phase = "fetch" /\ run' \in Run
         /\ run'.to = run.to /\ run'.errors = run.errors /\ run'.new = run.new
         /\ run'.fetched = run.fetched \o Page
         /\ \/ run'.phase = "founders" /\ run'.todo = Founders /\ Len(Page) < PageLimit
            \/ /\ run'.phase = "fetch" /\ ~(Len(Page) < PageLimit)
               /\ run'.offset = run.offset + PageLimit
<1>1. run \in Run /\ run.phase = "fetch" /\ Page \in Seq(Notices)
  BY TypesAreTypeOK, PageHolds DEF Types, Data, FetchPage
<1>2. PICK x, y : x = run.fetched \o Page /\ y = run.offset + PageLimit
  OBVIOUS
<1>3. x \in Seq(Notices) /\ y \in Nat
  BY <1>1, <1>2, SweepBounds DEF Run
<1>4. PICK got : got = [run EXCEPT !.fetched = x, !.offset = y]
  OBVIOUS
<1>5. /\ got \in Run /\ got.to = run.to /\ got.errors = run.errors /\ got.new = run.new
      /\ got.fetched = x /\ got.offset = y /\ got.phase = "fetch"
  BY <1>1, <1>3, <1>4 DEF Run
<1>6. run' = IF Len(Page) < PageLimit THEN Fetched(got) ELSE got
  BY <1>2, <1>4 DEF FetchPage
<1>7. /\ Fetched(got) \in Run /\ Fetched(got).to = got.to /\ Fetched(got).errors = got.errors
      /\ Fetched(got).new = got.new /\ Fetched(got).fetched = got.fetched
      /\ Fetched(got).phase = "founders" /\ Fetched(got).todo = Founders
  BY <1>5 DEF Fetched, Run
<1> QED
  BY <1>1, <1>2, <1>5, <1>6, <1>7

LEMMA FailPageFields ==
  ASSUME Types, FailPage
  PROVE  /\ run.phase = "fetch" /\ run' \in Run /\ run'.to = run.to /\ run'.new = run.new
         /\ <<"call_failed">> \in run'.errors
         /\ \/ run'.phase = "fetch"
            \/ run'.phase = "founders" /\ run'.todo = Founders
<1>1. run \in Run /\ run.phase = "fetch"
  BY DEF Types, Data, FailPage
<1>2. PICK x, y : x = run.errors \cup {<<"call_failed">>} /\ y = run.offset + PageLimit
  OBVIOUS
<1>3. x \in SUBSET Report /\ y \in Nat /\ <<"call_failed">> \in x
  <2>1. run.errors \in SUBSET Report /\ run.offset \in Nat
    BY <1>1 DEF Run
  <2>2. y \in Nat
    BY <1>2, <2>1, SweepBounds
  <2>3. x \in SUBSET Report /\ <<"call_failed">> \in x
    BY <1>2, <2>1, Reports
  <2> QED
    BY <2>2, <2>3
<1>4. PICK next : next = [run EXCEPT !.errors = x, !.offset = y]
  OBVIOUS
<1>5. /\ next \in Run /\ next.to = run.to /\ next.errors = x /\ next.new = run.new
      /\ next.phase = "fetch"
  BY <1>1, <1>3, <1>4 DEF Run
<1>6. run' = Fetched(next) \/ run' = next
  BY <1>2, <1>4 DEF FailPage
<1>7. /\ Fetched(next) \in Run /\ Fetched(next).to = next.to
      /\ Fetched(next).errors = next.errors /\ Fetched(next).new = next.new
      /\ Fetched(next).phase = "founders" /\ Fetched(next).todo = Founders
  BY <1>5 DEF Fetched, Run
<1> QED
  BY <1>1, <1>3, <1>5, <1>6, <1>7

LEMMA NextFounderFields ==
  ASSUME Types, NEW f \in Founders, NextFounder(f)
  PROVE  /\ run.phase = "founders" /\ run' \in Run /\ run'.to = run.to /\ run'.new = run.new
         /\ run'.errors = run.errors /\ run'.fetched = run.fetched
         /\ run'.phase = "match" /\ run'.who = f /\ run'.todo = run.todo \ {f}
         /\ run'.rest = {i \in DOMAIN run.fetched : run.fetched[i] \in Watched[f]}
<1>1. run \in Run /\ run.phase = "founders"
  BY DEF Types, Data, NextFounder
<1>2. PICK x : x = {i \in DOMAIN run.fetched : run.fetched[i] \in Watched[f]}
  OBVIOUS
<1>3. x \in SUBSET Nat
  BY <1>1, <1>2 DEF Run
<1>4. run' = [run EXCEPT !.phase = "match", !.todo = @ \ {f}, !.who = f, !.count = 0,
                         !.entries = {}, !.rest = x]
  BY <1>2 DEF NextFounder
<1> QED
  BY <1>1, <1>2, <1>3, <1>4 DEF Run

\* The match at hand is a posting that was fetched.
LEMMA MatchIsFetched ==
  ASSUME Types, run.phase = "match", run.rest # {}
  PROVE  /\ Min(run.rest) \in run.rest /\ run.rest \subseteq DOMAIN run.fetched
         /\ Match \in Notices /\ run.who \in Founders
<1>1. run \in Run /\ run.who \in Founders /\ run.rest \subseteq DOMAIN run.fetched
  BY DEF Types, Data, Walk
<1>2. run.rest \in SUBSET Nat /\ run.fetched \in Seq(Notices)
  BY <1>1 DEF Run
<1>3. Min(run.rest) \in run.rest
  BY <1>2, MinIsLeast
<1>4. PICK k : k = Min(run.rest)
  OBVIOUS
<1>5. run.fetched[k] \in Notices
  BY <1>1, <1>2, <1>3, <1>4, ElementOf
<1> QED
  BY <1>1, <1>3, <1>4, <1>5 DEF Match

\* One match is passed: it was given before, or is reported, or becomes a row.
LEMMA PassFields ==
  ASSUME Types, NEW k, k = Min(run.rest), NEW n, n = Match,
         SkipMatch \/ FailMatch \/ Materialize
  PROVE  /\ run.phase = "match" /\ k \in run.rest /\ n = run.fetched[k] /\ n \in Notices
         /\ run.who \in Founders /\ run.rest \subseteq DOMAIN run.fetched
         /\ run' \in Run /\ run'.phase = "match" /\ run'.to = run.to /\ run'.who = run.who
         /\ run'.todo = run.todo /\ run'.fetched = run.fetched /\ run'.rest = run.rest \ {k}
         /\ run.errors \subseteq run'.errors /\ run.new \subseteq run'.new
         /\ \/ AlreadyMatched(n)
            \/ <<"excess", run.who>> \in run'.errors
            \/ <<"attachment", run.who, n>> \in run'.errors
            \/ \E r \in run'.new : r.who = run.who /\ r.sol = Solicitation[n]
<1>1. /\ run.phase = "match" /\ run \in Run /\ k \in run.rest /\ n = run.fetched[k]
      /\ n \in Notices /\ run.who \in Founders /\ run.rest \subseteq DOMAIN run.fetched
  BY MatchIsFetched DEF Types, Data, SkipMatch, FailMatch, Materialize, Match
<1>2. PICK x : x = run.rest \ {k} /\ x \in SUBSET Nat
  BY <1>1 DEF Run
<1>3. CASE SkipMatch
  <2>1. PICK e : /\ run' = [run EXCEPT !.rest = x, !.errors = e]
                 /\ e = IF AlreadyMatched(n) THEN run.errors
                         ELSE run.errors \cup {<<"excess", run.who>>}
    BY <1>2, <1>3 DEF SkipMatch
  <2>2. e \in SUBSET Report
    BY <1>1, <2>1, Reports DEF Run
  <2> QED
    BY <1>1, <1>2, <2>1, <2>2 DEF Run
<1>4. CASE FailMatch
  <2>1. PICK e, c : /\ run' = [run EXCEPT !.rest = x, !.count = c, !.errors = e]
                    /\ e = run.errors \cup {<<"attachment", run.who, n>>}
                    /\ c = run.count + 1
    BY <1>2, <1>4 DEF FailMatch
  <2>2. e \in SUBSET Report /\ c \in Nat
    BY <1>1, <2>1, Reports DEF Run
  <2> QED
    BY <1>1, <1>2, <2>1, <2>2 DEF Run
<1>5. CASE Materialize
  <2>1. PICK c, d, row, m :
          /\ run' = [run EXCEPT !.rest = x, !.count = c, !.entries = d, !.new = m]
          /\ c = run.count + 1 /\ d = run.entries \cup {ids + 1} /\ ids + 1 <= MaxIds
          /\ row = [who |-> run.who, sol |-> Solicitation[n], id |-> ids + 1, at |-> now]
          /\ m = run.new \cup {row}
    BY <1>2, <1>5 DEF Materialize
  <2>2. ids + 1 \in 1..MaxIds
    BY <2>1, SweepBounds DEF Types, Data
  <2>3. row \in Row /\ row.who = run.who /\ row.sol = Solicitation[n] /\ row \in m
    BY <1>1, <2>1, <2>2, SweepBounds DEF Row, Sols, Types, Clock
  <2>4. c \in Nat /\ d \in SUBSET (1..MaxIds) /\ m \in SUBSET Row
    BY <1>1, <2>1, <2>2, <2>3 DEF Run
  <2>5. /\ run' \in Run /\ run'.phase = "match" /\ run'.to = run.to /\ run'.who = run.who
        /\ run'.todo = run.todo /\ run'.fetched = run.fetched /\ run'.rest = x
        /\ run'.errors = run.errors /\ run'.new = m
    BY <1>1, <1>2, <2>1, <2>4 DEF Run
  <2> QED
    BY <1>1, <1>2, <2>1, <2>3, <2>5
<1> QED
  BY <1>3, <1>4, <1>5

LEMMA SendDigestFields ==
  ASSUME Types, SendDigest
  PROVE  /\ run.phase = "match" /\ run.rest = {} /\ run' \in Run /\ run'.phase = "founders"
         /\ run'.to = run.to /\ run'.new = run.new /\ run'.errors = run.errors
         /\ run'.fetched = run.fetched /\ run'.todo = run.todo
<1>1. /\ run \in Run /\ run.phase = "match" /\ run.rest = {}
      /\ run' = [run EXCEPT !.phase = "founders", !.who = None, !.entries = {}, !.count = 0]
  BY DEF Types, Data, SendDigest
<1> QED
  BY <1>1 DEF Run

LEMMA StartJobFields ==
  ASSUME Types, NEW j \in Range(Jobs), StartJob(j)
  PROVE  /\ run' \in Run
         /\ \/ run'.phase \in {"cleanup", "other"}
            \/ run'.phase = "fetch" /\ run'.to = Day(now) /\ run'.offset = 0
<1>1. Day(now) \in Days
  BY DayIsADay, TypesAreTypeOK DEF Types
<1>2. \/ run' = [NoRun EXCEPT !.phase = "fetch", !.to = Day(now)]
      \/ run' = [NoRun EXCEPT !.phase = "cleanup"]
      \/ run' = [NoRun EXCEPT !.phase = "other"]
  BY DEF StartJob
<1> QED
  BY <1>1, <1>2, NoRunTyped DEF Run

LEMMA SweepTypesStart == Init => Types
<1> SUFFICES ASSUME Init PROVE Types
  OBVIOUS
<1>1. Clock
  BY SweepBounds DEF Init, Clock
<1>2. Data
  BY SweepBounds, NoRunTyped, StartedTyped DEF Init, Data
<1>3. Walk
  BY NoRunTyped DEF Init, Walk
<1> QED
  BY <1>1, <1>2, <1>3 DEF Types

\* Steps that only move the sweep.
LEMMA RunTyped ==
  ASSUME Types, run' \in Run, Walk',
         UNCHANGED <<now, posted, loop, rows, files, matched, nights, faults>>,
         ids' \in 0..MaxIds, mails' \subseteq 1..MaxIds
  PROVE  Types'
<1>1. Clock'
  BY DEF Types, Clock
<1>2. Data'
  BY DEF Types, Data
<1> QED
  BY <1>1, <1>2 DEF Types

LEMMA PassTyped == Types /\ (SkipMatch \/ FailMatch \/ Materialize) => Types'
<1> SUFFICES ASSUME Types, SkipMatch \/ FailMatch \/ Materialize PROVE Types'
  OBVIOUS
<1>1. PICK k, n : k = Min(run.rest) /\ n = Match
  OBVIOUS
<1>2. run' \in Run /\ Walk'
  BY <1>1, PassFields DEF Walk
<1>3. CASE SkipMatch \/ FailMatch
  <2>1. UNCHANGED <<now, posted, loop, rows, files, matched, nights, faults, ids, mails>>
    BY <1>3 DEF SkipMatch, FailMatch
  <2>2. ids' \in 0..MaxIds /\ mails' \subseteq 1..MaxIds
    BY <2>1 DEF Types, Data
  <2> QED
    BY <1>2, <2>1, <2>2, RunTyped
<1>4. CASE Materialize
  <2>1. /\ UNCHANGED <<now, posted, loop, rows, mails, matched, nights, faults>>
        /\ ids' = ids + 1 /\ ids + 1 <= MaxIds /\ files' = files \cup {ids + 1}
    BY <1>4 DEF Materialize
  <2>2. ids' \in 0..MaxIds /\ files' \subseteq 1..MaxIds
    BY <2>1, SweepBounds DEF Types, Data
  <2>3. Clock'
    BY <2>1 DEF Types, Clock
  <2>4. Data'
    BY <1>2, <2>1, <2>2 DEF Types, Data
  <2> QED
    BY <1>2, <2>3, <2>4 DEF Types
<1> QED
  BY <1>3, <1>4

LEMMA SweepStepsTyped ==
  Types /\ (FetchPage \/ FailPage \/ SendDigest \/ \E f \in Founders : NextFounder(f)) => Types'
<1> SUFFICES ASSUME Types, FetchPage \/ FailPage \/ SendDigest
                           \/ \E f \in Founders : NextFounder(f)
             PROVE  Types'
  OBVIOUS
<1>1. UNCHANGED <<now, posted, loop, rows, files, matched, nights, faults, ids>>
  BY DEF FetchPage, FailPage, SendDigest, NextFounder
<1>2. run' \in Run /\ Walk'
  BY FetchPageFields, FailPageFields, SendDigestFields, NextFounderFields DEF Walk
<1>3. mails' = mails \/ mails' = mails \cup run.entries
  BY DEF FetchPage, FailPage, SendDigest, NextFounder
<1>4. ids' \in 0..MaxIds /\ mails' \subseteq 1..MaxIds
  BY <1>1, <1>3 DEF Types, Data, Run
<1> QED
  BY <1>1, <1>2, <1>4, RunTyped

LEMMA CommitTyped == Types /\ CommitSweep => Types'
<1> SUFFICES ASSUME Types, CommitSweep PROVE Types'
  OBVIOUS
<1>1. /\ rows' = rows \cup run.new /\ run' = NoRun
      /\ matched' = matched \cup {<<r.who, r.sol>> : r \in run.new}
      /\ UNCHANGED <<now, posted, loop, files, mails, ids, faults>>
      /\ run \in Run /\ nights \in [Days -> SUBSET Report]
  BY DEF CommitSweep, Types, Data
<1>2. PICK e : e = nights[run.to] \cup run.errors \cup {<<"done">>}
  OBVIOUS
<1>3. nights' = [nights EXCEPT ![run.to] = e]
  BY <1>2 DEF CommitSweep
<1>4. run.new \subseteq Row /\ run.errors \subseteq Report /\ run.to \in Days
  BY <1>1 DEF Run
<1>5. e \in SUBSET Report
  BY <1>1, <1>2, <1>4, Reports
<1>6. nights' \in [Days -> SUBSET Report]
  BY <1>1, <1>3, <1>5
<1>7. \A r \in run.new : <<r.who, r.sol>> \in Founders \X Sols
  BY <1>4 DEF Row
<1>8. Data'
  BY <1>1, <1>4, <1>6, <1>7, NoRunTyped DEF Types, Data
<1>9. Clock' /\ Walk'
  BY <1>1, NoRunTyped DEF Types, Clock, Walk
<1> QED
  BY <1>8, <1>9 DEF Types

LEMMA LoopTyped ==
  ASSUME Types, run' \in Run, Walk', loop' \in Loop, faults' \in 0..MaxFaults,
         UNCHANGED <<now, posted, rows, files, mails, ids, matched, nights>>
  PROVE  Types'
<1>1. Clock'
  BY DEF Types, Clock
<1>2. Data'
  BY DEF Types, Data
<1> QED
  BY <1>1, <1>2 DEF Types

LEMMA OutsideTyped ==
  /\ Types /\ Tick => Types'
  /\ \A n \in Notices : Types /\ Post(n) => Types'
  /\ \A r \in rows : Types /\ (DeleteMatrix(r) \/ Destroy(r)) => Types'
<1>1. ASSUME Types, Tick PROVE Types'
  <2>1. /\ now' = now + 1 /\ now < MaxTime
        /\ loop' = [loop EXCEPT !.seen = FALSE, !.last = {}]
        /\ UNCHANGED <<posted, run, rows, files, mails, ids, matched, nights, faults>>
    BY <1>1 DEF Tick
  <2>2. Clock'
    BY <1>1, <2>1, SweepBounds DEF Types, Clock
  <2>3. loop' \in Loop
    BY <1>1, <2>1 DEF Types, Data, Loop
  <2>4. Data' /\ Walk'
    BY <1>1, <2>1, <2>3 DEF Types, Data, Walk
  <2> QED
    BY <2>2, <2>4 DEF Types
<1>2. ASSUME Types, NEW n \in Notices, Post(n) PROVE Types'
  <2>1. /\ posted' = Append(posted, [notice |-> n, day |-> Day(now)])
        /\ UNCHANGED <<now, loop, run, rows, files, mails, ids, matched, nights, faults>>
    BY <1>2 DEF Post
  <2>2. [notice |-> n, day |-> Day(now)] \in [notice: Notices, day: Days]
    BY <1>2, DayIsADay, TypesAreTypeOK DEF Types
  <2>3. posted' \in Seq([notice: Notices, day: Days])
    BY <1>2, <2>1, <2>2 DEF Types, Data
  <2>4. Data' /\ Walk' /\ Clock'
    BY <1>2, <2>1, <2>3 DEF Types, Data, Walk, Clock
  <2> QED
    BY <2>4 DEF Types
<1>3. ASSUME Types, NEW r \in rows, DeleteMatrix(r) \/ Destroy(r) PROVE Types'
  <2>1. /\ rows' \subseteq rows /\ files' = files \ {r.id} /\ mails' \subseteq mails
        /\ UNCHANGED <<now, posted, loop, run, ids, matched, nights, faults>>
    BY <1>3 DEF DeleteMatrix, Destroy
  <2>2. Data' /\ Walk' /\ Clock'
    BY <1>3, <2>1 DEF Types, Data, Walk, Clock
  <2> QED
    BY <2>2 DEF Types
<1> QED
  BY <1>1, <1>2, <1>3

\* The rows, the history and the reports of sweeps, and the sweep under way.
LEMMA SweepTypesStep == Types /\ [Next]_vars => Types'
<1> SUFFICES ASSUME Types, [Next]_vars PROVE Types'
  OBVIOUS
<1>0. /\ loop \in Loop /\ run \in Run /\ faults \in 0..MaxFaults
  BY DEF Types, Data
<1>1. CASE Cycle
  <2>1. PICK due : /\ loop' = [loop EXCEPT !.seen = TRUE, !.due = due, !.last = @ \cup due]
                   /\ due \in SUBSET Range(Jobs)
    BY <1>1 DEF Cycle
  <2>2. loop' \in Loop
    BY <1>0, <2>1 DEF Loop
  <2>3. UNCHANGED <<now, posted, run, rows, files, mails, ids, matched, nights, faults>>
    BY <1>1 DEF Cycle
  <2> QED
    BY <1>0, <2>2, <2>3, LoopTyped DEF Types, Walk
<1>2. CASE EndOther
  BY <1>0, <1>2, NoRunTyped, LoopTyped DEF EndOther, Walk
<1>3. ASSUME NEW j \in Range(Jobs), StartJob(j) PROVE Types'
  <2>1. run' \in Run /\ Walk'
    BY <1>3, StartJobFields DEF Walk
  <2>2. /\ loop' = [loop EXCEPT !.due = @ \ {j}]
        /\ UNCHANGED <<now, posted, rows, files, mails, ids, matched, nights, faults>>
    BY <1>3 DEF StartJob
  <2>3. loop' \in Loop
    BY <1>0, <2>2 DEF Loop
  <2> QED
    BY <1>0, <2>1, <2>2, <2>3, LoopTyped
<1>4. CASE FailSweep \/ Crash
  <2>1. /\ run' = NoRun /\ faults < MaxFaults /\ faults' = faults + 1
        /\ UNCHANGED <<now, posted, rows, files, mails, ids, matched, nights>>
        /\ loop' = loop \/ loop' = [Started EXCEPT !.up = FALSE]
    BY <1>4 DEF FailSweep, Crash, Fault
  <2>2. faults' \in 0..MaxFaults
    BY <1>0, <2>1, SweepBounds
  <2>3. loop' \in Loop
    BY <1>0, <2>1, StartedTyped
  <2> QED
    BY <2>1, <2>2, <2>3, NoRunTyped, LoopTyped DEF Walk
<1>5. CASE Restart
  BY <1>0, <1>5, StartedTyped, LoopTyped DEF Restart, Types, Walk
<1>6. CASE UNCHANGED vars
  BY <1>6 DEF vars, Types, Clock, Data, Walk
<1> QED
  BY <1>1, <1>2, <1>3, <1>4, <1>5, <1>6, PassTyped, SweepStepsTyped, CommitTyped, OutsideTyped
     DEF Next, Step, RunSweep

\* The types of the cron loop, the sweep and its tables, for any calendar.
THEOREM SweepTypeCorrect == Spec => []TypeOK
<1>1. Types => TypeOK
  BY TypesAreTypeOK DEF Types
<1> QED
  BY <1>1, SweepTypesStart, SweepTypesStep, PTL DEF Spec
-----------------------------------------------------------------------------
(* Nothing is dropped silently.  A posting is followed from the day after  *)
(* it was posted: it is on a page fetched, or on one to come, or a call    *)
(* failed; once fetched it waits, or was given or is reported; the commit  *)
(* keeps what the sweep reports.                                           *)

Reasons(f, n) == {<<"call_failed">>, <<"excess", f>>, <<"attachment", f, n>>}
Missed == <<"call_failed">> \in run.errors
Sweeping == run.phase \in {"fetch", "founders", "match"}
Earlier(i) == posted[i].day + 1 = run.to

Given(f, n) ==
  \/ <<f, Solicitation[n]>> \in matched
  \/ \E r \in run.new : r.who = f /\ r.sol = Solicitation[n]

\* A sweep looks back from a day that has begun, and so did those committed.
Begun ==
  /\ Sweeping => run.to <= Today
  /\ \A d \in Days : <<"done">> \in nights[d] => d <= Today

RowsAreMatched == \A r \in rows : <<r.who, r.sol>> \in matched

Paged == run.phase = "fetch" =>
  \/ Missed
  \/ \A i \in DOMAIN posted : Earlier(i) =>
       \/ posted[i].notice \in Range(run.fetched)
       \/ \E j \in Window : i + run.offset <= j

AllPaged == run.phase \in {"founders", "match"} =>
  \/ Missed
  \/ \A i \in DOMAIN posted : Earlier(i) => posted[i].notice \in Range(run.fetched)

Handled == run.phase \in {"founders", "match"} =>
  \A f \in Founders : \A n \in Range(run.fetched) \cap Watched[f] :
    \/ f \in run.todo
    \/ run.errors \cap Reasons(f, n) # {}
    \/ Given(f, n)
    \/ run.phase = "match" /\ f = run.who /\ \E k \in run.rest : run.fetched[k] = n

NightsTell ==
  \A i \in DOMAIN posted, f \in Founders, d \in Days :
    (<<"done">> \in nights[d] /\ posted[i].day + 1 = d /\ posted[i].notice \in Watched[f]) =>
      \/ <<f, Solicitation[posted[i].notice]>> \in matched
      \/ nights[d] \cap Reasons(f, posted[i].notice) # {}

SilentInv ==
  InOrder /\ Begun /\ RowsAreMatched /\ Paged /\ AllPaged /\ Handled /\ NightsTell

LEMMA SilentTells == Types /\ SilentInv => NothingSilent
<1> SUFFICES ASSUME Types, SilentInv, NEW i \in DOMAIN posted, NEW f \in Founders,
                    posted[i].notice \in Watched[f], posted[i].day + 1 <= MaxDay
             PROVE  \/ <<f, Solicitation[posted[i].notice]>> \in matched
                    \/ (nights[posted[i].day] \cup nights[posted[i].day + 1])
                         \cap Reasons(f, posted[i].notice) # {}
                    \/ <<"done">> \notin nights[posted[i].day + 1]
  BY DEF NothingSilent, Reasons
<1>1. posted[i].day + 1 \in Days
  BY PostedTyped, TypesAreTypeOK, SweepBounds DEF Types, Days
<1> QED
  BY <1>1 DEF SilentInv, NightsTell

LEMMA SilentStart == Init => SilentInv
<1> SUFFICES ASSUME Init PROVE SilentInv
  OBVIOUS
<1>1. /\ DOMAIN posted = {} /\ run.phase = "none" /\ rows = {}
      /\ \A d \in Days : nights[d] = {}
  BY NoRunTyped DEF Init
<1> QED
  BY <1>1 DEF SilentInv, InOrder, Begun, RowsAreMatched, Paged, AllPaged, Handled, NightsTell,
              Sweeping

\* No sweep is begun or moved on.
LEMMA NoSweepMoves ==
  ASSUME SilentInv, UNCHANGED <<now, posted, matched, nights>>, rows' \subseteq rows,
         UNCHANGED run \/ run'.phase \in {"none", "cleanup", "other"}
  PROVE  SilentInv'
<1>1. InOrder' /\ RowsAreMatched' /\ NightsTell'
  BY DEF SilentInv, InOrder, RowsAreMatched, NightsTell, Today
<1>2. CASE UNCHANGED run
  <2>1. Begun' /\ Paged' /\ AllPaged' /\ Handled'
    BY <1>2 DEF SilentInv, Begun, Paged, AllPaged, Handled, Sweeping, Today, Missed, Earlier,
                Window, Given
  <2> QED
    BY <1>1, <2>1 DEF SilentInv
<1>3. CASE run'.phase \in {"none", "cleanup", "other"}
  <2>1. Begun' /\ Paged' /\ AllPaged' /\ Handled'
    BY <1>3 DEF SilentInv, Begun, Paged, AllPaged, Handled, Sweeping, Today
  <2> QED
    BY <1>1, <2>1 DEF SilentInv
<1> QED
  BY <1>2, <1>3

\* The sweep under way moves on.
LEMMA SweepGoesOn ==
  ASSUME SilentInv, UNCHANGED <<now, posted, rows, matched, nights>>,
         Sweeping, run'.to = run.to, Paged', AllPaged', Handled'
  PROVE  SilentInv'
<1>1. InOrder' /\ RowsAreMatched' /\ NightsTell'
  BY DEF SilentInv, InOrder, RowsAreMatched, NightsTell, Today
<1>2. Begun'
  BY DEF SilentInv, Begun, Today
<1> QED
  BY <1>1, <1>2 DEF SilentInv

LEMMA SilentSweepBegins ==
  ASSUME Types, SilentInv, NEW j \in Range(Jobs), StartJob(j)
  PROVE  SilentInv'
<1>1. UNCHANGED <<now, posted, rows, matched, nights>>
  BY DEF StartJob
<1>2. CASE run'.phase \in {"cleanup", "other"}
  BY <1>1, <1>2, NoSweepMoves
<1>3. CASE run'.phase = "fetch" /\ run'.to = Today /\ run'.offset = 0
  <2>1. InOrder' /\ RowsAreMatched' /\ NightsTell'
    BY <1>1 DEF SilentInv, InOrder, RowsAreMatched, NightsTell, Today
  <2>2. Today \in Nat
    BY DayIsADay, TypesAreTypeOK DEF Types, Day, Today
  <2>3. Begun'
    BY <1>1, <1>3, <2>2 DEF SilentInv, Begun, Today
  <2>4. \A i \in DOMAIN posted : i \in Nat /\ posted[i].day \in Nat
    BY PostedTyped, TypesAreTypeOK DEF Types
  <2>5. ASSUME NEW i \in DOMAIN posted, posted[i].day + 1 = run'.to
        PROVE  i \in Window' /\ i + run'.offset <= i
    BY <1>1, <1>3, <2>2, <2>4, <2>5 DEF Window
  <2>6. Paged'
    BY <1>1, <2>5 DEF Paged, Earlier
  <2>7. AllPaged' /\ Handled'
    BY <1>3 DEF AllPaged, Handled
  <2> QED
    BY <2>1, <2>3, <2>6, <2>7 DEF SilentInv
<1> QED
  BY <1>2, <1>3, StartJobFields DEF Day, Today

LEMMA RangeOfBoth ==
  ASSUME NEW S, NEW s \in Seq(S), NEW t \in Seq(S)
  PROVE  Range(s) \cup Range(t) \subseteq Range(s \o t)
<1>1. ASSUME NEW i \in DOMAIN s PROVE s[i] = (s \o t)[i] /\ i \in DOMAIN (s \o t)
  OBVIOUS
<1>2. ASSUME NEW i \in DOMAIN t
      PROVE  t[i] = (s \o t)[Len(s) + i] /\ Len(s) + i \in DOMAIN (s \o t)
  OBVIOUS
<1> QED
  BY <1>1, <1>2 DEF Range

\* A page holds the postings looked for that no later page holds.
LEMMA SilentPageFetched == ASSUME Types, SilentInv, FetchPage PROVE SilentInv'
<1>1. /\ UNCHANGED <<now, posted, rows, matched, nights>> /\ run.phase = "fetch"
      /\ run \in Run /\ run'.to = run.to /\ run'.errors = run.errors
      /\ run'.fetched = run.fetched \o Page
  BY FetchPageFields DEF FetchPage, Types, Data
<1>2. CASE Missed
  <2>1. Missed'
    BY <1>1, <1>2 DEF Missed
  <2>2. Handled'
    BY FetchPageFields DEF Handled
  <2>3. Paged' /\ AllPaged'
    BY <2>1 DEF Paged, AllPaged
  <2> QED
    BY <1>1, <2>2, <2>3, SweepGoesOn DEF Sweeping
<1>3. CASE ~Missed
  <2>1. Range(run.fetched) \cup Range(Page) \subseteq Range(run'.fetched)
    BY <1>1, RangeOfBoth, PageHolds, TypesAreTypeOK DEF Run, Types
  <2>2. /\ {run.offset, run.to, PageLimit, Len(Page)} \subseteq Nat
        /\ \A i \in DOMAIN posted : i \in Nat /\ posted[i].day \in Nat
    <3>1. TypeOK
      BY TypesAreTypeOK DEF Types
    <3>2. Len(Page) \in Nat
      BY <3>1, PageHolds
    <3>3. {run.offset, run.to, PageLimit} \subseteq Nat
      BY <1>1, SweepBounds DEF Run, Days
    <3> QED
      BY <3>1, <3>2, <3>3, PostedTyped
  <2>3. ASSUME NEW i \in DOMAIN posted, Earlier(i)
        PROVE  \/ posted[i].notice \in Range(run'.fetched)
               \/ /\ Len(Page) = PageLimit
                  /\ \E k \in Window : i + run.offset + PageLimit <= k
    <3>1. i \in Window
      BY <2>2, <2>3 DEF Window, Earlier
    <3>2. \/ posted[i].notice \in Range(run.fetched)
          \/ \E j \in Window : i + run.offset <= j
      BY <1>1, <1>3, <2>3 DEF SilentInv, Paged
    <3> QED
      BY <2>1, <3>1, <3>2, PageHolds, TypesAreTypeOK DEF Types, SilentInv
  <2>4. \A i \in DOMAIN posted' : Earlier(i)' => Earlier(i)
    BY <1>1 DEF Earlier
  <2>5. Window' = Window
    BY <1>1 DEF Window
  <2>6. CASE run'.phase = "founders" /\ run'.todo = Founders /\ Len(Page) < PageLimit
    <3>1. AllPaged'
      BY <1>1, <2>2, <2>3, <2>4, <2>6 DEF AllPaged
    <3>2. Paged' /\ Handled'
      BY <2>6 DEF Paged, Handled
    <3> QED
      BY <1>1, <3>1, <3>2, SweepGoesOn DEF Sweeping
  <2>7. CASE run'.phase = "fetch" /\ run'.offset = run.offset + PageLimit
    <3>1. \A k \in Window : \A i \in DOMAIN posted :
            i + run.offset + PageLimit <= k => i + run'.offset <= k
      BY <2>2, <2>7
    <3>2. Paged'
      BY <1>1, <2>3, <2>4, <2>5, <3>1 DEF Paged
    <3>3. AllPaged' /\ Handled'
      BY <2>7 DEF AllPaged, Handled
    <3> QED
      BY <1>1, <3>2, <3>3, SweepGoesOn DEF Sweeping
  <2> QED
    BY <2>6, <2>7, FetchPageFields
<1> QED
  BY <1>2, <1>3

\* A failed call is reported, whatever its page held.
LEMMA SilentPageFails == ASSUME Types, SilentInv, FailPage PROVE SilentInv'
<1>1. /\ UNCHANGED <<now, posted, rows, matched, nights>> /\ run.phase = "fetch"
      /\ run'.to = run.to /\ Missed'
      /\ \/ run'.phase = "fetch"
         \/ run'.phase = "founders" /\ run'.todo = Founders
  BY FailPageFields DEF FailPage, Missed
<1>2. Paged' /\ AllPaged'
  BY <1>1 DEF Paged, AllPaged
<1>3. Handled'
  BY <1>1 DEF Handled
<1> QED
  BY <1>1, <1>2, <1>3, SweepGoesOn DEF Sweeping

\* A founder's matches are all the fetched postings of the watchlist.
LEMMA SilentFounderBegins ==
  ASSUME Types, SilentInv, NEW g \in Founders, NextFounder(g)
  PROVE  SilentInv'
<1>1. /\ UNCHANGED <<now, posted, rows, matched, nights>> /\ run.phase = "founders"
      /\ run'.to = run.to /\ run'.new = run.new /\ run'.errors = run.errors
      /\ run'.fetched = run.fetched /\ run'.phase = "match" /\ run'.who = g
      /\ run'.todo = run.todo \ {g}
      /\ run'.rest = {i \in DOMAIN run.fetched : run.fetched[i] \in Watched[g]}
  BY NextFounderFields, Zenon DEF NextFounder
<1>2. Paged' /\ AllPaged'
  BY <1>1 DEF SilentInv, Paged, AllPaged, Missed, Earlier
<1>3. Handled'
  <2> SUFFICES ASSUME NEW f \in Founders, NEW n \in Range(run.fetched) \cap Watched[f]
               PROVE  \/ f \in run'.todo
                      \/ run'.errors \cap Reasons(f, n) # {}
                      \/ Given(f, n)'
                      \/ /\ run'.phase = "match" /\ f = run'.who
                         /\ \E k \in run'.rest : run'.fetched[k] = n
    BY <1>1 DEF Handled
  <2>1. CASE f = g
    <3>1. PICK k \in DOMAIN run.fetched : run.fetched[k] = n
      BY DEF Range
    <3> QED
      BY <1>1, <2>1, <3>1
  <2>2. CASE f # g
    BY <1>1, <2>2 DEF SilentInv, Handled, Given
  <2> QED
    BY <2>1, <2>2
<1>4. UNCHANGED <<now, posted, rows, matched, nights>> /\ Sweeping /\ run'.to = run.to
  BY <1>1 DEF Sweeping
<1> QED
  BY <1>2, <1>3, <1>4, SweepGoesOn, Zenon

\* A match that is passed was given, or is reported.
LEMMA SilentMatchPassed ==
  ASSUME Types, SilentInv, SkipMatch \/ FailMatch \/ Materialize
  PROVE  SilentInv'
<1>1. PICK k, m, w : k = Min(run.rest) /\ m = Match /\ w = run.who
  OBVIOUS
<1>2. /\ UNCHANGED <<now, posted, rows, matched, nights>>
  BY DEF SkipMatch, FailMatch, Materialize
<1>3. /\ run.phase = "match" /\ k \in run.rest /\ m = run.fetched[k]
      /\ run'.phase = "match" /\ run'.to = run.to /\ run'.who = run.who
      /\ run'.todo = run.todo /\ run'.fetched = run.fetched /\ run'.rest = run.rest \ {k}
      /\ run.errors \subseteq run'.errors /\ run.new \subseteq run'.new
      /\ \/ AlreadyMatched(m)
         \/ <<"excess", run.who>> \in run'.errors
         \/ <<"attachment", run.who, m>> \in run'.errors
         \/ \E r \in run'.new : r.who = run.who /\ r.sol = Solicitation[m]
  BY <1>1, PassFields
<1>4. run'.errors \cap Reasons(w, m) # {} \/ Given(w, m)'
  <2>1. AlreadyMatched(m) => Given(w, m)
    BY <1>1 DEF AlreadyMatched, Given, SilentInv, RowsAreMatched
  <2> QED
    BY <1>1, <1>2, <1>3, <2>1 DEF Given, Reasons
<1>5. Paged' /\ AllPaged'
  BY <1>2, <1>3 DEF SilentInv, Paged, AllPaged, Missed, Earlier
<1>6. Handled'
  <2> SUFFICES ASSUME NEW f \in Founders, NEW n \in Range(run.fetched) \cap Watched[f]
               PROVE  \/ f \in run'.todo
                      \/ run'.errors \cap Reasons(f, n) # {}
                      \/ Given(f, n)'
                      \/ /\ run'.phase = "match" /\ f = run'.who
                         /\ \E h \in run'.rest : run'.fetched[h] = n
    BY <1>3 DEF Handled
  <2>1. CASE f = w /\ n = m
    BY <1>4, <2>1 DEF Given
  <2>2. CASE ~(f = w /\ n = m)
    BY <1>1, <1>2, <1>3, <2>2 DEF SilentInv, Handled, Given
  <2> QED
    BY <2>1, <2>2
<1> QED
  BY <1>2, <1>3, <1>5, <1>6, SweepGoesOn DEF Sweeping

LEMMA SilentDigestSent == ASSUME Types, SilentInv, SendDigest PROVE SilentInv'
<1>1. /\ UNCHANGED <<now, posted, rows, matched, nights>> /\ run.phase = "match"
      /\ run.rest = {} /\ run'.phase = "founders" /\ run'.to = run.to
      /\ run'.new = run.new /\ run'.errors = run.errors
      /\ run'.fetched = run.fetched /\ run'.todo = run.todo
  BY SendDigestFields DEF SendDigest
<1>2. Paged' /\ AllPaged'
  BY <1>1 DEF SilentInv, Paged, AllPaged, Missed, Earlier
<1>3. Handled'
  BY <1>1 DEF SilentInv, Handled, Given
<1> QED
  BY <1>1, <1>2, <1>3, SweepGoesOn DEF Sweeping

\* The commit: what the sweep gave and what it reports are kept together.
LEMMA SilentCommit == ASSUME Types, SilentInv, CommitSweep PROVE SilentInv'
<1>1. /\ run.phase = "founders" /\ run.todo = {} /\ rows' = rows \cup run.new
      /\ matched' = matched \cup {<<r.who, r.sol>> : r \in run.new}
      /\ UNCHANGED <<now, posted>> /\ run'.phase = "none"
  BY NoRunTyped DEF CommitSweep
<1>2. PICK c, e : /\ c = run.to /\ e = nights[c] \cup run.errors \cup {<<"done">>}
                  /\ nights' = [nights EXCEPT ![c] = e]
                  /\ nights \in [Days -> SUBSET Report] /\ c \in Days
  BY DEF CommitSweep, Types, Data, Run
<1>3. nights'[c] = e /\ \A d \in Days : d # c => nights'[d] = nights[d]
  BY <1>2
<1>4. InOrder' /\ RowsAreMatched'
  BY <1>1 DEF SilentInv, InOrder, RowsAreMatched, Today
<1>5. Begun'
  <2>1. c <= Today /\ \A d \in Days : <<"done">> \in nights[d] => d <= Today
    BY <1>1, <1>2 DEF SilentInv, Begun, Sweeping
  <2> QED
    BY <1>1, <1>3, <2>1 DEF Begun, Sweeping, Today
<1>6. Paged' /\ AllPaged' /\ Handled'
  BY <1>1 DEF Paged, AllPaged, Handled
<1>7. NightsTell'
  <2> SUFFICES ASSUME NEW i \in DOMAIN posted, NEW f \in Founders, NEW d \in Days,
                      <<"done">> \in nights'[d], posted[i].day + 1 = d,
                      posted[i].notice \in Watched[f]
               PROVE  \/ <<f, Solicitation[posted[i].notice]>> \in matched'
                      \/ nights'[d] \cap Reasons(f, posted[i].notice) # {}
    BY <1>1 DEF NightsTell
  <2>1. PICK n : n = posted[i].notice
    OBVIOUS
  <2>2. CASE d # c
    BY <1>1, <1>3, <2>2 DEF SilentInv, NightsTell
  <2>3. CASE d = c
    <3>1. CASE Missed
      BY <1>2, <1>3, <2>3, <3>1 DEF Missed, Reasons
    <3>2. CASE ~Missed
      <4>1. n \in Range(run.fetched) \cap Watched[f]
        BY <1>1, <1>2, <2>1, <2>3, <3>2 DEF SilentInv, AllPaged, Earlier
      <4>2. run.errors \cap Reasons(f, n) # {} \/ Given(f, n)
        BY <1>1, <4>1 DEF SilentInv, Handled
      <4>3. Given(f, n) => <<f, Solicitation[n]>> \in matched'
        BY <1>1 DEF Given
      <4> QED
        BY <1>2, <1>3, <2>1, <2>3, <4>2, <4>3
    <3> QED
      BY <3>1, <3>2
  <2> QED
    BY <2>2, <2>3
<1> QED
  BY <1>4, <1>5, <1>6, <1>7 DEF SilentInv

LEMMA SilentTick == ASSUME Types, SilentInv, Tick PROVE SilentInv'
<1>1. now' = now + 1 /\ UNCHANGED <<posted, run, rows, matched, nights>>
  BY DEF Tick
<1>2. {Today, Today'} \subseteq Nat /\ Today <= Today'
  <2>1. now \in Nat /\ Minutes \in Nat \ {0}
    BY SweepBounds DEF Types, Clock
  <2>2. /\ now \div Minutes \in Nat /\ (now + 1) \div Minutes \in Nat
        /\ now \div Minutes <= (now + 1) \div Minutes
    BY <2>1
  <2> QED
    BY <1>1, <2>2 DEF Today
<1>3. \A i \in DOMAIN posted : posted[i].day \in Nat
  BY PostedTyped, TypesAreTypeOK DEF Types
<1>4. InOrder'
  BY <1>1, <1>2, <1>3 DEF SilentInv, InOrder
<1>5. Begun'
  <2>1. run.to \in Nat /\ Days \subseteq Nat
    BY SweepBounds DEF Types, Data, Run, Days
  <2> QED
    BY <1>1, <1>2, <2>1 DEF SilentInv, Begun, Sweeping
<1>6. /\ RowsAreMatched' /\ Paged' /\ AllPaged' /\ Handled' /\ NightsTell'
  BY <1>1 DEF SilentInv, RowsAreMatched, Paged, AllPaged, Handled, NightsTell, Missed, Earlier,
              Window, Given
<1> QED
  BY <1>4, <1>5, <1>6 DEF SilentInv

\* What is posted on a day waits for the sweeps that look back from the next.
LEMMA SilentPost ==
  ASSUME Types, SilentInv, NEW n \in Notices, Post(n)
  PROVE  SilentInv'
<1> DEFINE z == Len(posted) + 1
<1>1. /\ posted' = Append(posted, [notice |-> n, day |-> Today])
      /\ UNCHANGED <<now, run, rows, matched, nights>>
  BY DEF Post, Day, Today
<1>2. /\ Today \in Nat /\ Len(posted) \in Nat /\ DOMAIN posted = 1..Len(posted)
      /\ \A i \in DOMAIN posted : posted[i].day \in Nat
      /\ posted \in Seq([notice: Notices, day: Days]) /\ run.to \in Nat /\ Days \subseteq Nat
  <2>1. Today \in Nat
    BY DayIsADay, TypesAreTypeOK DEF Types, Day, Today
  <2>2. Days \subseteq Nat
    BY SweepBounds DEF Days
  <2>3. run.to \in Nat /\ posted \in Seq([notice: Notices, day: Days])
    BY <2>2 DEF Types, Data, Run
  <2> QED
    BY <2>1, <2>2, <2>3, PostedTyped, TypesAreTypeOK DEF Types
<1>3. /\ DOMAIN posted' = DOMAIN posted \cup {z} /\ z \in Nat /\ z \notin DOMAIN posted
      /\ posted'[z] = [notice |-> n, day |-> Today]
      /\ \A i \in DOMAIN posted : posted'[i] = posted[i] /\ i < z /\ i \in Nat
  BY <1>1, <1>2
<1>4. posted'[z].day = Today /\ Today' = Today
  BY <1>1, <1>3 DEF Today
<1>5. /\ Sweeping => run.to <= Today
      /\ \A d \in Days : <<"done">> \in nights[d] => d <= Today
  BY DEF SilentInv, Begun
<1>6. InOrder'
  <2>1. \A i \in DOMAIN posted : posted[i].day <= Today
    BY <1>2 DEF SilentInv, InOrder
  <2> QED
    BY <1>2, <1>3, <1>4, <2>1 DEF SilentInv, InOrder
<1>7. Begun' /\ RowsAreMatched' /\ Handled'
  BY <1>1 DEF SilentInv, Begun, RowsAreMatched, Handled, Given, Sweeping, Today
<1>8. ASSUME Sweeping, NEW i \in DOMAIN posted', posted'[i].day + 1 = run.to
      PROVE  i \in DOMAIN posted /\ posted'[i] = posted[i] /\ Earlier(i)
  <2>1. i # z
    BY <1>2, <1>4, <1>5, <1>8
  <2> QED
    BY <1>3, <1>8, <2>1 DEF Earlier
<1>9. Window \subseteq Window'
  BY <1>1, <1>3 DEF Window
<1>10. Paged' /\ AllPaged'
  BY <1>1, <1>8, <1>9 DEF SilentInv, Paged, AllPaged, Missed, Earlier, Sweeping
<1>11. NightsTell'
  <2> SUFFICES ASSUME NEW i \in DOMAIN posted', NEW f \in Founders, NEW d \in Days,
                      <<"done">> \in nights[d], posted'[i].day + 1 = d,
                      posted'[i].notice \in Watched[f]
               PROVE  \/ <<f, Solicitation[posted'[i].notice]>> \in matched
                      \/ nights[d] \cap Reasons(f, posted'[i].notice) # {}
    BY <1>1 DEF NightsTell
  <2>1. i # z
    BY <1>2, <1>4, <1>5
  <2>2. i \in DOMAIN posted /\ posted'[i] = posted[i]
    BY <1>3, <2>1
  <2> QED
    BY <2>2 DEF SilentInv, NightsTell
<1> QED
  BY <1>6, <1>7, <1>10, <1>11 DEF SilentInv

LEMMA SilentStep == Types /\ SilentInv /\ [Next]_vars => SilentInv'
<1> SUFFICES ASSUME Types, SilentInv, [Next]_vars PROVE SilentInv'
  OBVIOUS
<1>1. CASE EndOther \/ FailSweep \/ Crash
  <2>1. /\ UNCHANGED <<now, posted, rows, matched, nights>> /\ run'.phase = "none"
    BY <1>1, NoRunTyped DEF EndOther, FailSweep, Crash
  <2> QED
    BY <2>1, NoSweepMoves
<1>2. CASE Cycle \/ Restart \/ (\E r \in rows : DeleteMatrix(r) \/ Destroy(r)) \/ UNCHANGED vars
  <2>1. /\ UNCHANGED <<now, posted, run, matched, nights>> /\ rows' \subseteq rows
    BY <1>2 DEF Cycle, Restart, DeleteMatrix, Destroy, vars
  <2> QED
    BY <2>1, NoSweepMoves
<1> QED
  BY <1>1, <1>2, SilentSweepBegins, SilentPageFetched, SilentPageFails, SilentFounderBegins,
     SilentMatchPassed, SilentDigestSent, SilentCommit, SilentTick, SilentPost
     DEF Next, Step, RunSweep

\* A watched posting is given, or a sweep that saw its window reports why not,
\* or the last night that looks back at it has no completed sweep.
THEOREM NothingSilentHolds == Spec => []NothingSilent
<1>1. Init => Types /\ SilentInv
  BY SweepTypesStart, SilentStart
<1>2. Types /\ SilentInv /\ [Next]_vars => (Types /\ SilentInv)'
  BY SweepTypesStep, SilentStep
<1>3. Types /\ SilentInv => NothingSilent
  BY SilentTells
<1> QED
  BY <1>1, <1>2, <1>3, PTL DEF Spec
=============================================================================
