------------------------- MODULE SourceFilesProofs -------------------------
(***************************************************************************)
(* Proofs about uploads and source files for any number of documents,      *)
(* requests and faults: types, slots, files that disappear, files without  *)
(* a row.                                                                  *)
(*                                                                         *)
(* What makes the properties inductive: who holds which rows (LockInv), so *)
(* that a commit finds them as they were flushed; that a file not yet in a *)
(* row belongs to one upload (FileInv); what the cleanup knows of the rows *)
(* it has read, although they may have changed since (CleanInv).           *)
(***************************************************************************)
EXTENDS SourceFiles, FiniteSetTheorems, TLAPS

Uploading == {q \in Requests : Busy(q) /\ req[q].op = "upload"}
Flushed(q) == req[q].phase = "flushed"

\* An upload that has stored its file and not committed its row.
HasFile(q) == req[q].op = "upload" /\ req[q].phase \in {"stored", "flushed"}
\* A request that accounts for files without a row.
InCharge(q) == HasFile(q) \/ req[q].phase = "unlinking"

ReqInv ==
  /\ req \in [Requests -> Request]
  /\ \A q \in Requests :
       /\ req[q].phase \in {"body", "spooled", "stored"} => req[q].op = "upload"
       /\ req[q].phase \in {"read", "unlinking"} => req[q].op # "upload"
       /\ req[q].phase \in {"idle", "body", "spooled"} => req[q].docs = {}
  /\ tmp = {q \in Requests : req[q].phase = "spooled"}

RowInv ==
  /\ doc \in [Docs -> Doc \cup {None}]
  /\ \A d \in Rows : doc[d].ready # None => doc[d].ready <= doc[d].age
  /\ \A d \in Rows \cap files : doc[d].path

FileInv ==
  /\ Rows \subseteq used /\ cleanup.todo \subseteq used /\ cleanup.cleared \subseteq used
  /\ \A q \in Requests : req[q].docs \subseteq used
  /\ \A q \in Requests : HasFile(q) =>
       /\ req[q].docs \subseteq files
       /\ req[q].docs \cap (Rows \cup cleanup.todo) = {}
       /\ \A p \in Requests \ {q} : req[q].docs \cap req[p].docs = {}
  /\ \A q \in Requests : req[q].phase = "unlinking" => req[q].docs \cap Rows = {}

LockInv ==
  /\ \A q \in Requests : Flushed(q) =>
       /\ req[q].op = "reprocess" => req[q].docs \subseteq Rows
       /\ Targets(q) \cap (HeldByWorker \cup cleanup.holds) = {}
       /\ \A p \in Requests \ {q} : Flushed(p) =>
            /\ Targets(q) \cap Targets(p) = {}
            /\ req[q].op = "close" => req[p].op # "upload"
  /\ HeldByWorker \subseteq Rows
  /\ cleanup.holds \subseteq Rows

CleanInv ==
  /\ cleanup \in Cleanup
  /\ cleanup.pass \in {"idle", "commit"} => cleanup.todo = {}
  /\ \A d \in cleanup.todo \cap Rows :
       /\ ~doc[d].retain
       /\ cleanup.pass = "failed" => doc[d].age > Grace
  /\ cleanup.cleared \cap files = {}

StrayInv ==
  account =>
    \A d \in files \ (Rows \cup lost) : \E q \in Requests : InCharge(q) /\ d \in req[q].docs

DataInv ==
  RowInv /\ FileInv /\ LockInv /\ CleanInv /\ OnlyDueDisappears /\ StrayInv

SourceInv == ReqInv /\ SlotsBalance /\ DataInv

-----------------------------------------------------------------------------

LEMMA SourceStart == Init => SourceInv
<1> SUFFICES ASSUME Init PROVE SourceInv
  OBVIOUS
<1>1. /\ doc = [d \in Docs |-> None] /\ files = {} /\ tmp = {} /\ lost = {} /\ used = {}
      /\ active = 0 /\ req = [q \in Requests |-> IdleRequest]
      /\ worker = NoWork /\ cleanup = NoCleanup
  BY DEF Init
<1>2. Rows = {}
  BY <1>1 DEF Rows
<1>3. IdleRequest \in Request /\ 0 \in 0..MaxBody
  BY SourceBounds DEF IdleRequest, Request, Phases
<1>4. \A q \in Requests : /\ req[q].phase = "idle" /\ req[q].op = "upload"
                          /\ req[q].docs = {}
  BY <1>1 DEF IdleRequest
<1>5. ReqInv
  BY <1>1, <1>3, <1>4 DEF ReqInv
<1>6. {q \in Requests : Busy(q) /\ req[q].op = "upload"} = {}
  BY <1>4 DEF Busy
<1>7. SlotsBalance
  BY <1>1, <1>6, FS_EmptySet, SourceBounds DEF SlotsBalance
<1>8. RowInv
  BY <1>1, <1>2 DEF RowInv
<1>9. cleanup.todo = {} /\ cleanup.cleared = {} /\ cleanup.holds = {} /\ cleanup.pass = "idle"
  BY <1>1 DEF NoCleanup
<1>10. FileInv
  BY <1>1, <1>2, <1>4, <1>9 DEF FileInv, HasFile
<1>11. LockInv
  BY <1>1, <1>2, <1>4, <1>9 DEF LockInv, Flushed, HeldByWorker, NoWork
<1>12. CleanInv
  BY <1>1, <1>2, <1>9 DEF CleanInv, Cleanup, NoCleanup
<1>13. OnlyDueDisappears /\ StrayInv
  BY <1>1, <1>2 DEF OnlyDueDisappears, StrayInv
<1> QED
  BY <1>5, <1>7, <1>8, <1>10, <1>11, <1>12, <1>13 DEF SourceInv, DataInv

-----------------------------------------------------------------------------
(* Slots.                                                                  *)

LEMMA SlotTaken ==
  ASSUME SlotsBalance, NEW q \in Requests, q \notin Uploading, active < MaxConcurrent,
         active' = active + 1, Uploading' = Uploading \cup {q}
  PROVE  SlotsBalance'
<1>1. IsFiniteSet(Uploading)
  BY SourceBounds, FS_Subset DEF Uploading
<1>2. Cardinality(Uploading \cup {q}) = Cardinality(Uploading) + 1
      /\ Cardinality(Uploading) \in Nat
  BY <1>1, FS_AddElement, FS_CardinalityType
<1>3. active = Cardinality(Uploading)
  BY DEF SlotsBalance, Uploading
<1>4. active' = Cardinality(Uploading') /\ active' <= MaxConcurrent
  BY <1>2, <1>3, SourceBounds
<1> QED
  BY <1>4 DEF SlotsBalance, Uploading

LEMMA SlotGiven ==
  ASSUME SlotsBalance, NEW q \in Requests, q \in Uploading,
         active' = active - 1, Uploading' = Uploading \ {q}
  PROVE  SlotsBalance'
<1>1. IsFiniteSet(Uploading)
  BY SourceBounds, FS_Subset DEF Uploading
<1>2. Cardinality(Uploading \ {q}) = Cardinality(Uploading) - 1
      /\ Cardinality(Uploading) \in Nat
  BY <1>1, FS_RemoveElement, FS_CardinalityType
<1>3. active = Cardinality(Uploading) /\ active <= MaxConcurrent
  BY DEF SlotsBalance, Uploading
<1>4. active' = Cardinality(Uploading') /\ active' <= MaxConcurrent
  BY <1>2, <1>3, SourceBounds
<1> QED
  BY <1>4 DEF SlotsBalance, Uploading

LEMMA SlotsKept ==
  ASSUME SlotsBalance, active' = active, Uploading' = Uploading
  PROVE  SlotsBalance'
BY DEF SlotsBalance, Uploading

\* One request goes on: what that means for the slots.
LEMMA OneMoves ==
  ASSUME ReqInv, SlotsBalance, NEW q \in Requests, NEW r \in Request,
         req' = [req EXCEPT ![q] = r],
         \/ q \in Uploading /\ r.phase = "idle" /\ active' = active - 1
         \/ q \notin Uploading /\ r.phase # "idle" /\ r.op = "upload"
              /\ active < MaxConcurrent /\ active' = active + 1
         \/ (q \in Uploading <=> r.phase # "idle" /\ r.op = "upload") /\ active' = active
  PROVE  SlotsBalance'
<1>1. \A p \in Requests : req'[p] = IF p = q THEN r ELSE req[p]
  BY DEF ReqInv
<1>2. Uploading' = IF r.phase # "idle" /\ r.op = "upload" THEN Uploading \cup {q}
                   ELSE Uploading \ {q}
  BY <1>1 DEF Uploading, Busy
<1> QED
  BY <1>2, SlotTaken, SlotGiven, SlotsKept

-----------------------------------------------------------------------------
(* Requests that neither store, commit nor unlink.                         *)

LEMMA ReqMoves ==
  ASSUME ReqInv, NEW q \in Requests, NEW r \in Request, req' = [req EXCEPT ![q] = r],
         r.phase \in {"body", "spooled", "stored"} => r.op = "upload",
         r.phase \in {"read", "unlinking"} => r.op # "upload",
         r.phase \in {"idle", "body", "spooled"} => r.docs = {},
         tmp' = IF r.phase = "spooled" THEN tmp \cup {q} ELSE tmp \ {q}
  PROVE  ReqInv'
<1>1. \A p \in Requests : req'[p] = IF p = q THEN r ELSE req[p]
  BY DEF ReqInv
<1>2. req' \in [Requests -> Request]
  BY DEF ReqInv
<1>3. tmp' = {p \in Requests : req'[p].phase = "spooled"}
  BY <1>1 DEF ReqInv
<1> QED
  BY <1>1, <1>2, <1>3 DEF ReqInv

LEMMA Quiet ==
  ASSUME ReqInv, DataInv, NEW q \in Requests, NEW r \in Request, req' = [req EXCEPT ![q] = r],
         UNCHANGED <<account, doc, files, worker, cleanup, lost, used>>,
         r.phase \notin {"stored", "flushed", "unlinking"},
         r.docs \subseteq Rows,
         account => ~InCharge(q)
  PROVE  DataInv'
<1>1. \A p \in Requests : req'[p] = IF p = q THEN r ELSE req[p]
  BY DEF ReqInv
<1>2. Rows' = Rows
  BY DEF Rows
<1>3. RowInv'
  BY <1>2 DEF DataInv, RowInv
<1>4. FileInv'
  BY <1>1, <1>2 DEF DataInv, FileInv, HasFile
<1>5. LockInv'
  <2>1. HeldByWorker' = HeldByWorker
    BY DEF HeldByWorker
  <2>2. \A p \in Requests : Flushed(p)' => p # q /\ Flushed(p) /\ req'[p] = req[p]
                                           /\ Targets(p)' = Targets(p)
    BY <1>1, <1>2 DEF Flushed, Targets
  <2> QED
    BY <1>2, <2>1, <2>2 DEF DataInv, LockInv
<1>6. CleanInv'
  BY <1>2 DEF DataInv, CleanInv
<1>7. OnlyDueDisappears'
  BY <1>2 DEF DataInv, OnlyDueDisappears
<1>8. StrayInv'
  BY <1>1, <1>2 DEF DataInv, StrayInv, InCharge, HasFile
<1> QED
  BY <1>3, <1>4, <1>5, <1>6, <1>7, <1>8 DEF DataInv

LEMMA IdleIsRequest == IdleRequest \in Request
BY SourceBounds DEF IdleRequest, Request, Phases

\* The step of a request, given what it is afterwards.
LEMMA QuietStep ==
  ASSUME SourceInv, NEW q \in Requests, NEW r \in Request, req' = [req EXCEPT ![q] = r],
         UNCHANGED <<account, doc, files, worker, cleanup, lost, used>>,
         r.phase \in {"idle", "body", "spooled", "read"},
         IF r.phase = "read" THEN r.op # "upload" /\ r.docs \subseteq Rows
                             ELSE r.op = "upload" /\ r.docs = {},
         tmp' = IF r.phase = "spooled" THEN tmp \cup {q} ELSE tmp \ {q},
         account => ~InCharge(q),
         \/ q \in Uploading /\ r.phase = "idle" /\ active' = active - 1
         \/ q \notin Uploading /\ r.phase = "body" /\ active < MaxConcurrent
              /\ active' = active + 1
         \/ (q \in Uploading <=> r.phase \in {"body", "spooled"}) /\ active' = active
  PROVE  SourceInv'
<1>1. ReqInv /\ SlotsBalance /\ DataInv
  BY DEF SourceInv
<1>2. ReqInv'
  BY <1>1, ReqMoves
<1>3. DataInv'
  <2>1. r.docs \subseteq Rows
    OBVIOUS
  <2> QED
    BY <1>1, <2>1, Quiet
<1>4. SlotsBalance'
  BY <1>1, OneMoves
<1> QED
  BY <1>2, <1>3, <1>4 DEF SourceInv

LEMMA AdmitKeeps ==
  ASSUME SourceInv, NEW q \in Requests, Admit(q) PROVE SourceInv'
<1> DEFINE r == [IdleRequest EXCEPT !.phase = "body"]
<1>1. r \in Request /\ r.phase = "body" /\ r.op = "upload" /\ r.docs = {}
  BY IdleIsRequest DEF IdleRequest, Request, Phases
<1>2. /\ req[q].phase = "idle" /\ req' = [req EXCEPT ![q] = r]
      /\ active < MaxConcurrent /\ active' = active + 1
      /\ UNCHANGED <<account, doc, files, tmp, worker, cleanup, lost, used>>
  BY DEF Admit, Busy
<1>3. q \notin Uploading /\ q \notin tmp /\ ~InCharge(q)
  BY <1>2 DEF Uploading, Busy, SourceInv, ReqInv, InCharge, HasFile
<1> HIDE DEF r
<1> QED
  BY <1>1, <1>2, <1>3, QuietStep

LEMMA ReceiveKeeps ==
  ASSUME SourceInv, NEW q \in Requests, Receive(q) PROVE SourceInv'
<1> DEFINE r == [req[q] EXCEPT !.got = @ + 1]
<1>1. req[q] \in Request /\ req[q].phase = "body" /\ req[q].op = "upload" /\ req[q].docs = {}
  BY DEF SourceInv, ReqInv, Receive
<1>2. req[q].got + 1 \in 0..MaxBody
  BY <1>1, SourceBounds DEF Receive, Request
<1>3. r \in Request /\ r.phase = "body" /\ r.op = "upload" /\ r.docs = {}
  BY <1>1, <1>2 DEF Request
<1>4. /\ req' = [req EXCEPT ![q] = r] /\ active' = active
      /\ UNCHANGED <<account, doc, files, tmp, worker, cleanup, lost, used>>
  BY DEF Receive
<1>5. q \in Uploading /\ q \notin tmp /\ ~InCharge(q)
  BY <1>1 DEF Uploading, Busy, SourceInv, ReqInv, InCharge, HasFile
<1> HIDE DEF r
<1> QED
  BY <1>3, <1>4, <1>5, QuietStep

LEMMA EndKeeps ==
  ASSUME SourceInv, NEW q \in Requests, EndEarly(q) \/ Reject(q) PROVE SourceInv'
<1>1. /\ req[q].phase \in {"body", "spooled"}
      /\ req' = [req EXCEPT ![q] = IdleRequest] /\ active' = active - 1
      /\ UNCHANGED <<account, doc, files, worker, cleanup, lost, used>>
  BY DEF EndEarly, Reject, Release
<1>2. IdleRequest.phase = "idle" /\ IdleRequest.op = "upload" /\ IdleRequest.docs = {}
  BY DEF IdleRequest
<1>3. q \in Uploading /\ ~InCharge(q)
  BY <1>1 DEF Uploading, Busy, SourceInv, ReqInv, InCharge, HasFile
<1>4. tmp' = tmp \ {q}
  BY DEF EndEarly, Reject, SourceInv, ReqInv
<1> QED
  BY <1>1, <1>2, <1>3, <1>4, IdleIsRequest, QuietStep

LEMMA SpoolKeeps ==
  ASSUME SourceInv, NEW q \in Requests, Spool(q) PROVE SourceInv'
<1> DEFINE r == [req[q] EXCEPT !.phase = "spooled"]
<1>1. req[q] \in Request /\ req[q].phase = "body" /\ req[q].op = "upload" /\ req[q].docs = {}
  BY DEF SourceInv, ReqInv, Spool
<1>2. r \in Request /\ r.phase = "spooled" /\ r.op = "upload" /\ r.docs = {}
  BY <1>1 DEF Request, Phases
<1>3. /\ req' = [req EXCEPT ![q] = r] /\ active' = active /\ tmp' = tmp \cup {q}
      /\ UNCHANGED <<account, doc, files, worker, cleanup, lost, used>>
  BY DEF Spool
<1>4. q \in Uploading /\ ~InCharge(q)
  BY <1>1 DEF Uploading, Busy, InCharge, HasFile
<1> HIDE DEF r
<1> QED
  BY <1>2, <1>3, <1>4, QuietStep

LEMMA ReadKeeps ==
  ASSUME SourceInv, NEW q \in Requests, NEW op \in {"reprocess", "delete", "close"},
         NEW docs \in SUBSET Rows, Read(q, op, docs)
  PROVE  SourceInv'
<1> DEFINE r == [IdleRequest EXCEPT !.op = op, !.phase = "read", !.docs = docs]
<1>1. r \in Request /\ r.phase = "read" /\ r.op = op /\ r.docs = docs
  BY IdleIsRequest DEF IdleRequest, Request, Phases, Rows
<1>2. /\ req[q].phase = "idle" /\ req' = [req EXCEPT ![q] = r] /\ active' = active
      /\ UNCHANGED <<account, doc, files, tmp, worker, cleanup, lost, used>>
  BY DEF Read, Busy
<1>3. q \notin Uploading /\ q \notin tmp /\ ~InCharge(q)
  BY <1>2 DEF Uploading, Busy, SourceInv, ReqInv, InCharge, HasFile
<1> HIDE DEF r
<1> QED
  BY <1>1, <1>2, <1>3, QuietStep

\* The INSERT of a document whose account is gone.
LEMMA InsertRaises ==
  ASSUME SourceInv, NEW q \in Requests, Insert(q), ~account PROVE SourceInv'
<1>1. /\ req[q].phase = "stored" /\ req[q].op = "upload"
      /\ req' = [req EXCEPT ![q] = IdleRequest] /\ active' = active - 1
      /\ UNCHANGED <<account, doc, files, tmp, worker, cleanup, lost, used>>
  BY DEF Insert, Release
<1>2. IdleRequest.phase = "idle" /\ IdleRequest.op = "upload" /\ IdleRequest.docs = {}
  BY DEF IdleRequest
<1>3. q \in Uploading /\ q \notin tmp
  BY <1>1 DEF Uploading, Busy, SourceInv, ReqInv
<1> QED
  BY <1>1, <1>2, <1>3, IdleIsRequest, QuietStep

\* The UPDATE of documents one of which is gone.
LEMMA FlushRaises ==
  ASSUME SourceInv, NEW q \in Requests, Flush(q),
         req[q].op # "delete", ~(req[q].docs \subseteq Rows)
  PROVE  SourceInv'
<1>1. /\ req[q].phase = "read"
      /\ req' = [req EXCEPT ![q] = IdleRequest] /\ active' = active
      /\ UNCHANGED <<account, doc, files, tmp, worker, cleanup, lost, used>>
  BY DEF Flush
<1>2. IdleRequest.phase = "idle" /\ IdleRequest.op = "upload" /\ IdleRequest.docs = {}
  BY DEF IdleRequest
<1>3. q \notin Uploading /\ q \notin tmp /\ ~InCharge(q)
  BY <1>1 DEF Uploading, Busy, SourceInv, ReqInv, InCharge, HasFile
<1> QED
  BY <1>1, <1>2, <1>3, IdleIsRequest, QuietStep

-----------------------------------------------------------------------------
(* Uploads, from the stored file to the committed row.                     *)

LEMMA StoreKeeps ==
  ASSUME SourceInv, NEW q \in Requests, NEW d \in Docs, NEW clone \in BOOLEAN,
         NEW retain \in BOOLEAN, Store(q, d, clone, retain)
  PROVE  SourceInv'
<1> DEFINE r == [req[q] EXCEPT !.phase = "stored", !.docs = {d}, !.clone = clone,
                               !.retain = retain]
<1>1. /\ ReqInv /\ SlotsBalance /\ DataInv /\ req[q] \in Request
      /\ req[q].phase = "spooled" /\ req[q].op = "upload"
  BY DEF Store, SourceInv, ReqInv
<1>2. r \in Request /\ r.phase = "stored" /\ r.op = "upload" /\ r.docs = {d}
  BY <1>1 DEF Request, Phases
<1>3. /\ req' = [req EXCEPT ![q] = r] /\ tmp' = tmp \ {q} /\ active' = active
      /\ d \notin used /\ used' = used \cup {d} /\ files' = files \cup {d}
      /\ UNCHANGED <<account, doc, worker, cleanup, lost>>
  <2>1. req' = [req EXCEPT ![q].phase = "stored", ![q].docs = {d},
                           ![q].clone = clone, ![q].retain = retain]
    BY DEF Store
  <2>2. req' = [req EXCEPT ![q] = r]
    BY <1>1, <2>1 DEF ReqInv, Request
  <2> QED
    BY <2>2 DEF Store
<1> HIDE DEF r
<1>4. ReqInv'
  BY <1>1, <1>2, <1>3, ReqMoves
<1>5. q \in Uploading
  BY <1>1 DEF Uploading, Busy
<1>6. SlotsBalance'
  BY <1>1, <1>2, <1>3, <1>5, OneMoves
<1>7. \A p \in Requests : req'[p] = IF p = q THEN r ELSE req[p]
  BY <1>1, <1>3 DEF ReqInv
<1>8. Rows' = Rows /\ d \notin Rows
  BY <1>1, <1>3 DEF Rows, DataInv, FileInv
<1>9. RowInv'
  BY <1>1, <1>3, <1>8 DEF DataInv, RowInv
<1>10. FileInv'
  BY <1>1, <1>2, <1>3, <1>7, <1>8 DEF DataInv, FileInv, HasFile
<1>11. LockInv'
  <2>1. HeldByWorker' = HeldByWorker
    BY <1>3 DEF HeldByWorker
  <2>2. \A p \in Requests : Flushed(p)' => p # q /\ Flushed(p) /\ req'[p] = req[p]
                                           /\ Targets(p)' = Targets(p)
    BY <1>2, <1>7, <1>8 DEF Flushed, Targets
  <2> QED
    BY <1>1, <1>3, <1>8, <2>1, <2>2 DEF DataInv, LockInv
<1>12. CleanInv'
  BY <1>1, <1>3, <1>8 DEF DataInv, CleanInv, FileInv
<1>13. OnlyDueDisappears'
  BY <1>1, <1>3, <1>8 DEF DataInv, OnlyDueDisappears
<1>14. StrayInv'
  BY <1>1, <1>2, <1>3, <1>7, <1>8 DEF DataInv, StrayInv, InCharge, HasFile
<1> QED
  BY <1>4, <1>6, <1>9, <1>10, <1>11, <1>12, <1>13, <1>14 DEF SourceInv, DataInv

LEMMA InsertKeeps ==
  ASSUME SourceInv, NEW q \in Requests, Insert(q), account PROVE SourceInv'
<1> DEFINE r == [req[q] EXCEPT !.phase = "flushed"]
<1>1. /\ ReqInv /\ SlotsBalance /\ DataInv /\ req[q] \in Request
      /\ req[q].phase = "stored" /\ req[q].op = "upload"
  BY DEF Insert, SourceInv, ReqInv
<1>2. /\ r \in Request /\ r.phase = "flushed" /\ r.op = "upload"
      /\ r.docs = req[q].docs
  BY <1>1 DEF Request, Phases
<1>3. /\ req' = [req EXCEPT ![q] = r]
      /\ \A p \in Requests : ~(req[p].op = "close" /\ Flushed(p))
      /\ UNCHANGED <<account, doc, files, tmp, active, worker, cleanup, lost, used>>
  BY DEF Insert, Flushed
<1> HIDE DEF r
<1>4. ReqInv'
  <2>1. q \notin tmp
    BY <1>1 DEF ReqInv
  <2> QED
    BY <1>1, <1>2, <1>3, <2>1, ReqMoves
<1>5. q \in Uploading
  BY <1>1 DEF Uploading, Busy
<1>6. SlotsBalance'
  BY <1>1, <1>2, <1>3, <1>5, OneMoves
<1>7. \A p \in Requests : req'[p] = IF p = q THEN r ELSE req[p]
  BY <1>1, <1>3 DEF ReqInv
<1>8. Rows' = Rows
  BY <1>3 DEF Rows
<1>9. RowInv'
  BY <1>1, <1>3, <1>8 DEF DataInv, RowInv
<1>10. FileInv'
  BY <1>1, <1>2, <1>3, <1>7, <1>8 DEF DataInv, FileInv, HasFile
<1>11. LockInv'
  <2>1. HeldByWorker' = HeldByWorker /\ HeldByWorker \subseteq Rows /\ cleanup.holds \subseteq Rows
    BY <1>1, <1>3 DEF HeldByWorker, DataInv, LockInv
  <2>2. \A p \in Requests \ {q} : /\ req'[p] = req[p] /\ Flushed(p)' = Flushed(p)
                                  /\ Targets(p)' = Targets(p)
    BY <1>7, <1>8 DEF Flushed, Targets
  <2>3. /\ req'[q] = r /\ Targets(q)' = req[q].docs /\ req[q].docs \cap Rows = {}
        /\ \A p \in Requests \ {q} : req[q].docs \cap req[p].docs = {}
    BY <1>1, <1>2, <1>7 DEF Targets, DataInv, FileInv, HasFile
  <2>4. \A p \in Requests \ {q} : Flushed(p) => Targets(p) = req[p].docs /\ req[p].op # "close"
    BY <1>3 DEF Targets
  <2>5. \A p \in Requests : Flushed(p)' =>
          /\ req'[p].op = "reprocess" => req'[p].docs \subseteq Rows
          /\ Targets(p)' \cap (HeldByWorker \cup cleanup.holds) = {}
    BY <1>1, <1>2, <2>1, <2>2, <2>3 DEF DataInv, LockInv
  <2>6. \A p, o \in Requests : p # o /\ Flushed(p)' /\ Flushed(o)' =>
          /\ Targets(p)' \cap Targets(o)' = {}
          /\ req'[p].op = "close" => req'[o].op # "upload"
    BY <1>1, <1>2, <2>2, <2>3, <2>4 DEF DataInv, LockInv
  <2> QED
    BY <1>3, <1>8, <2>1, <2>5, <2>6 DEF LockInv
<1>12. CleanInv'
  BY <1>1, <1>3, <1>8 DEF DataInv, CleanInv
<1>13. OnlyDueDisappears'
  BY <1>1, <1>3, <1>8 DEF DataInv, OnlyDueDisappears
<1>14. StrayInv'
  BY <1>1, <1>2, <1>3, <1>7, <1>8 DEF DataInv, StrayInv, InCharge, HasFile
<1> QED
  BY <1>4, <1>6, <1>9, <1>10, <1>11, <1>12, <1>13, <1>14 DEF SourceInv, DataInv

\* A request is through with its transaction: what the others hold.
LEMMA LocksLeft ==
  ASSUME ReqInv, LockInv, NEW q \in Requests, NEW r \in Request,
         req' = [req EXCEPT ![q] = r], r.phase # "flushed",
         UNCHANGED <<worker, cleanup>>,
         HeldByWorker \cup cleanup.holds \subseteq Rows',
         \A p \in Requests \ {q} : Flushed(p) =>
           /\ Targets(p)' \subseteq Targets(p)
           /\ req[p].op = "reprocess" => req[p].docs \subseteq Rows'
  PROVE  LockInv'
<1>1. \A p \in Requests : req'[p] = IF p = q THEN r ELSE req[p]
  BY DEF ReqInv
<1>2. HeldByWorker' = HeldByWorker
  BY DEF HeldByWorker
<1>3. \A p \in Requests : Flushed(p)' => p # q /\ Flushed(p) /\ req'[p] = req[p]
  BY <1>1 DEF Flushed
<1> QED
  BY <1>2, <1>3 DEF LockInv

LEMMA CommitUploadKeeps ==
  ASSUME SourceInv, NEW q \in Requests, CommitUpload(q) PROVE SourceInv'
<1> DEFINE new == NewDoc(req[q].clone, req[q].retain)
<1>1. /\ ReqInv /\ SlotsBalance /\ DataInv /\ req[q] \in Request
      /\ req[q].phase = "flushed" /\ req[q].op = "upload"
  BY DEF CommitUpload, SourceInv, ReqInv
<1>2. /\ doc' = [d \in Docs |-> IF d \in req[q].docs THEN new ELSE doc[d]]
      /\ req' = [req EXCEPT ![q] = IdleRequest] /\ active' = active - 1
      /\ UNCHANGED <<account, files, tmp, worker, cleanup, lost, used>>
  BY DEF CommitUpload, Release
<1>3. IdleRequest.phase = "idle" /\ IdleRequest.op = "upload" /\ IdleRequest.docs = {}
  BY DEF IdleRequest
<1>4. ReqInv'
  <2>1. q \notin tmp
    BY <1>1 DEF ReqInv
  <2> QED
    BY <1>1, <1>2, <1>3, <2>1, IdleIsRequest, ReqMoves
<1>5. q \in Uploading
  BY <1>1 DEF Uploading, Busy
<1>6. SlotsBalance'
  BY <1>1, <1>2, <1>3, <1>5, IdleIsRequest, OneMoves
<1>7. new \in Doc /\ new.path /\ new.ready = None
  BY <1>1 DEF NewDoc, Doc, Request
<1> HIDE DEF new
<1>8. new # None
  BY <1>7, NoneIsNoDoc
<1>9. /\ req[q].docs \subseteq Docs /\ req[q].docs \subseteq used /\ req[q].docs \subseteq files
      /\ req[q].docs \cap (Rows \cup cleanup.todo) = {}
      /\ \A p \in Requests \ {q} : req[q].docs \cap req[p].docs = {}
  BY <1>1 DEF DataInv, FileInv, HasFile, Request
<1>10. Rows' = Rows \cup req[q].docs
  BY <1>2, <1>8, <1>9 DEF Rows
<1>11. \A d \in Rows : doc'[d] = doc[d]
  BY <1>2, <1>9 DEF Rows
<1>12. \A d \in req[q].docs : doc'[d] = new
  BY <1>2, <1>9
<1>13. RowInv'
  <2>1. doc' \in [Docs -> Doc \cup {None}]
    BY <1>1, <1>2, <1>7 DEF DataInv, RowInv
  <2>2. \A d \in Rows' : doc'[d].ready # None => doc'[d].ready <= doc'[d].age
    BY <1>1, <1>7, <1>10, <1>11, <1>12 DEF DataInv, RowInv
  <2>3. \A d \in Rows' \cap files : doc'[d].path
    BY <1>1, <1>7, <1>10, <1>11, <1>12 DEF DataInv, RowInv
  <2> QED
    BY <1>2, <2>1, <2>2, <2>3 DEF RowInv
<1>14. \A p \in Requests : req'[p] = IF p = q THEN IdleRequest ELSE req[p]
  BY <1>1, <1>2 DEF ReqInv
<1>15. FileInv'
  <2>1. Rows' \subseteq used /\ \A p \in Requests : req'[p].docs \subseteq used
    BY <1>1, <1>3, <1>9, <1>10, <1>14 DEF DataInv, FileInv
  <2>2. \A p \in Requests : HasFile(p)' => p # q /\ HasFile(p) /\ req'[p] = req[p]
    BY <1>3, <1>14 DEF HasFile
  <2>3. \A p \in Requests : HasFile(p)' =>
          /\ req'[p].docs \subseteq files
          /\ req'[p].docs \cap (Rows' \cup cleanup.todo) = {}
          /\ \A o \in Requests \ {p} : req'[p].docs \cap req'[o].docs = {}
    BY <1>1, <1>3, <1>9, <1>10, <1>14, <2>2 DEF DataInv, FileInv
  <2>4. \A p \in Requests : req'[p].phase = "unlinking" => req'[p].docs \cap Rows' = {}
    BY <1>1, <1>3, <1>9, <1>10, <1>14 DEF DataInv, FileInv
  <2> QED
    BY <1>1, <1>2, <2>1, <2>3, <2>4 DEF FileInv, DataInv
<1>16. LockInv'
  <2>1. \A p \in Requests \ {q} : Flushed(p) => Targets(p)' = Targets(p)
    <3>1. \A p \in Requests \ {q} : Flushed(p) => req[p].op # "close"
      BY <1>1 DEF DataInv, LockInv, Flushed
    <3> QED
      BY <1>14, <3>1 DEF Targets
  <2>2. HeldByWorker \cup cleanup.holds \subseteq Rows'
    BY <1>1, <1>10 DEF DataInv, LockInv
  <2>3. \A p \in Requests : Flushed(p) /\ req[p].op = "reprocess" => req[p].docs \subseteq Rows'
    BY <1>1, <1>10 DEF DataInv, LockInv
  <2> QED
    BY <1>1, <1>2, <1>3, <2>1, <2>2, <2>3, IdleIsRequest, LocksLeft DEF DataInv
<1>17. CleanInv'
  BY <1>1, <1>2, <1>9, <1>10, <1>11 DEF DataInv, CleanInv
<1>18. OnlyDueDisappears'
  BY <1>1, <1>2, <1>9, <1>10, <1>11 DEF DataInv, OnlyDueDisappears
<1>19. StrayInv'
  <2> SUFFICES ASSUME account, NEW d \in files, d \notin Rows', d \notin lost
               PROVE  \E p \in Requests : InCharge(p)' /\ d \in req'[p].docs
    BY <1>2 DEF StrayInv
  <2>1. PICK p \in Requests : InCharge(p) /\ d \in req[p].docs
    BY <1>1, <1>10 DEF DataInv, StrayInv
  <2>2. p # q
    BY <1>10, <2>1
  <2> QED
    BY <1>14, <2>1, <2>2 DEF InCharge, HasFile
<1> QED
  BY <1>4, <1>6, <1>13, <1>15, <1>16, <1>17, <1>18, <1>19 DEF SourceInv, DataInv

-----------------------------------------------------------------------------
(* Reprocess and deletion.                                                 *)

LEMMA FlushKeeps ==
  ASSUME SourceInv, NEW q \in Requests, Flush(q),
         req[q].op # "delete" => req[q].docs \subseteq Rows
  PROVE  SourceInv'
<1> DEFINE r == [req[q] EXCEPT !.phase = "flushed"]
<1>1. /\ ReqInv /\ SlotsBalance /\ DataInv /\ req[q] \in Request
      /\ req[q].phase = "read" /\ req[q].op # "upload"
  BY DEF Flush, SourceInv, ReqInv
<1>2. /\ r \in Request /\ r.phase = "flushed" /\ r.op = req[q].op
      /\ r.docs = req[q].docs
  BY <1>1 DEF Request, Phases
<1>3. /\ req' = [req EXCEPT ![q] = r]
      /\ \A p \in Requests : ~(req[p].op = "close" /\ Flushed(p))
      /\ Targets(q) \cap (HeldByRequests(q) \cup HeldByWorker \cup cleanup.holds) = {}
      /\ req[q].op = "close" => OpenUploads = {}
      /\ UNCHANGED <<account, doc, files, tmp, active, worker, cleanup, lost, used>>
  BY DEF Flush, Flushed
<1> HIDE DEF r
<1>4. ReqInv'
  <2>1. q \notin tmp
    BY <1>1 DEF ReqInv
  <2> QED
    BY <1>1, <1>2, <1>3, <2>1, ReqMoves
<1>5. q \notin Uploading
  BY <1>1 DEF Uploading
<1>6. SlotsBalance'
  BY <1>1, <1>2, <1>3, <1>5, OneMoves
<1>7. \A p \in Requests : req'[p] = IF p = q THEN r ELSE req[p]
  BY <1>1, <1>3 DEF ReqInv
<1>8. Rows' = Rows
  BY <1>3 DEF Rows
<1>9. RowInv'
  BY <1>1, <1>3, <1>8 DEF DataInv, RowInv
<1>10. FileInv'
  BY <1>1, <1>2, <1>3, <1>7, <1>8 DEF DataInv, FileInv, HasFile
<1>11. LockInv'
  <2>1. HeldByWorker' = HeldByWorker /\ HeldByWorker \subseteq Rows /\ cleanup.holds \subseteq Rows
    BY <1>1, <1>3 DEF HeldByWorker, DataInv, LockInv
  <2>2. \A p \in Requests \ {q} : /\ req'[p] = req[p] /\ Flushed(p)' = Flushed(p)
                                  /\ Targets(p)' = Targets(p)
    BY <1>7, <1>8 DEF Flushed, Targets
  <2>3. req'[q] = r /\ Targets(q)' = Targets(q)
    BY <1>2, <1>7, <1>8 DEF Targets
  <2>4. \A p \in Requests \ {q} : Flushed(p) =>
          /\ Targets(q) \cap Targets(p) = {}
          /\ req[p].op # "close"
          /\ req[q].op = "close" => req[p].op # "upload"
    BY <1>3 DEF HeldByRequests, Flushed, OpenUploads
  <2>5. \A p \in Requests : Flushed(p)' =>
          /\ req'[p].op = "reprocess" => req'[p].docs \subseteq Rows
          /\ Targets(p)' \cap (HeldByWorker \cup cleanup.holds) = {}
    BY <1>1, <1>2, <1>3, <2>2, <2>3 DEF DataInv, LockInv
  <2>6. \A p, o \in Requests : p # o /\ Flushed(p)' /\ Flushed(o)' =>
          /\ Targets(p)' \cap Targets(o)' = {}
          /\ req'[p].op = "close" => req'[o].op # "upload"
    BY <1>1, <1>2, <2>2, <2>3, <2>4 DEF DataInv, LockInv
  <2> QED
    BY <1>3, <1>8, <2>1, <2>5, <2>6 DEF LockInv
<1>12. CleanInv'
  BY <1>1, <1>3, <1>8 DEF DataInv, CleanInv
<1>13. OnlyDueDisappears'
  BY <1>1, <1>3, <1>8 DEF DataInv, OnlyDueDisappears
<1>14. StrayInv'
  BY <1>1, <1>2, <1>3, <1>7, <1>8 DEF DataInv, StrayInv, InCharge, HasFile
<1> QED
  BY <1>4, <1>6, <1>9, <1>10, <1>11, <1>12, <1>13, <1>14 DEF SourceInv, DataInv

\* Rows are written in place: none comes, none goes, none is rejuvenated.
LEMMA RowsWritten ==
  ASSUME RowInv, OnlyDueDisappears, UNCHANGED files,
         NEW W \in SUBSET Rows, NEW new \in [W -> Doc],
         doc' = [d \in Docs |-> IF d \in W THEN new[d] ELSE doc[d]],
         \A d \in W :
           /\ new[d].retain = doc[d].retain /\ new[d].age = doc[d].age
           /\ new[d].ready # None => new[d].ready <= new[d].age
           /\ d \in files => new[d].path
  PROVE  /\ Rows' = Rows /\ RowInv' /\ OnlyDueDisappears'
         /\ \A d \in Rows : doc'[d].retain = doc[d].retain /\ doc'[d].age = doc[d].age
<1>1. \A d \in W : new[d] # None
  BY NoneIsNoDoc
<1>2. Rows \subseteq Docs
  BY DEF Rows
<1>3. Rows' = Rows
  BY <1>1, <1>2 DEF Rows
<1>4. \A d \in Rows : doc'[d] = IF d \in W THEN new[d] ELSE doc[d]
  BY <1>2
<1>5. doc' \in [Docs -> Doc \cup {None}]
  BY DEF RowInv
<1>6. RowInv'
  BY <1>3, <1>4, <1>5 DEF RowInv
<1>7. OnlyDueDisappears'
  BY <1>3, <1>4 DEF OnlyDueDisappears
<1> QED
  BY <1>3, <1>4, <1>6, <1>7

LEMMA CommitReprocessKeeps ==
  ASSUME SourceInv, NEW q \in Requests, CommitReprocess(q) PROVE SourceInv'
<1> DEFINE W == req[q].docs
           new == [d \in W |-> [doc[d] EXCEPT !.state = "received", !.queued = TRUE,
                                              !.runs = @ + 1]]
<1>1. /\ ReqInv /\ SlotsBalance /\ DataInv /\ req[q] \in Request
      /\ req[q].phase = "flushed" /\ req[q].op = "reprocess"
  BY Zenon DEF CommitReprocess, SourceInv, ReqInv
<1>2. /\ doc' = [d \in Docs |-> IF d \in W THEN new[d] ELSE doc[d]]
      /\ req' = [req EXCEPT ![q] = IdleRequest]
      /\ UNCHANGED <<account, files, tmp, active, worker, cleanup, lost, used>>
  BY DEF CommitReprocess
<1>3. IdleRequest.phase = "idle" /\ IdleRequest.op = "upload" /\ IdleRequest.docs = {}
  BY DEF IdleRequest
<1>4. W \subseteq Rows
  BY <1>1 DEF DataInv, LockInv, Flushed
<1>5. \A d \in W : doc[d] \in Doc
  BY <1>1, <1>4 DEF DataInv, RowInv, Rows
<1>6. \A d \in W : /\ new[d] \in Doc
                   /\ new[d].retain = doc[d].retain /\ new[d].age = doc[d].age
                   /\ new[d].ready = doc[d].ready /\ new[d].path = doc[d].path
  <2> SUFFICES ASSUME NEW d \in W
               PROVE  LET n == [doc[d] EXCEPT !.state = "received", !.queued = TRUE, !.runs = @ + 1]
                      IN /\ n \in Doc /\ n.retain = doc[d].retain /\ n.age = doc[d].age
                         /\ n.ready = doc[d].ready /\ n.path = doc[d].path
    OBVIOUS
  <2>1. PICK row : row = doc[d]
    OBVIOUS
  <2>2. row \in Doc
    BY <1>5, <2>1
  <2>3. row.runs + 1 \in Nat
    BY <2>2, SMTT(20) DEF Doc
  <2> QED
    BY <2>1, <2>2, <2>3 DEF Doc
<1>7. new \in [W -> Doc]
  BY <1>6
<1> HIDE DEF new, W
<1>8. \A d \in W : /\ new[d].ready # None => new[d].ready <= new[d].age
                   /\ d \in files => new[d].path
  BY <1>1, <1>4, <1>6 DEF DataInv, RowInv
<1>9. /\ Rows' = Rows /\ RowInv' /\ OnlyDueDisappears'
      /\ \A d \in Rows : doc'[d].retain = doc[d].retain /\ doc'[d].age = doc[d].age
  <2>1. RowInv /\ OnlyDueDisappears
    BY <1>1 DEF DataInv
  <2>2. UNCHANGED files /\ doc' = [d \in Docs |-> IF d \in W THEN new[d] ELSE doc[d]]
    BY <1>2
  <2> QED
    BY <1>4, <1>6, <1>7, <1>8, <2>1, <2>2, RowsWritten
<1>10. ReqInv'
  <2>1. q \notin tmp
    BY <1>1 DEF ReqInv
  <2> QED
    BY <1>1, <1>2, <1>3, <2>1, IdleIsRequest, ReqMoves
<1>11. q \notin Uploading
  BY <1>1 DEF Uploading
<1>12. SlotsBalance'
  BY <1>1, <1>2, <1>3, <1>11, IdleIsRequest, OneMoves
<1>13. \A p \in Requests : req'[p] = IF p = q THEN IdleRequest ELSE req[p]
  BY <1>1, <1>2 DEF ReqInv
<1>14. FileInv'
  BY <1>1, <1>2, <1>3, <1>9, <1>13 DEF DataInv, FileInv, HasFile
<1>15. LockInv'
  <2>1. \A p \in Requests \ {q} : Targets(p)' = Targets(p)
    BY <1>9, <1>13 DEF Targets
  <2> QED
    BY <1>1, <1>2, <1>3, <1>9, <2>1, IdleIsRequest, LocksLeft DEF DataInv, LockInv
<1>16. CleanInv'
  BY <1>1, <1>2, <1>9 DEF DataInv, CleanInv
<1>17. StrayInv'
  BY <1>1, <1>2, <1>9, <1>13 DEF DataInv, StrayInv, InCharge, HasFile
<1> QED
  BY <1>9, <1>10, <1>12, <1>14, <1>15, <1>16, <1>17 DEF SourceInv, DataInv

LEMMA CommitDeleteKeeps ==
  ASSUME SourceInv, NEW q \in Requests, CommitDelete(q) PROVE SourceInv'
<1> DEFINE docs == {d \in req[q].docs : doc[d] # None /\ doc[d].path}
           r == [req[q] EXCEPT !.phase = "unlinking", !.docs = docs]
           T == Targets(q)
<1>1. /\ ReqInv /\ SlotsBalance /\ DataInv /\ req[q] \in Request
      /\ req[q].phase = "flushed" /\ req[q].op \in {"delete", "close"}
  BY DEF CommitDelete, SourceInv, ReqInv
<1>2. /\ doc' = [d \in Docs |-> IF d \in T THEN None ELSE doc[d]]
      /\ account' = (account /\ req[q].op = "delete")
      /\ UNCHANGED <<files, tmp, active, worker, cleanup, lost, used>>
  BY DEF CommitDelete
<1>3. /\ r \in Request /\ r.phase = "unlinking" /\ r.op = req[q].op /\ r.docs = docs
  BY <1>1 DEF Request, Phases
<1>4. req' = [req EXCEPT ![q] = r]
  <2>1. req' = [req EXCEPT ![q].phase = "unlinking",
                           ![q].docs = {d \in @ : doc[d] # None /\ doc[d].path}]
    BY DEF CommitDelete
  <2> QED
    BY <1>1, <2>1 DEF ReqInv, Request
<1>5. T = IF req[q].op = "close" THEN Rows ELSE req[q].docs
  BY DEF Targets
<1>6. docs \subseteq req[q].docs /\ docs \subseteq T
  BY <1>1, <1>5 DEF Rows, Request
<1> HIDE DEF r, T
<1>7. Rows' = Rows \ T
  BY <1>2 DEF Rows
<1>8. \A d \in Rows' : doc'[d] = doc[d]
  BY <1>2, <1>7 DEF Rows
<1>9. RowInv'
  <2>1. doc' \in [Docs -> Doc \cup {None}]
    BY <1>1, <1>2 DEF DataInv, RowInv
  <2> QED
    BY <1>1, <1>2, <1>7, <1>8, <2>1 DEF DataInv, RowInv
<1>10. ReqInv'
  <2>1. q \notin tmp
    BY <1>1 DEF ReqInv
  <2> QED
    BY <1>1, <1>2, <1>3, <1>4, <2>1, ReqMoves
<1>11. q \notin Uploading
  BY <1>1 DEF Uploading
<1>12. SlotsBalance'
  BY <1>1, <1>2, <1>3, <1>4, <1>11, OneMoves
<1>13. \A p \in Requests : req'[p] = IF p = q THEN r ELSE req[p]
  BY <1>1, <1>4 DEF ReqInv
<1>14. FileInv'
  <2>1. Rows' \subseteq used /\ \A p \in Requests : req'[p].docs \subseteq used
    BY <1>1, <1>3, <1>6, <1>7, <1>13 DEF DataInv, FileInv
  <2>2. \A p \in Requests : HasFile(p)' => p # q /\ HasFile(p) /\ req'[p] = req[p]
    BY <1>3, <1>13 DEF HasFile
  <2>3. \A p \in Requests : HasFile(p)' =>
          /\ req'[p].docs \subseteq files
          /\ req'[p].docs \cap (Rows' \cup cleanup.todo) = {}
          /\ \A o \in Requests \ {p} : req'[p].docs \cap req'[o].docs = {}
    <3>1. \A o \in Requests : req'[o].docs \subseteq req[o].docs
      BY <1>3, <1>6, <1>13
    <3> QED
      BY <1>1, <1>7, <2>2, <3>1 DEF DataInv, FileInv
  <2>4. \A p \in Requests : req'[p].phase = "unlinking" => req'[p].docs \cap Rows' = {}
    BY <1>1, <1>3, <1>6, <1>7, <1>13 DEF DataInv, FileInv
  <2> QED
    BY <1>1, <1>2, <2>1, <2>3, <2>4 DEF FileInv, DataInv
<1>15. LockInv'
  <2>1. \A p \in Requests \ {q} : Flushed(p) => Targets(p)' \subseteq Targets(p)
    BY <1>7, <1>13 DEF Targets
  <2>2. HeldByWorker \cup cleanup.holds \subseteq Rows'
    BY <1>1, <1>7 DEF DataInv, LockInv, Flushed, T
  <2>3. \A p \in Requests \ {q} : Flushed(p) /\ req[p].op = "reprocess" => req[p].docs \subseteq Rows'
    <3>1. \A p \in Requests \ {q} : Flushed(p) => T \cap Targets(p) = {}
      BY <1>1 DEF DataInv, LockInv, Flushed, T
    <3>2. \A p \in Requests : req[p].op = "reprocess" => Targets(p) = req[p].docs
      BY DEF Targets
    <3> QED
      BY <1>1, <1>7, <3>1, <3>2 DEF DataInv, LockInv
  <2> QED
    BY <1>1, <1>2, <1>3, <1>4, <2>1, <2>2, <2>3, LocksLeft DEF DataInv
<1>16. CleanInv'
  BY <1>1, <1>2, <1>7, <1>8 DEF DataInv, CleanInv
<1>17. OnlyDueDisappears'
  BY <1>1, <1>2, <1>7, <1>8 DEF DataInv, OnlyDueDisappears
<1>18. StrayInv'
  <2> SUFFICES ASSUME account, req[q].op = "delete", NEW d \in files, d \notin Rows', d \notin lost
               PROVE  \E p \in Requests : InCharge(p)' /\ d \in req'[p].docs
    BY <1>2 DEF StrayInv
  <2>1. CASE d \in Rows
    <3>1. d \in req[q].docs
      BY <1>5, <1>7, <2>1
    <3>2. d \in docs
      BY <1>1, <2>1, <3>1 DEF DataInv, RowInv, Rows
    <3> QED
      BY <1>3, <1>13, <3>2 DEF InCharge
  <2>2. CASE d \notin Rows
    <3>1. PICK p \in Requests : InCharge(p) /\ d \in req[p].docs
      BY <1>1, <2>2 DEF DataInv, StrayInv
    <3>2. p # q
      BY <1>1, <3>1 DEF InCharge, HasFile
    <3> QED
      BY <1>13, <3>1, <3>2 DEF InCharge, HasFile
  <2> QED
    BY <2>1, <2>2
<1> QED
  BY <1>9, <1>10, <1>12, <1>14, <1>15, <1>16, <1>17, <1>18 DEF SourceInv, DataInv

\* A request whose transaction is over, or that has unlinked, is answered.
LEMMA Answered ==
  ASSUME SourceInv, NEW q \in Requests, req[q].phase \in {"flushed", "unlinking"},
         req' = [req EXCEPT ![q] = IdleRequest],
         active' = IF req[q].op = "upload" THEN active - 1 ELSE active,
         NEW gone, gone \subseteq req[q].docs, req[q].phase # "unlinking" => gone = {},
         files' = files \ gone,
         lost \subseteq lost', InCharge(q) => req[q].docs \subseteq gone \cup lost',
         UNCHANGED <<account, doc, tmp, worker, cleanup, used>>
  PROVE  SourceInv'
<1>1. ReqInv /\ SlotsBalance /\ DataInv
  BY DEF SourceInv
<1>2. IdleRequest.phase = "idle" /\ IdleRequest.op = "upload" /\ IdleRequest.docs = {}
  BY DEF IdleRequest
<1>3. ReqInv'
  <2>1. q \notin tmp
    BY <1>1 DEF ReqInv
  <2> QED
    BY <1>1, <1>2, <2>1, IdleIsRequest, ReqMoves
<1>4. q \in Uploading <=> req[q].op = "upload"
  BY DEF Uploading, Busy
<1>5. SlotsBalance'
  BY <1>1, <1>2, <1>4, IdleIsRequest, OneMoves
<1>6. \A p \in Requests : req'[p] = IF p = q THEN IdleRequest ELSE req[p]
  BY <1>1 DEF ReqInv
<1>7. Rows' = Rows /\ gone \cap Rows = {}
  BY <1>1 DEF Rows, DataInv, FileInv
<1>8. RowInv'
  BY <1>1, <1>7 DEF DataInv, RowInv
<1>9. FileInv'
  BY <1>1, <1>2, <1>6, <1>7 DEF DataInv, FileInv, HasFile
<1>10. LockInv'
  <2>1. \A p \in Requests \ {q} : Targets(p)' = Targets(p)
    BY <1>6, <1>7 DEF Targets
  <2> QED
    BY <1>1, <1>2, <1>7, <2>1, IdleIsRequest, LocksLeft DEF DataInv, LockInv
<1>11. CleanInv'
  BY <1>1, <1>7 DEF DataInv, CleanInv
<1>12. OnlyDueDisappears'
  BY <1>1, <1>7 DEF DataInv, OnlyDueDisappears
<1>13. StrayInv'
  BY <1>1, <1>6, <1>7 DEF DataInv, StrayInv, InCharge, HasFile
<1> QED
  BY <1>3, <1>5, <1>8, <1>9, <1>10, <1>11, <1>12, <1>13 DEF SourceInv, DataInv

LEMMA UnlinkKeeps ==
  ASSUME SourceInv, NEW q \in Requests, Unlink(q) PROVE SourceInv'
<1>1. /\ req[q].phase = "unlinking" /\ req[q].op # "upload"
      /\ req' = [req EXCEPT ![q] = IdleRequest]
      /\ UNCHANGED <<account, doc, tmp, active, worker, cleanup, used>>
  BY DEF Unlink, SourceInv, ReqInv
<1>2. CASE files' = files \ req[q].docs /\ UNCHANGED lost
  BY <1>1, <1>2, Answered
<1>3. CASE lost' = lost \cup req[q].docs /\ UNCHANGED files
  BY <1>1, <1>3, Answered
<1> QED
  BY <1>2, <1>3 DEF Unlink

LEMMA RollbackKeeps ==
  ASSUME SourceInv, NEW q \in Requests, Rollback(q) PROVE SourceInv'
<1>1. /\ req[q].phase = "flushed" /\ req' = [req EXCEPT ![q] = IdleRequest]
      /\ UNCHANGED <<account, doc, files, tmp, worker, cleanup, used>>
  BY DEF Rollback
<1>2. /\ active' = IF req[q].op = "upload" THEN active - 1 ELSE active
      /\ lost \subseteq lost'
      /\ InCharge(q) => req[q].docs \subseteq lost'
  BY <1>1 DEF Rollback, InCharge, HasFile
<1> QED
  BY <1>1, <1>2, Answered, Zenon

LEMMA CrashKeeps == SourceInv /\ Crash => SourceInv'
<1> SUFFICES ASSUME SourceInv, Crash PROVE SourceInv'
  OBVIOUS
<1>1. /\ req' = [q \in Requests |-> IdleRequest] /\ active' = 0 /\ tmp' = {}
      /\ lost' = lost \cup (files \ Rows)
      /\ UNCHANGED <<account, doc, files, worker, cleanup, used>>
      /\ ReqInv /\ SlotsBalance /\ DataInv
  BY DEF Crash, SourceInv
<1>2. IdleRequest.phase = "idle" /\ IdleRequest.op = "upload" /\ IdleRequest.docs = {}
  BY DEF IdleRequest
<1>3. \A q \in Requests : req'[q] = IdleRequest
  BY <1>1
<1>4. ReqInv'
  BY <1>1, <1>2, <1>3, IdleIsRequest DEF ReqInv
<1>5. SlotsBalance'
  <2>1. {q \in Requests : Busy(q) /\ req[q].op = "upload"}' = {}
    BY <1>2, <1>3 DEF Busy
  <2>2. Cardinality({q \in Requests : Busy(q) /\ req[q].op = "upload"}') = 0
    BY <2>1, FS_EmptySet
  <2>3. active' = 0
    BY <1>1
  <2>4. 0 <= MaxConcurrent
    BY SourceBounds
  <2> QED
    BY <2>2, <2>3, <2>4 DEF SlotsBalance
<1>6. Rows' = Rows
  BY <1>1 DEF Rows
<1>7. RowInv' /\ OnlyDueDisappears' /\ CleanInv'
  BY <1>1, <1>6 DEF DataInv, RowInv, OnlyDueDisappears, CleanInv
<1>8. FileInv'
  BY <1>1, <1>2, <1>3, <1>6 DEF DataInv, FileInv, HasFile
<1>9. LockInv'
  BY <1>1, <1>2, <1>3, <1>6 DEF DataInv, LockInv, Flushed, HeldByWorker
<1>10. StrayInv'
  BY <1>1, <1>6 DEF StrayInv
<1> QED
  BY <1>4, <1>5, <1>7, <1>8, <1>9, <1>10 DEF SourceInv, DataInv

-----------------------------------------------------------------------------
(* The worker.                                                             *)

LEMMA RequestsStay ==
  ASSUME SourceInv, UNCHANGED <<req, active, tmp>> PROVE ReqInv' /\ SlotsBalance'
BY DEF SourceInv, ReqInv, SlotsBalance, Busy

LEMMA StartWorkKeeps ==
  ASSUME SourceInv, NEW d \in Docs, StartWork(d) PROVE SourceInv'
<1>1. /\ d \in Rows /\ d \notin HeldByRequests(None)
      /\ worker'.doc = d
      /\ UNCHANGED <<account, doc, files, tmp, active, req, cleanup, lost, used>>
      /\ DataInv
  BY DEF StartWork, SourceInv
<1>2. Rows' = Rows /\ HeldByWorker' \subseteq {d}
  BY <1>1 DEF Rows, HeldByWorker
<1>3. \A q \in Requests : Flushed(q) => d \notin Targets(q)
  BY <1>1, SourceBounds DEF HeldByRequests, Flushed
<1>4. \A q \in Requests : Flushed(q)' = Flushed(q) /\ Targets(q)' = Targets(q)
  BY <1>1, <1>2 DEF Flushed, Targets
<1>5. LockInv'
  BY <1>1, <1>2, <1>3, <1>4 DEF DataInv, LockInv
<1>6. RowInv' /\ FileInv' /\ CleanInv' /\ OnlyDueDisappears' /\ StrayInv'
  BY <1>1, <1>2 DEF DataInv, RowInv, FileInv, CleanInv, OnlyDueDisappears, StrayInv,
                    HasFile, InCharge
<1> QED
  BY <1>1, <1>5, <1>6, RequestsStay DEF SourceInv, DataInv

LEMMA FinishWorkKeeps ==
  ASSUME SourceInv, NEW ok \in BOOLEAN, FinishWork(ok) PROVE SourceInv'
<1> DEFINE d == worker.doc
           row == [doc[d] EXCEPT !.queued = FALSE, !.state = IF ok THEN "ready" ELSE "failed",
                                 !.ready = IF ok THEN 0 ELSE @]
           new == [x \in {d} |-> row]
<1>1. /\ d # None /\ worker' = NoWork
      /\ UNCHANGED <<account, files, tmp, active, req, cleanup, lost, used>>
      /\ DataInv
  BY DEF FinishWork, SourceInv
<1>2. d \in Rows /\ d \in Docs
  BY <1>1 DEF DataInv, LockInv, HeldByWorker, Rows
<1>3. doc[d] \in Doc /\ (d \in files => doc[d].path)
      /\ (doc[d].ready # None => doc[d].ready <= doc[d].age)
  BY <1>1, <1>2 DEF DataInv, RowInv, Rows
<1>4. doc' = [x \in Docs |-> IF x \in {d} THEN new[x] ELSE doc[x]]
  <2>1. doc' = [doc EXCEPT ![d].queued = FALSE,
                           ![d].state = IF ok THEN "ready" ELSE "failed",
                           ![d].ready = IF ok THEN 0 ELSE @]
    BY DEF FinishWork
  <2>2. doc' = [doc EXCEPT ![d] = row]
    BY <1>1, <1>2, <1>3, <2>1 DEF DataInv, RowInv, Doc
  <2> QED
    BY <1>1, <1>2, <2>2 DEF DataInv, RowInv
<1>5. /\ row \in Doc /\ row.retain = doc[d].retain /\ row.age = doc[d].age
      /\ row.path = doc[d].path /\ (row.ready # None => row.ready <= row.age)
  <2>1. PICK x : x = doc[d]
    OBVIOUS
  <2>2. x \in Doc /\ x.age \in Nat /\ x.ready \in Nat \cup {None}
    BY <1>3, <2>1 DEF Doc
  <2>3. PICK s, t : s = (IF ok THEN "ready" ELSE "failed") /\ t = (IF ok THEN 0 ELSE x.ready)
    OBVIOUS
  <2>4. s \in {"ready", "failed"} /\ t \in Nat \cup {None} /\ (t # None => t <= x.age)
    BY <1>3, <2>1, <2>2, <2>3
  <2>5. row = [x EXCEPT !.queued = FALSE, !.state = s, !.ready = t]
    BY <2>1, <2>3
  <2> HIDE DEF row
  <2>6. /\ row \in Doc /\ row.retain = x.retain /\ row.age = x.age
        /\ row.path = x.path /\ row.ready = t
    BY <2>2, <2>4, <2>5 DEF Doc
  <2> QED
    BY <2>1, <2>4, <2>6
<1> HIDE DEF row
<1>6. new \in [{d} -> Doc] /\ new[d] = row
  BY <1>5
<1> HIDE DEF new
<1>7. /\ Rows' = Rows /\ RowInv' /\ OnlyDueDisappears'
      /\ \A x \in Rows : doc'[x].retain = doc[x].retain /\ doc'[x].age = doc[x].age
  <2>1. \A x \in {d} : /\ new[x].retain = doc[x].retain /\ new[x].age = doc[x].age
                       /\ new[x].ready # None => new[x].ready <= new[x].age
                       /\ x \in files => new[x].path
    BY <1>3, <1>5, <1>6
  <2>2. {d} \in SUBSET Rows
    BY <1>2
  <2> HIDE DEF d
  <2> QED
    BY <1>1, <1>4, <1>6, <2>1, <2>2, RowsWritten DEF DataInv
<1>8. HeldByWorker' = {}
  BY <1>1 DEF HeldByWorker, NoWork
<1>9. \A q \in Requests : Flushed(q)' = Flushed(q) /\ Targets(q)' = Targets(q)
  BY <1>1, <1>7 DEF Flushed, Targets
<1>10. LockInv'
  BY <1>1, <1>7, <1>8, <1>9 DEF DataInv, LockInv
<1>11. FileInv' /\ CleanInv' /\ StrayInv'
  BY <1>1, <1>7 DEF DataInv, FileInv, CleanInv, StrayInv, HasFile, InCharge
<1> QED
  BY <1>1, <1>7, <1>10, <1>11, RequestsStay DEF SourceInv, DataInv

-----------------------------------------------------------------------------
(* The daily cleanup.                                                      *)

LEMMA CleanupMoves ==
  ASSUME SourceInv, UNCHANGED <<account, doc, req, active, tmp, worker, used>>,
         NEW c \in Cleanup, cleanup' = c,
         NEW fs, files' = fs, fs \subseteq files, files \ fs \subseteq cleanup.todo,
         lost \subseteq lost',
         c.todo \subseteq Rows \cup cleanup.todo,
         c.cleared \subseteq used, c.cleared \cap fs = {},
         c.holds \subseteq Rows,
         \A q \in Requests : Flushed(q) => Targets(q) \cap c.holds = {},
         c.pass \in {"idle", "commit"} => c.todo = {},
         \A d \in c.todo \cap Rows :
           ~doc[d].retain /\ (c.pass = "failed" => doc[d].age > Grace),
         \A d \in Rows \cap (files \ fs) : ~doc[d].retain /\ doc[d].age > Grace
  PROVE  SourceInv'
<1>1. DataInv /\ Rows' = Rows
  BY DEF SourceInv, Rows
<1>2. RowInv'
  BY <1>1 DEF DataInv, RowInv
<1>3. FileInv'
  BY <1>1 DEF DataInv, FileInv, HasFile
<1>4. LockInv'
  <2>1. \A q \in Requests : Flushed(q)' = Flushed(q) /\ Targets(q)' = Targets(q)
    BY <1>1 DEF Flushed, Targets
  <2>2. HeldByWorker' = HeldByWorker
    BY DEF HeldByWorker
  <2> QED
    BY <1>1, <2>1, <2>2 DEF DataInv, LockInv
<1>5. CleanInv'
  BY <1>1 DEF CleanInv
<1>6. OnlyDueDisappears'
  BY <1>1 DEF DataInv, OnlyDueDisappears
<1>7. StrayInv'
  BY <1>1 DEF DataInv, StrayInv, InCharge, HasFile
<1> QED
  BY <1>1, <1>2, <1>3, <1>4, <1>5, <1>6, <1>7, RequestsStay DEF SourceInv, DataInv

LEMMA CleanupStartKeeps == SourceInv /\ CleanupStart => SourceInv'
<1> SUFFICES ASSUME SourceInv, CleanupStart PROVE SourceInv'
  OBVIOUS
<1> DEFINE todo == {d \in Rows : ~doc[d].retain /\ doc[d].path /\ doc[d].state = "ready"}
           c == [NoCleanup EXCEPT !.pass = "grace", !.todo = todo]
<1>1. /\ cleanup' = c
      /\ UNCHANGED <<account, doc, files, tmp, active, req, worker, lost, used>>
  BY DEF CleanupStart
<1>2. /\ c \in Cleanup /\ c.pass = "grace" /\ c.todo = todo
      /\ c.cleared = {} /\ c.holds = {}
  BY DEF NoCleanup, Cleanup, Rows
<1>3. todo \subseteq Rows /\ \A d \in todo : ~doc[d].retain
  OBVIOUS
<1> HIDE DEF c, todo
<1> QED
  BY <1>1, <1>2, <1>3, CleanupMoves

LEMMA CleanupEndsKeeps ==
  ASSUME SourceInv, cleanup' = NoCleanup,
         UNCHANGED <<account, doc, files, tmp, active, req, worker, lost, used>>
  PROVE  SourceInv'
<1>1. /\ NoCleanup \in Cleanup /\ NoCleanup.pass = "idle" /\ NoCleanup.todo = {}
      /\ NoCleanup.cleared = {} /\ NoCleanup.holds = {}
  BY DEF NoCleanup, Cleanup
<1> HIDE DEF NoCleanup
<1> QED
  BY <1>1, CleanupMoves

\* The cleanup unlinks only what is due: the row was so when it was read, and
\* only gets older.
LEMMA DestroyKeeps ==
  ASSUME SourceInv, NEW d \in Docs, Destroy(d) PROVE SourceInv'
<1> DEFINE late == cleanup.pass = "failed"
           rest == [cleanup EXCEPT !.todo = @ \ {d},
                                   !.expired = IF late THEN @ \cup {d} ELSE @]
           done == [rest EXCEPT !.cleared = @ \cup {d}]
<1>1. /\ d \in cleanup.todo
      /\ late \/ Elapsed(d)
      /\ UNCHANGED <<account, doc, tmp, active, req, worker, used>>
      /\ DataInv /\ cleanup \in Cleanup /\ cleanup.pass \in {"grace", "failed"}
  <2>1. d \in cleanup.todo /\ DataInv /\ cleanup \in Cleanup
    BY DEF Destroy, SourceInv, DataInv, CleanInv
  <2>2. cleanup.pass \in {"grace", "failed"}
    BY <2>1 DEF DataInv, CleanInv, Cleanup
  <2> QED
    BY <2>1, <2>2 DEF Destroy
<1>2. /\ rest \in Cleanup /\ rest.pass = cleanup.pass /\ rest.todo = cleanup.todo \ {d}
      /\ rest.cleared = cleanup.cleared /\ rest.holds = cleanup.holds
  BY <1>1 DEF Cleanup
<1>3. \/ files' = files \ {d} /\ cleanup' = done /\ lost' = lost
      \/ files' = files /\ cleanup' = rest /\ lost \subseteq lost'
  BY DEF Destroy
<1> HIDE DEF rest
<1>4. /\ done \in Cleanup /\ done.pass = cleanup.pass /\ done.todo = cleanup.todo \ {d}
      /\ done.cleared = cleanup.cleared \cup {d} /\ done.holds = cleanup.holds
  BY <1>2 DEF Cleanup
<1> HIDE DEF done
<1>5. ASSUME d \in Rows PROVE ~doc[d].retain /\ doc[d].age > Grace
  <2>1. d \in cleanup.todo \cap Rows
    BY <1>1, <1>5
  <2>2. ~doc[d].retain
    BY <1>1, <2>1 DEF DataInv, CleanInv
  <2>3. late => doc[d].age > Grace
    BY <1>1, <2>1 DEF DataInv, CleanInv
  <2>4. doc[d].ready # None => doc[d].ready <= doc[d].age
    BY <1>1, <1>5 DEF DataInv, RowInv
  <2>5. doc[d].age \in Nat /\ doc[d].ready \in Nat \cup {None} /\ doc[d] # None
    BY <1>1, <1>5 DEF DataInv, RowInv, Rows, Doc
  <2>6. Elapsed(d) => doc[d].age > Grace
    BY <2>4, <2>5, SourceBounds DEF Elapsed
  <2> QED
    BY <1>1, <2>2, <2>3, <2>6
<1>6. /\ cleanup.cleared \subseteq used /\ cleanup.todo \subseteq used
      /\ cleanup.cleared \cap files = {} /\ cleanup.holds \subseteq Rows
      /\ \A q \in Requests : Flushed(q) => Targets(q) \cap cleanup.holds = {}
      /\ \A x \in cleanup.todo \cap Rows :
           ~doc[x].retain /\ (cleanup.pass = "failed" => doc[x].age > Grace)
  BY <1>1 DEF DataInv, FileInv, CleanInv, LockInv
<1>7. CASE files' = files \ {d} /\ cleanup' = done /\ lost' = lost
  <2>1. PICK fs : fs = files \ {d}
    OBVIOUS
  <2>2. fs \subseteq files /\ files \ fs \subseteq {d}
    BY <2>1
  <2>3. files \ fs \subseteq cleanup.todo
    BY <1>1, <2>2
  <2>4. \A x \in Rows \cap (files \ fs) : ~doc[x].retain /\ doc[x].age > Grace
    BY <1>5, <2>2
  <2>5. done.cleared \cap fs = {}
    BY <1>4, <1>6, <2>1
  <2>6. files' = fs /\ cleanup' = done /\ UNCHANGED lost
    BY <1>7, <2>1
  <2> HIDE DEF late
  <2>7. /\ done.cleared \subseteq used /\ done.todo \subseteq cleanup.todo
        /\ done.pass \in {"grace", "failed"}
        /\ \A x \in done.todo \cap Rows :
             ~doc[x].retain /\ (done.pass = "failed" => doc[x].age > Grace)
    BY <1>1, <1>4, <1>6
  <2> QED
    BY <1>1, <1>4, <1>6, <2>2, <2>3, <2>4, <2>5, <2>6, <2>7, CleanupMoves
<1>8. CASE files' = files /\ cleanup' = rest /\ lost \subseteq lost'
  BY <1>1, <1>2, <1>6, <1>8, CleanupMoves
<1> QED
  BY <1>3, <1>7, <1>8

LEMMA SkipKeeps ==
  ASSUME SourceInv, NEW d \in Docs, Skip(d) PROVE SourceInv'
<1> DEFINE c == [cleanup EXCEPT !.todo = @ \ {d}]
<1>1. /\ cleanup' = c /\ cleanup.pass = "grace"
      /\ UNCHANGED <<account, doc, files, tmp, active, req, worker, lost, used>>
      /\ DataInv /\ cleanup \in Cleanup
  BY DEF Skip, SourceInv, DataInv, CleanInv
<1>2. /\ c \in Cleanup /\ c.pass = "grace" /\ c.todo \subseteq cleanup.todo
      /\ c.cleared = cleanup.cleared /\ c.holds = cleanup.holds
  BY <1>1 DEF Cleanup
<1> HIDE DEF c
<1>3. /\ cleanup.cleared \subseteq used /\ cleanup.cleared \cap files = {}
      /\ cleanup.holds \subseteq Rows
      /\ \A q \in Requests : Flushed(q) => Targets(q) \cap cleanup.holds = {}
      /\ \A x \in cleanup.todo \cap Rows : ~doc[x].retain
  BY <1>1 DEF DataInv, FileInv, CleanInv, LockInv
<1> QED
  BY <1>1, <1>2, <1>3, CleanupMoves

LEMMA CleanupFlushKeeps == SourceInv /\ CleanupFlush => SourceInv'
<1> SUFFICES ASSUME SourceInv, CleanupFlush PROVE SourceInv'
  OBVIOUS
<1> DEFINE written == cleanup.cleared \cup cleanup.expired
           abandoned == {d \in Rows : /\ ~doc[d].retain /\ doc[d].state = "failed"
                                      /\ doc[d].age > FailedTTL}
           second == [cleanup EXCEPT !.pass = "failed", !.todo = abandoned, !.holds = written]
           last == [cleanup EXCEPT !.pass = "commit", !.holds = written]
           between == [cleanup EXCEPT !.holds = written]
<1>1. /\ written \cap HeldByRequests(None) = {}
      /\ UNCHANGED <<account, doc, files, tmp, active, req, worker, lost, used>>
      /\ DataInv /\ cleanup \in Cleanup
  BY DEF CleanupFlush, SourceInv, DataInv, CleanInv
<1>2. \/ cleanup' = NoCleanup
      \/ cleanup.pass = "grace" /\ written \subseteq Rows /\ cleanup' = between
      \/ cleanup.todo = {} /\ written \subseteq Rows /\ cleanup' = second
      \/ cleanup.todo = {} /\ written \subseteq Rows /\ cleanup' = last
  BY DEF CleanupFlush
<1>3. \A q \in Requests : Flushed(q) => Targets(q) \cap written = {}
  BY <1>1, SourceBounds DEF HeldByRequests, Flushed
<1>4. abandoned \subseteq Rows /\ \A d \in abandoned : ~doc[d].retain /\ doc[d].age > Grace
  <2>1. \A d \in Rows : doc[d].age \in Nat
    BY <1>1 DEF DataInv, RowInv, Rows, Doc
  <2> QED
    BY <2>1, SourceBounds
<1>5. cleanup.cleared \subseteq used /\ cleanup.cleared \cap files = {}
  BY <1>1 DEF DataInv, FileInv, CleanInv
<1>6. /\ second \in Cleanup /\ second.pass = "failed" /\ second.todo = abandoned
      /\ second.cleared = cleanup.cleared /\ second.holds = written
  BY <1>1 DEF Cleanup, Rows
<1>7. /\ last \in Cleanup /\ last.pass = "commit" /\ last.todo = cleanup.todo
      /\ last.cleared = cleanup.cleared /\ last.holds = written
  BY <1>1 DEF Cleanup
<1>8. /\ between \in Cleanup /\ between.pass = cleanup.pass
      /\ between.todo = cleanup.todo
      /\ between.cleared = cleanup.cleared /\ between.holds = written
  BY <1>1 DEF Cleanup
<1>9. \A d \in cleanup.todo \cap Rows : ~doc[d].retain
  BY <1>1 DEF DataInv, CleanInv
<1> HIDE DEF written, abandoned, second, last, between
<1>10. CASE cleanup' = NoCleanup
  BY <1>1, <1>10, CleanupEndsKeeps
<1>11. CASE cleanup.pass = "grace" /\ written \subseteq Rows /\ cleanup' = between
  BY <1>1, <1>3, <1>5, <1>8, <1>9, <1>11, CleanupMoves
<1>12. CASE cleanup.todo = {} /\ written \subseteq Rows /\ cleanup' = second
  BY <1>1, <1>3, <1>4, <1>5, <1>6, <1>12, CleanupMoves
<1>13. CASE cleanup.todo = {} /\ written \subseteq Rows /\ cleanup' = last
  BY <1>1, <1>3, <1>5, <1>7, <1>13, CleanupMoves
<1> QED
  BY <1>2, <1>10, <1>11, <1>12, <1>13

LEMMA CleanupCommitKeeps == SourceInv /\ CleanupCommit => SourceInv'
<1> SUFFICES ASSUME SourceInv, CleanupCommit PROVE SourceInv'
  OBVIOUS
<1> DEFINE W == cleanup.holds
           row(d) == [doc[d] EXCEPT !.path = @ /\ d \notin cleanup.cleared,
                        !.state = IF d \in cleanup.expired THEN "expired" ELSE @]
           new == [d \in W |-> row(d)]
<1>1. /\ doc' = [d \in Docs |-> IF d \in W THEN new[d] ELSE doc[d]]
      /\ cleanup' = NoCleanup
      /\ UNCHANGED <<account, files, tmp, active, req, worker, lost, used>>
      /\ DataInv /\ W \subseteq Rows
  BY DEF CleanupCommit, SourceInv, DataInv, LockInv
<1>2. ASSUME NEW d \in W
      PROVE  /\ row(d) \in Doc /\ row(d).retain = doc[d].retain /\ row(d).age = doc[d].age
             /\ row(d).ready = doc[d].ready
             /\ row(d).path = (doc[d].path /\ d \notin cleanup.cleared)
  <2>1. PICK x : x = doc[d]
    OBVIOUS
  <2>2. x \in Doc
    BY <1>1, <1>2, <2>1 DEF DataInv, RowInv, Rows
  <2>3. PICK s, p : /\ s = (IF d \in cleanup.expired THEN "expired" ELSE x.state)
                    /\ p = (x.path /\ d \notin cleanup.cleared)
    OBVIOUS
  <2>4. s \in {"received", "ready", "failed", "expired"} /\ p \in BOOLEAN
    BY <2>2, <2>3 DEF Doc
  <2>5. row(d) = [x EXCEPT !.path = p, !.state = s]
    BY <2>1, <2>3
  <2> HIDE DEF row
  <2>6. /\ row(d) \in Doc /\ row(d).retain = x.retain /\ row(d).age = x.age
        /\ row(d).ready = x.ready /\ row(d).path = p
    BY <2>2, <2>4, <2>5 DEF Doc
  <2> QED
    BY <2>1, <2>3, <2>6
<1> HIDE DEF row
<1>3. new \in [W -> Doc] /\ \A d \in W : new[d] = row(d)
  BY <1>2
<1> HIDE DEF new
<1>4. \A d \in W :
        /\ new[d].retain = doc[d].retain /\ new[d].age = doc[d].age
        /\ new[d].ready # None => new[d].ready <= new[d].age
        /\ d \in files => new[d].path
  BY <1>1, <1>2, <1>3 DEF DataInv, RowInv, CleanInv
<1> HIDE DEF W
<1>5. /\ Rows' = Rows /\ RowInv' /\ OnlyDueDisappears'
      /\ \A d \in Rows : doc'[d].retain = doc[d].retain /\ doc'[d].age = doc[d].age
  BY <1>1, <1>3, <1>4, RowsWritten DEF DataInv
<1>6. /\ NoCleanup \in Cleanup /\ NoCleanup.pass = "idle" /\ NoCleanup.todo = {}
      /\ NoCleanup.cleared = {} /\ NoCleanup.holds = {}
  BY DEF NoCleanup, Cleanup
<1>7. CleanInv'
  BY <1>1, <1>6 DEF CleanInv
<1>8. FileInv' /\ StrayInv'
  BY <1>1, <1>5, <1>6 DEF DataInv, FileInv, StrayInv, HasFile, InCharge
<1>9. LockInv'
  <2>1. \A q \in Requests : Flushed(q)' = Flushed(q) /\ Targets(q)' = Targets(q)
    BY <1>1, <1>5 DEF Flushed, Targets
  <2>2. HeldByWorker' = HeldByWorker
    BY <1>1 DEF HeldByWorker
  <2> QED
    BY <1>1, <1>5, <1>6, <2>1, <2>2 DEF DataInv, LockInv
<1> QED
  BY <1>1, <1>5, <1>7, <1>8, <1>9, RequestsStay DEF SourceInv, DataInv

-----------------------------------------------------------------------------

LEMMA TickKeeps == SourceInv /\ Tick => SourceInv'
<1> SUFFICES ASSUME SourceInv, Tick PROVE SourceInv'
  OBVIOUS
<1> DEFINE row(d) == [doc[d] EXCEPT !.age = Older(@, FailedTTL + 1),
                                    !.ready = Older(@, Grace + 1)]
<1>1. /\ doc' = [d \in Docs |-> IF doc[d] = None THEN None ELSE row(d)]
      /\ UNCHANGED <<account, files, tmp, active, req, worker, cleanup, lost, used>>
      /\ DataInv
  BY DEF Tick, SourceInv
<1>2. ASSUME NEW d \in Rows
      PROVE  /\ row(d) \in Doc /\ row(d).retain = doc[d].retain /\ row(d).path = doc[d].path
             /\ doc[d].age \in Nat /\ row(d).age \in Nat /\ row(d).age >= doc[d].age
             /\ row(d).ready # None => row(d).ready <= row(d).age
  <2>1. PICK x : x = doc[d]
    OBVIOUS
  <2>2. /\ x \in Doc /\ x.age \in Nat /\ x.ready \in Nat \cup {None}
        /\ (x.ready # None => x.ready <= x.age)
    BY <1>1, <2>1 DEF DataInv, RowInv, Rows, Doc
  <2>3. PICK a, r : a = Older(x.age, FailedTTL + 1) /\ r = Older(x.ready, Grace + 1)
    OBVIOUS
  <2>4. a \in Nat /\ a >= x.age
    BY <2>2, <2>3, SourceBounds DEF Older
  <2>5. r \in Nat \cup {None}
    BY <2>2, <2>3, SourceBounds DEF Older
  <2>6. r # None => r <= a
    <3>1. CASE x.ready = None
      BY <2>3, <3>1 DEF Older
    <3>2. CASE x.ready # None
      <4>1. /\ x.ready \in Nat /\ x.ready <= x.age /\ x.age # None
            /\ Grace \in Nat /\ FailedTTL \in Nat /\ Grace <= FailedTTL
        BY <2>2, <3>2, SourceBounds
      <4>2. a = IF x.age < FailedTTL + 1 THEN x.age + 1 ELSE x.age
        BY <2>3, <4>1 DEF Older
      <4>3. r = IF x.ready < Grace + 1 THEN x.ready + 1 ELSE x.ready
        BY <2>3, <3>2 DEF Older
      <4> QED
        BY <2>2, <4>1, <4>2, <4>3
    <3> QED
      BY <3>1, <3>2
  <2>7. row(d) = [x EXCEPT !.age = a, !.ready = r]
    BY <2>1, <2>3
  <2> HIDE DEF row
  <2>8. /\ row(d) \in Doc /\ row(d).retain = x.retain /\ row(d).path = x.path
        /\ row(d).age = a /\ row(d).ready = r
    BY <2>2, <2>4, <2>5, <2>7 DEF Doc
  <2> QED
    BY <2>1, <2>2, <2>4, <2>6, <2>8
<1> HIDE DEF row
<1>3. \A d \in Rows : doc'[d] = row(d) /\ row(d) # None
  BY <1>1, <1>2, NoneIsNoDoc DEF Rows
<1>4. Rows' = Rows
  BY <1>1, <1>3 DEF Rows
<1>5. RowInv'
  <2>1. doc' \in [Docs -> Doc \cup {None}]
    BY <1>1, <1>2 DEF Rows
  <2> QED
    BY <1>1, <1>2, <1>3, <1>4, <2>1 DEF DataInv, RowInv
<1>6. \A d \in Rows : doc[d].age > Grace => doc'[d].age > Grace
  BY <1>2, <1>3, SourceBounds
<1>7. OnlyDueDisappears'
  BY <1>1, <1>2, <1>3, <1>4, <1>6 DEF DataInv, OnlyDueDisappears
<1>8. CleanInv'
  BY <1>1, <1>2, <1>3, <1>4, <1>6 DEF DataInv, CleanInv
<1>9. FileInv' /\ StrayInv'
  BY <1>1, <1>4 DEF DataInv, FileInv, StrayInv, HasFile, InCharge
<1>10. LockInv'
  <2>1. \A q \in Requests : Flushed(q)' = Flushed(q) /\ Targets(q)' = Targets(q)
    BY <1>1, <1>4 DEF Flushed, Targets
  <2>2. HeldByWorker' = HeldByWorker
    BY <1>1 DEF HeldByWorker
  <2> QED
    BY <1>1, <1>4, <2>1, <2>2 DEF DataInv, LockInv
<1> QED
  BY <1>1, <1>5, <1>7, <1>8, <1>9, <1>10, RequestsStay DEF SourceInv, DataInv

LEMMA SourceStep == SourceInv /\ [Next]_vars => SourceInv'
<1> SUFFICES ASSUME SourceInv, [Next]_vars PROVE SourceInv'
  OBVIOUS
<1>1. ASSUME NEW q \in Requests, Serve(q) PROVE SourceInv'
  <2>1. CASE Insert(q)
    BY <2>1, InsertKeeps, InsertRaises
  <2>2. CASE Flush(q)
    BY <2>2, FlushKeeps, FlushRaises
  <2>3. CASE Receive(q) \/ EndEarly(q) \/ Spool(q) \/ Reject(q)
    BY <2>3, ReceiveKeeps, EndKeeps, SpoolKeeps
  <2>4. CASE \E d \in Docs, clone, retain \in BOOLEAN : Store(q, d, clone, retain)
    BY <2>4, StoreKeeps
  <2> QED
    BY <1>1, <2>1, <2>2, <2>3, <2>4, CommitUploadKeeps, CommitReprocessKeeps,
       CommitDeleteKeeps, UnlinkKeeps DEF Serve
<1>2. ASSUME NEW q \in Requests, Admit(q) \/ Rollback(q) PROVE SourceInv'
  BY <1>2, AdmitKeeps, RollbackKeeps
<1>3. ASSUME NEW q \in Requests, ReadClose(q) PROVE SourceInv'
  <2>1. {d \in Rows : doc[d].path} \in SUBSET Rows
    OBVIOUS
  <2> QED
    BY <1>3, <2>1, ReadKeeps DEF ReadClose
<1>4. ASSUME NEW q \in Requests, NEW d \in Docs, ReadReprocess(q, d) \/ ReadDelete(q, d)
      PROVE  SourceInv'
  <2>1. {d} \in SUBSET Rows /\ (Read(q, "reprocess", {d}) \/ Read(q, "delete", {d}))
    BY <1>4 DEF ReadReprocess, ReadDelete
  <2> QED
    BY <2>1, ReadKeeps
<1>5. CASE Work
  BY <1>5, StartWorkKeeps, FinishWorkKeeps DEF Work
<1>6. CASE DailyMaintenance
  BY <1>6, CleanupStartKeeps, CleanupFlushKeeps, CleanupCommitKeeps, DestroyKeeps, SkipKeeps
     DEF DailyMaintenance
<1>7. CASE CleanupFails
  BY <1>7, CleanupEndsKeeps DEF CleanupFails
<1>8. CASE UNCHANGED vars
  BY <1>8 DEF vars, SourceInv, ReqInv, SlotsBalance, DataInv, RowInv, FileInv, LockInv, CleanInv,
              OnlyDueDisappears, StrayInv, Rows, Busy, HasFile, InCharge, Flushed, Targets,
              HeldByWorker
<1> QED
  BY <1>1, <1>2, <1>3, <1>4, <1>5, <1>6, <1>7, <1>8, CrashKeeps, TickKeeps DEF Next

\* Slots, locks, rows and files together.
THEOREM SourceInvariance == Spec => []SourceInv
BY SourceStart, SourceStep, PTL DEF Spec

\* For any number of uploads at a time, what the middleware counts is what is
\* under way, and no more than it admits.
THEOREM SlotsComeBack == Spec => []SlotsBalance
<1>1. SourceInv => SlotsBalance
  BY DEF SourceInv
<1> QED
  BY <1>1, SourceInvariance, PTL

\* No order of deletions, reprocesses, extractions and cleanups, nor any fault
\* among them, makes a file disappear under a row before it is due.
THEOREM FilesStayUntilDue == Spec => []OnlyDueDisappears
<1>1. SourceInv => OnlyDueDisappears
  BY DEF SourceInv, DataInv
<1> QED
  BY <1>1, SourceInvariance, PTL

\* While the account exists every file has a row, a request that will account
\* for it, or was left by a fault; a spool file belongs to an upload.
THEOREM StrayFilesHaveOwners == Spec => []NoStrayFiles
<1>1. SourceInv => NoStrayFiles
  BY DEF SourceInv, ReqInv, DataInv, StrayInv, InCharge, HasFile, NoStrayFiles, Busy
<1> QED
  BY <1>1, SourceInvariance, PTL

-----------------------------------------------------------------------------
(* Types.  Those of rows, requests, slots and cleanup are in SourceInv.    *)

Places ==
  /\ account \in BOOLEAN
  /\ files \subseteq Docs /\ lost \subseteq Docs /\ used \subseteq Docs
  /\ worker \in [doc: Docs \cup {None}, found: BOOLEAN]
  /\ faults \in 0..MaxFaults

LEMMA PlacesAreTypeOK == SourceInv /\ Places => TypeOK
<1> SUFFICES ASSUME SourceInv, Places PROVE TypeOK
  OBVIOUS
<1>1. active \in 0..Cardinality(Requests)
  <2>1. PICK U : U = {q \in Requests : Busy(q) /\ req[q].op = "upload"}
    OBVIOUS
  <2>2. IsFiniteSet(Requests) /\ U \subseteq Requests /\ active = Cardinality(U)
    BY <2>1, SourceBounds DEF SourceInv, SlotsBalance
  <2>3. Cardinality(U) \in Nat /\ Cardinality(Requests) \in Nat
        /\ Cardinality(U) <= Cardinality(Requests)
    BY <2>2, FS_Subset, FS_CardinalityType
  <2> QED
    BY <2>2, <2>3
<1>2. tmp \subseteq Requests
  BY DEF SourceInv, ReqInv
<1> QED
  BY <1>1, <1>2 DEF Places, TypeOK, SourceInv, ReqInv, DataInv, RowInv, CleanInv

LEMMA PlacesStart == Init => Places
BY SourceBounds DEF Init, Places, NoWork

LEMMA FaultCounted == ASSUME Places, Fault PROVE faults' \in 0..MaxFaults
BY SourceBounds DEF Places, Fault

LEMMA RequestDocs == ASSUME SourceInv, NEW q \in Requests PROVE req[q].docs \subseteq Docs
BY DEF SourceInv, ReqInv, Request

\* A request that neither stores a file nor meets a fault.
LEMMA RequestPlaces ==
  ASSUME SourceInv, Places, NEW q \in Requests,
         \/ Admit(q) \/ ReadClose(q) \/ Receive(q) \/ EndEarly(q) \/ Spool(q) \/ Reject(q)
         \/ Insert(q) \/ CommitUpload(q) \/ Flush(q) \/ CommitReprocess(q) \/ CommitDelete(q)
         \/ \E d \in Docs : ReadReprocess(q, d) \/ ReadDelete(q, d)
  PROVE  Places'
<1>1. /\ UNCHANGED <<files, worker, lost, used, faults>>
      /\ account' = account \/ account' = (account /\ req[q].op = "delete")
  BY Zenon DEF Admit, ReadClose, Receive, EndEarly, Spool, Reject, Insert, CommitUpload, Flush,
         CommitReprocess, CommitDelete, ReadReprocess, ReadDelete, Read, NoFault
<1>2. account' \in BOOLEAN
  BY <1>1, Zenon DEF Places
<1> QED
  BY <1>1, <1>2 DEF Places

LEMMA StorePlaces ==
  ASSUME SourceInv, Places, NEW q \in Requests, NEW d \in Docs, NEW c, NEW k, Store(q, d, c, k)
  PROVE  Places'
<1>1. /\ files' = files \cup {d} /\ used' = used \cup {d}
      /\ UNCHANGED <<account, worker, lost, faults>>
  BY DEF Store, NoFault
<1> QED
  BY <1>1 DEF Places

LEMMA FaultyPlaces ==
  ASSUME SourceInv, Places, NEW q \in Requests, Unlink(q) \/ Rollback(q)
  PROVE  Places'
<1>1. /\ UNCHANGED <<account, worker, used>>
      /\ files' = files \/ files' = files \ req[q].docs
      /\ lost' = lost \/ lost' = lost \cup req[q].docs
      /\ UNCHANGED faults \/ Fault
  BY DEF Unlink, Rollback, NoFault
<1> QED
  BY <1>1, RequestDocs, FaultCounted DEF Places

LEMMA CrashPlaces == ASSUME SourceInv, Places, Crash \/ CleanupFails PROVE Places'
<1>1. /\ UNCHANGED <<account, files, worker, used>> /\ Fault
      /\ lost' = lost \/ lost' = lost \cup (files \ Rows)
  BY DEF Crash, CleanupFails
<1> QED
  BY <1>1, FaultCounted DEF Places

LEMMA WorkPlaces == ASSUME SourceInv, Places, Work PROVE Places'
<1>1. UNCHANGED <<account, files, lost, used, faults>>
  BY DEF Work, StartWork, FinishWork, NoFault
<1>2. worker' \in [doc: Docs \cup {None}, found: BOOLEAN]
  <2>1. CASE worker' = NoWork
    BY <2>1 DEF NoWork
  <2>2. ASSUME NEW d \in Docs, worker' = [doc |-> d, found |-> doc[d].path /\ d \in files]
        PROVE  worker' \in [doc: Docs \cup {None}, found: BOOLEAN]
    <3>1. PICK b \in BOOLEAN : b = (doc[d].path /\ d \in files)
      OBVIOUS
    <3>2. worker' = [doc |-> d, found |-> b]
      BY <2>2, <3>1
    <3> QED
      BY <3>2
  <2> QED
    BY <2>1, <2>2 DEF Work, StartWork, FinishWork
<1> QED
  BY <1>1, <1>2 DEF Places

LEMMA CleanupPlaces ==
  ASSUME SourceInv, Places, DailyMaintenance \/ Tick \/ UNCHANGED vars
  PROVE  Places'
<1>1. ASSUME NEW d \in Docs, Destroy(d) PROVE Places'
  <2>1. /\ UNCHANGED <<account, worker, used>>
        /\ files' = files \/ files' = files \ {d}
        /\ lost' = lost \/ lost' = lost \cup {d}
        /\ UNCHANGED faults \/ Fault
    BY <1>1 DEF Destroy, NoFault
  <2> QED
    BY <2>1, FaultCounted DEF Places
<1>2. CASE \/ CleanupStart \/ CleanupFlush \/ CleanupCommit \/ (\E d \in Docs : Skip(d))
           \/ Tick \/ UNCHANGED vars
  <2>1. UNCHANGED <<account, files, worker, lost, used, faults>>
    BY <1>2 DEF CleanupStart, CleanupFlush, CleanupCommit, Skip, Tick, vars, NoFault
  <2> QED
    BY <2>1 DEF Places
<1> QED
  BY <1>1, <1>2 DEF DailyMaintenance

\* Rows, requests, slots, files, worker and cleanup have their types, for any
\* number of documents and requests.
THEOREM SourceTypeCorrect == Spec => []TypeOK
<1>1. SourceInv /\ Places /\ [Next]_vars => Places'
  <2> SUFFICES ASSUME SourceInv, Places, [Next]_vars PROVE Places'
    OBVIOUS
  <2>1. ASSUME NEW q \in Requests, Serve(q) PROVE Places'
    BY <2>1, RequestPlaces, StorePlaces, FaultyPlaces DEF Serve
  <2> QED
    BY <2>1, RequestPlaces, FaultyPlaces, CrashPlaces, WorkPlaces, CleanupPlaces DEF Next
<1> QED
  BY <1>1, PlacesStart, PlacesAreTypeOK, SourceInvariance, PTL DEF Spec
=============================================================================
