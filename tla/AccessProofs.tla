---------------------------- MODULE AccessProofs ----------------------------
(***************************************************************************)
(* Proofs about sessions and accounts for any number of requests, accounts *)
(* and addresses: a deleted session stays deleted, and nothing belongs to  *)
(* an account that is gone.                                                *)
(*                                                                         *)
(* Neither is inductive, for a commit writes what a request has read long  *)
(* before.  RequestInv says why what it read still holds then: of each row *)
(* it writes, the request either is the only one to know (NewId,           *)
(* NewAccount), or has the lock under which the row was found (Sure), and  *)
(* whoever takes the row away needs that lock too (DropOK, GoneOK).        *)
(***************************************************************************)
EXTENDS Access, FiniteSetTheorems, TLAPS

\* No other request and no committed row has this id.
NewId(r, i) ==
  /\ i \notin Ids(sessions) \cup dead
  /\ \A p \in Requests \ {r} : i \notin Ids(req[p].tx.put)
NewAccount(r, a) ==
  /\ a \notin Ids(accounts)
  /\ \A p \in Requests \ {r} : a \notin Ids(req[p].tx.acct) \cup req[p].tx.gone

\* The lock is there, with the row as it must be, or the flush will see to it.
Has(q, lock) == lock \in q.held \cup q.share /\ Writable(lock)
Gets(q, lock) ==
  q.phase \in {"loading", "waiting"} /\ lock \in q.needs /\ lock \in q.want \cup q.wantshare
Sure(q, lock) == Has(q, lock) \/ Gets(q, lock)

Over(q) == q.phase \in {"flushed", "committing"}
SameAccount(x) == \A y \in sessions : y.id = x.id => y.account = x.account
SameEmail(c) == \A b \in accounts : b.id = c.id => b.email = c.email

PutOK(r, q) ==
  /\ \A x \in q.tx.put :
       \/ /\ NewId(r, x.id)
          /\ \/ x.account = None
             \/ Sure(q, <<"key", x.account>>)
             \/ NewAccount(r, x.account) /\ x.account \in Ids(q.tx.acct)
       \/ Sure(q, <<"session", x.id>>) /\ SameAccount(x)
  /\ \A x, y \in q.tx.put : x.id = y.id => x.account = y.account

DropOK(r, q) ==
  \A i \in q.tx.drop : NewId(r, i) \/ <<"session", i>> \in q.held \cup q.want

GoneOK(q) ==
  /\ q.tx.gone # {} => q.tx.acct = {} /\ q.tx.tok = {}
  /\ \A a \in q.tx.gone :
       /\ {<<"key", a>>, <<"account", a>>} \subseteq q.held \cup q.want
       /\ Over(q) => \A y \in sessions : y.account = a => <<"session", y.id>> \in q.held

TokOK(q) ==
  \A t \in q.tx.tok : Sure(q, <<"key", t.account>>) \/ Sure(q, <<"account", t.account>>)

AcctOK(r, q) ==
  /\ \A c \in q.tx.acct :
       \/ NewAccount(r, c.id) /\ Sure(q, <<"email", c.email>>)
       \/ Sure(q, <<"account", c.id>>) /\ SameEmail(c)
  /\ \A c, d \in q.tx.acct : c = d

PhaseOK(q) ==
  /\ q.phase \in {"loading", "loaded", "payload"} =>
       q.own \in Ids(q.tx.put) /\ q.tx.gone = {} /\ q.tx.acct = {} /\ q.tx.tok = {}
  /\ q.phase \notin {"loading", "waiting"} => q.want = {} /\ q.wantshare = {}
  /\ \A l \in q.share \cup q.wantshare : l[1] = "key"

RequestInv(r, q) ==
  PutOK(r, q) /\ DropOK(r, q) /\ GoneOK(q) /\ TokOK(q) /\ AcctOK(r, q) /\ PhaseOK(q)

Counters ==
  /\ \A i \in Ids(sessions) \cup dead : i <= issued["session"]
  /\ \A a \in Ids(accounts) : a <= issued["account"]
  /\ \A r \in Requests :
       /\ \A i \in Ids(req[r].tx.put) \cup req[r].tx.drop : i <= issued["session"]
       /\ \A a \in Ids(req[r].tx.acct) \cup req[r].tx.gone : a <= issued["account"]

Apart(q, p) == q.held \cap (p.held \cup p.share) = {} /\ q.share \cap p.held = {}
Exclusive == \A r \in Requests : \A p \in Requests \ {r} : Apart(req[r], req[p])

OneAccount ==
  /\ \A x, y \in sessions : x.id = y.id => x.account = y.account
  /\ \A b, c \in accounts : b.id = c.id => b.email = c.email

AccessInv ==
  /\ TypeOK /\ Counters /\ Exclusive /\ OneAccount /\ DeadStayDead /\ Integrity
  /\ \A r \in Requests : RequestInv(r, req[r])

-----------------------------------------------------------------------------

LEMMA IdleType == IdleRequest \in Request
BY AccessBounds DEF IdleRequest, Request, Nothing, Writes, Ops, Async, Phases

LEMMA IdleOK == ASSUME NEW r PROVE RequestInv(r, IdleRequest)
BY DEF RequestInv, PutOK, DropOK, GoneOK, TokOK, AcctOK, PhaseOK, IdleRequest, Nothing

LEMMA AccessStart == Init => AccessInv
<1> SUFFICES ASSUME Init PROVE AccessInv
  OBVIOUS
<1>1. /\ accounts = {} /\ sessions = {} /\ tokens = {} /\ dead = {} /\ now = 0
      /\ issued = [kind \in {"session", "account", "token"} |-> 0]
      /\ buckets = [k \in BucketKeys |-> None]
      /\ req = [r \in Requests |-> IdleRequest]
  BY DEF Init
<1>2. TypeOK
  <2>1. req \in [Requests -> Request]
    BY <1>1, IdleType
  <2>2. /\ issued \in [{"session", "account", "token"} -> Nat]
        /\ buckets \in [BucketKeys -> Bucket \cup {None}] /\ now \in 0..MaxTime
    BY <1>1, AccessBounds
  <2> QED
    BY <1>1, <2>1, <2>2 DEF TypeOK
<1>3. Ids(sessions) = {} /\ Ids(accounts) = {}
  BY <1>1 DEF Ids
<1>4. \A r \in Requests : RequestInv(r, req[r])
  BY <1>1, IdleOK
<1>5. Counters
  BY <1>1, <1>3 DEF Counters, IdleRequest, Nothing, Ids
<1>6. Exclusive
  BY <1>1 DEF Exclusive, Apart, IdleRequest
<1>7. OneAccount /\ DeadStayDead /\ Integrity
  BY <1>1 DEF OneAccount, DeadStayDead, Integrity
<1> QED
  BY <1>2, <1>4, <1>5, <1>6, <1>7 DEF AccessInv

-----------------------------------------------------------------------------
(* One request goes on and nothing is committed.                           *)

Grown(r, q) ==
  /\ \A x \in q.tx.put : \/ x.id \in Ids(sessions) \cup Ids(req[r].tx.put)
                         \/ issued["session"] < x.id /\ x.id <= issued'["session"]
  /\ \A i \in q.tx.drop : i <= issued'["session"]
  /\ \A c \in q.tx.acct : \/ c.id \in Ids(accounts) \cup Ids(req[r].tx.acct)
                          \/ issued["account"] < c.id /\ c.id <= issued'["account"]
  /\ q.tx.gone \subseteq Ids(accounts) \cup req[r].tx.gone

LEMMA OthersKeep ==
  ASSUME AccessInv, NEW r \in Requests, NEW q \in Request, req' = [req EXCEPT ![r] = q],
         UNCHANGED <<accounts, sessions, tokens, dead>>, Grown(r, q),
         issued' \in [{"session", "account", "token"} -> Nat],
         NEW p \in Requests \ {r}
  PROVE  RequestInv(p, req[p])'
<1>1. \A x \in Requests : req'[x] = IF x = r THEN q ELSE req[x]
  BY DEF AccessInv, TypeOK
<1>2. RequestInv(p, req[p]) /\ req'[p] = req[p] /\ Counters
  BY <1>1 DEF AccessInv
<1>3. \A lock : Writable(lock)' = Writable(lock)
  BY DEF Writable, Ids
<1>4. \A lock : Sure(req[p], lock)' = Sure(req[p], lock)
  BY <1>2, <1>3 DEF Sure, Has, Gets
<1>5. ASSUME NEW i \in Ids(req[p].tx.put) \cup req[p].tx.drop, NewId(p, i)
      PROVE  NewId(p, i)'
  <2>1. i \in Nat /\ i <= issued["session"] /\ issued["session"] \in Nat
    BY <1>2 DEF Counters, AccessInv, TypeOK, Request, Writes, Session, Ids
  <2>2. i \notin Ids(sessions) /\ i \notin Ids(req[r].tx.put)
    BY <1>5 DEF NewId
  <2>3. \A x \in q.tx.put : x.id # i
    <3> TAKE x \in q.tx.put
    <3>1. x.id \in Nat
      BY DEF Request, Writes, Session
    <3> QED
      BY <2>1, <2>2, <3>1 DEF Grown
  <2>4. i \notin Ids(q.tx.put)
    BY <2>3 DEF Ids
  <2> QED
    BY <1>1, <1>5, <2>4 DEF NewId, Ids
<1>6. ASSUME NEW a \in Ids(req[p].tx.acct), NewAccount(p, a)
      PROVE  NewAccount(p, a)'
  <2>1. a \in Nat /\ a <= issued["account"] /\ issued["account"] \in Nat
    BY <1>2 DEF Counters, AccessInv, TypeOK, Request, Writes, Account, Ids
  <2>2. a \notin Ids(accounts) /\ a \notin Ids(req[r].tx.acct) \cup req[r].tx.gone
    BY <1>6 DEF NewAccount
  <2>3. \A c \in q.tx.acct : c.id # a
    <3> TAKE c \in q.tx.acct
    <3>1. c.id \in Nat
      BY DEF Request, Writes, Account
    <3> QED
      BY <2>1, <2>2, <3>1 DEF Grown
  <2>4. a \notin Ids(q.tx.acct) \cup q.tx.gone
    BY <2>2, <2>3 DEF Ids, Grown
  <2> QED
    BY <1>1, <1>6, <2>4 DEF NewAccount, Ids
<1>7. PutOK(p, req[p])'
  <2>1. \A x \in req[p].tx.put : x.id \in Ids(req[p].tx.put)
    BY DEF Ids
  <2>2. \A x : SameAccount(x)' = SameAccount(x)
    BY DEF SameAccount
  <2> QED
    BY <1>2, <1>4, <1>5, <1>6, <2>1, <2>2 DEF RequestInv, PutOK
<1>8. DropOK(p, req[p])'
  BY <1>2, <1>5 DEF RequestInv, DropOK
<1>9. GoneOK(req[p])' /\ TokOK(req[p])' /\ PhaseOK(req[p])'
  BY <1>2, <1>4 DEF RequestInv, GoneOK, TokOK, PhaseOK, Over, Ids
<1>10. AcctOK(p, req[p])'
  <2>1. \A c \in req[p].tx.acct : c.id \in Ids(req[p].tx.acct)
    BY DEF Ids
  <2>2. \A c : SameEmail(c)' = SameEmail(c)
    BY DEF SameEmail
  <2> QED
    BY <1>2, <1>4, <1>6, <2>1, <2>2 DEF RequestInv, AcctOK
<1> QED
  BY <1>7, <1>8, <1>9, <1>10 DEF RequestInv

LEMMA OwnKeeps ==
  ASSUME AccessInv, NEW r \in Requests, NEW q \in Request, req' = [req EXCEPT ![r] = q],
         UNCHANGED <<accounts, sessions, tokens, dead>>, RequestInv(r, q)
  PROVE  RequestInv(r, req[r])'
<1>1. \A x \in Requests : req'[x] = IF x = r THEN q ELSE req[x]
  BY DEF AccessInv, TypeOK
<1>2. req'[r] = q
  BY <1>1
<1>3. \A lock : Sure(req[r], lock)' = Sure(q, lock)
  BY <1>2 DEF Sure, Has, Gets, Writable, Ids
<1>4. \A i : NewId(r, i)' = NewId(r, i)
  BY <1>1 DEF NewId, Ids
<1>5. \A a : NewAccount(r, a)' = NewAccount(r, a)
  BY <1>1 DEF NewAccount, Ids
<1>6. /\ \A x : SameAccount(x)' = SameAccount(x)
      /\ \A c : SameEmail(c)' = SameEmail(c)
  BY DEF SameAccount, SameEmail
<1>7. PutOK(r, req[r])'
  BY <1>2, <1>3, <1>4, <1>5, <1>6 DEF RequestInv, PutOK, Ids
<1>8. DropOK(r, req[r])' /\ GoneOK(req[r])' /\ TokOK(req[r])' /\ PhaseOK(req[r])'
  BY <1>2, <1>3, <1>4 DEF RequestInv, DropOK, GoneOK, TokOK, PhaseOK, Over, Ids
<1>9. AcctOK(r, req[r])'
  BY <1>2, <1>3, <1>5, <1>6 DEF RequestInv, AcctOK
<1> QED
  BY <1>7, <1>8, <1>9 DEF RequestInv

LEMMA Moves ==
  ASSUME AccessInv, NEW r \in Requests, NEW q \in Request, req' = [req EXCEPT ![r] = q],
         UNCHANGED <<accounts, sessions, tokens, dead>>, Grown(r, q), RequestInv(r, q),
         issued' \in [{"session", "account", "token"} -> Nat],
         issued["session"] <= issued'["session"], issued["account"] <= issued'["account"],
         buckets' \in [BucketKeys -> Bucket \cup {None}], now' \in 0..MaxTime,
         \A p \in Requests \ {r} : Apart(q, req[p])
  PROVE  AccessInv'
<1>1. \A x \in Requests : req'[x] = IF x = r THEN q ELSE req[x]
  BY DEF AccessInv, TypeOK
<1>2. TypeOK'
  BY DEF AccessInv, TypeOK
<1>3. \A p \in Requests : RequestInv(p, req[p])'
  BY OthersKeep, OwnKeeps
<1>4. Counters'
  <2>1. /\ \A i \in Ids(sessions) \cup dead : i \in Nat
        /\ \A a \in Ids(accounts) : a \in Nat
    <3>1. sessions \subseteq Session /\ dead \subseteq Nat /\ accounts \subseteq Account
      BY AccessBounds DEF AccessInv, TypeOK
    <3>2. \A x \in sessions : x.id \in Nat
      BY <3>1 DEF Session
    <3>3. \A x \in accounts : x.id \in Nat
      BY <3>1 DEF Account
    <3> QED
      BY <3>1, <3>2, <3>3 DEF Ids
  <2>0. /\ issued["session"] \in Nat /\ issued["account"] \in Nat
        /\ issued'["session"] \in Nat /\ issued'["account"] \in Nat
    BY DEF AccessInv, TypeOK
  <2>2. ASSUME NEW p \in Requests
        PROVE  /\ \A i \in Ids(req[p].tx.put) \cup req[p].tx.drop : i \in Nat
               /\ \A a \in Ids(req[p].tx.acct) \cup req[p].tx.gone : a \in Nat
    BY AccessBounds DEF AccessInv, TypeOK, Ids, Session, Account, Request, Writes
  <2>3. /\ \A i \in Ids(sessions) \cup dead : i <= issued'["session"]
        /\ \A a \in Ids(accounts) : a <= issued'["account"]
    BY <2>0, <2>1 DEF AccessInv, Counters
  <2>4. ASSUME NEW p \in Requests
        PROVE  /\ \A i \in Ids(req[p].tx.put) \cup req[p].tx.drop : i <= issued'["session"]
               /\ \A a \in Ids(req[p].tx.acct) \cup req[p].tx.gone : a <= issued'["account"]
    <3>1. /\ \A i \in Ids(req[p].tx.put) \cup req[p].tx.drop : i <= issued["session"]
          /\ \A a \in Ids(req[p].tx.acct) \cup req[p].tx.gone : a <= issued["account"]
      BY DEF AccessInv, Counters
    <3> QED
      BY <2>0, <2>2, <3>1
  <2>5. /\ \A i \in Ids(q.tx.put) \cup q.tx.drop : i <= issued'["session"]
        /\ \A a \in Ids(q.tx.acct) \cup q.tx.gone : a <= issued'["account"]
    <3>1. \A x \in q.tx.put : x.id <= issued'["session"]
      BY <2>3, <2>4 DEF Grown
    <3>2. \A c \in q.tx.acct : c.id <= issued'["account"]
      BY <2>3, <2>4 DEF Grown
    <3> QED
      BY <2>3, <2>4, <3>1, <3>2 DEF Grown, Ids
  <2>6. \A p \in Requests :
          /\ \A i \in Ids(req'[p].tx.put) \cup req'[p].tx.drop : i <= issued'["session"]
          /\ \A a \in Ids(req'[p].tx.acct) \cup req'[p].tx.gone : a <= issued'["account"]
    BY <1>1, <2>4, <2>5
  <2> QED
    BY <2>3, <2>6 DEF Counters, Ids
<1>5. Exclusive'
  BY <1>1 DEF AccessInv, Exclusive, Apart
<1>6. OneAccount' /\ DeadStayDead' /\ Integrity'
  BY DEF AccessInv, OneAccount, DeadStayDead, Integrity, Ids
<1> QED
  BY <1>2, <1>3, <1>4, <1>5, <1>6 DEF AccessInv

LEMMA Unchanged ==
  ASSUME AccessInv
  PROVE  /\ issued \in [{"session", "account", "token"} -> Nat]
         /\ issued["session"] <= issued["session"] /\ issued["account"] <= issued["account"]
         /\ buckets \in [BucketKeys -> Bucket \cup {None}] /\ now \in 0..MaxTime
         /\ req \in [Requests -> Request]
BY DEF AccessInv, TypeOK

\* A request that ends, or only keeps its locks until it is rolled back.
LEMMA Rests ==
  ASSUME AccessInv, NEW r \in Requests, NEW q \in Request, req' = [req EXCEPT ![r] = q],
         UNCHANGED <<accounts, sessions, tokens, dead, issued>>,
         buckets' \in [BucketKeys -> Bucket \cup {None}], now' \in 0..MaxTime,
         q.tx = Nothing, q.want = {}, q.wantshare = {}, q.share = {},
         q.phase \in {"idle", "flushed"}, q.held \subseteq req[r].held
  PROVE  AccessInv'
<1>1. Grown(r, q)
  BY DEF Grown, Nothing
<1>2. RequestInv(r, q)
  BY DEF RequestInv, PutOK, DropOK, GoneOK, TokOK, AcctOK, PhaseOK, Nothing
<1>3. \A p \in Requests \ {r} : Apart(q, req[p])
  BY DEF AccessInv, Exclusive, Apart
<1> QED
  BY <1>1, <1>2, <1>3, Unchanged, Moves

LEMMA RaiseKeeps ==
  ASSUME AccessInv, NEW r \in Requests, req' = [req EXCEPT ![r] = Raise(r)],
         UNCHANGED <<accounts, sessions, tokens, dead, issued>>,
         buckets' \in [BucketKeys -> Bucket \cup {None}], now' \in 0..MaxTime
  PROVE  AccessInv'
<1> DEFINE q == Raise(r)
<1>1. req[r] \in Request
  BY Unchanged
<1>2. q \in Request
  BY <1>1, IdleType DEF Raise, IdleRequest, Request, Phases
<1>3. /\ q.tx = Nothing /\ q.want = {} /\ q.wantshare = {} /\ q.share = {}
      /\ q.phase = "flushed" /\ q.held = req[r].held
  BY DEF Raise, IdleRequest
<1>4. req' = [req EXCEPT ![r] = q]
  OBVIOUS
<1> HIDE DEF q
<1> QED
  BY <1>2, <1>3, <1>4, Rests

\* Between its flushes a request keeps what it has.
LEMMA Continues ==
  ASSUME AccessInv, NEW r \in Requests, NEW q \in Request, req' = [req EXCEPT ![r] = q],
         UNCHANGED <<accounts, sessions, tokens, dead, issued>>,
         buckets' \in [BucketKeys -> Bucket \cup {None}], now' \in 0..MaxTime,
         q.tx = req[r].tx, q.held = req[r].held, q.share = req[r].share,
         q.want = {}, q.wantshare = {},
         \/ req[r].phase = "loaded" /\ q.phase = "payload" /\ q.own = req[r].own
         \/ req[r].phase \in {"loaded", "payload"} /\ q.phase = "flushed"
         \/ req[r].phase = "flushed" /\ q.phase = "committing"
  PROVE  AccessInv'
<1>1. Grown(r, q)
  BY DEF Grown, AccessInv, Counters, Ids
<1>2. RequestInv(r, req[r]) /\ \A l \in req[r].share : l[1] = "key"
  BY DEF AccessInv, RequestInv, PhaseOK
<1>3. \A lock : Sure(req[r], lock) => Sure(q, lock)
  BY DEF Sure, Has, Gets
<1>4. PutOK(r, q)
  BY <1>2, <1>3 DEF RequestInv, PutOK
<1>5. DropOK(r, q)
  BY <1>2 DEF RequestInv, DropOK, PhaseOK
<1>6. GoneOK(q)
  BY <1>2 DEF RequestInv, GoneOK, PhaseOK, Over
<1>7. TokOK(q) /\ AcctOK(r, q)
  BY <1>2, <1>3 DEF RequestInv, TokOK, AcctOK
<1>8. PhaseOK(q)
  BY <1>2 DEF RequestInv, PhaseOK
<1>9. \A p \in Requests \ {r} : Apart(q, req[p])
  BY DEF AccessInv, Exclusive, Apart
<1> QED
  BY <1>1, <1>2, <1>4, <1>5, <1>6, <1>7, <1>8, <1>9, Unchanged, Moves DEF RequestInv

-----------------------------------------------------------------------------
(* A flush gets the locks.                                                 *)

LEMMA LockedKeeps ==
  ASSUME AccessInv, NEW r \in Requests, req[r].phase \in {"loading", "waiting"}, ~Conflicts(r),
         \A lock \in req[r].needs : Writable(lock),
         req' = [req EXCEPT ![r] = Locked(r)],
         UNCHANGED <<accounts, sessions, tokens, issued, dead, buckets, now>>
  PROVE  AccessInv'
<1> DEFINE q == Locked(r)
<1>1. PICK x : x = req[r]
  OBVIOUS
<1>2. x \in Request /\ Wanted(r) \subseteq Lock /\ x.want \subseteq Wanted(r)
  <2>1. x \in Request
    BY <1>1, Unchanged
  <2>2. Referring(sessions, tokens) \subseteq Lock
    <3>1. sessions \subseteq Session /\ tokens \subseteq Token
      BY DEF AccessInv, TypeOK
    <3>2. \A s \in sessions : <<"session", s.id>> \in Lock
      BY <3>1 DEF Session, Lock
    <3>3. \A t \in tokens : <<"token", t.id>> \in Lock
      BY <3>1 DEF Token, Lock
    <3> QED
      BY <3>2, <3>3 DEF Referring
  <2>3. Wanted(r) \subseteq x.want \cup Referring(sessions, tokens) /\ x.want \subseteq Wanted(r)
    BY <1>1 DEF Wanted, Referring
  <2>4. x.want \subseteq Lock
    BY <2>1 DEF Request
  <2> QED
    BY <2>1, <2>2, <2>3, <2>4
<1>3. /\ q.tx = x.tx /\ q.held = x.held \cup Wanted(r) /\ q.share = x.share \cup x.wantshare
      /\ q.want = {} /\ q.wantshare = {} /\ q.needs = {}
      /\ x.phase = "loading" => q.phase = "loaded" /\ q.own = x.own
      /\ x.phase = "waiting" => q.phase = "flushed"
      /\ q \in Request
  <2>1. PICK h, s : h = x.held \cup Wanted(r) /\ s = x.share \cup x.wantshare
    OBVIOUS
  <2>2. h \subseteq Lock /\ s \subseteq Lock
    BY <1>2, <2>1 DEF Request
  <2>3. PICK y : y = [x EXCEPT !.held = h, !.share = s, !.want = {}, !.wantshare = {}, !.needs = {}]
    OBVIOUS
  <2>4. /\ y \in Request /\ y.tx = x.tx /\ y.held = h /\ y.share = s /\ y.want = {}
        /\ y.wantshare = {} /\ y.needs = {} /\ y.phase = x.phase /\ y.own = x.own
    BY <1>2, <2>2, <2>3 DEF Request
  <2>5. q = IF x.phase = "loading" THEN [y EXCEPT !.phase = "loaded"]
            ELSE [y EXCEPT !.phase = "flushed", !.op = "thread", !.own = 0]
    BY <1>1, <2>1, <2>3, <2>4 DEF Locked
  <2>6. "loaded" \in Phases /\ "flushed" \in Phases /\ "thread" \in Ops /\ 0 \in 0..MaxSessions
    BY AccessBounds DEF Phases, Ops
  <2> HIDE DEF q
  <2> QED
    BY <1>1, <2>1, <2>4, <2>5, <2>6 DEF Request
<1> HIDE DEF q
<1>4. RequestInv(r, x)
  BY <1>1 DEF AccessInv
<1>5. \A lock : Sure(x, lock) => Sure(q, lock)
  BY <1>1, <1>2, <1>3 DEF Sure, Has, Gets
<1>6. Grown(r, q)
  BY <1>1, <1>3 DEF Grown, AccessInv, Counters, Ids
<1>7. PutOK(r, q)
  BY <1>3, <1>4, <1>5 DEF RequestInv, PutOK
<1>8. DropOK(r, q)
  BY <1>2, <1>3, <1>4 DEF RequestInv, DropOK
<1>9. GoneOK(q)
  <2>1. ASSUME NEW a \in x.tx.gone, NEW y \in sessions, y.account = a
        PROVE  <<"session", y.id>> \in q.held
    <3>1. x.phase = "waiting"
      BY <1>1, <1>4, <2>1 DEF RequestInv, PhaseOK
    <3>2. y \in {s \in sessions : s.account \in x.tx.gone}
      BY <2>1
    <3>3. <<"session", y.id>> \in Wanted(r)
      BY <1>1, <3>1, <3>2 DEF Wanted, Referring
    <3> QED
      BY <1>3, <3>3
  <2> QED
    BY <1>2, <1>3, <1>4, <2>1 DEF RequestInv, GoneOK
<1>10. TokOK(q) /\ AcctOK(r, q)
  BY <1>3, <1>4, <1>5 DEF RequestInv, TokOK, AcctOK
<1>11. PhaseOK(q)
  BY <1>1, <1>3, <1>4 DEF RequestInv, PhaseOK
<1>12. \A p \in Requests \ {r} : Apart(q, req[p])
  BY <1>1, <1>3 DEF AccessInv, Exclusive, Apart, Conflicts, WaitsFor
<1>13. RequestInv(r, q) /\ req' = [req EXCEPT ![r] = q]
  BY <1>7, <1>8, <1>9, <1>10, <1>11 DEF RequestInv, q
<1> QED
  BY <1>3, <1>6, <1>12, <1>13, Unchanged, Moves

-----------------------------------------------------------------------------
(* Bodies.                                                                 *)

\* Ids are given out once.
LEMMA IdsGrow ==
  ASSUME AccessInv, NEW r \in Requests
  PROVE  /\ \A i \in Nat : issued["session"] < i => NewId(r, i) /\ i \notin Ids(req[r].tx.put)
         /\ \A a \in Nat : issued["account"] < a => NewAccount(r, a)
<1>1. Counters /\ issued["session"] \in Nat /\ issued["account"] \in Nat
  BY DEF AccessInv, TypeOK
<1>2. ASSUME NEW i \in Nat, issued["session"] < i
      PROVE  NewId(r, i) /\ i \notin Ids(req[r].tx.put)
  <2>1. ~(i <= issued["session"])
    BY <1>1, <1>2
  <2> QED
    BY <1>1, <2>1 DEF NewId, Counters
<1>3. ASSUME NEW a \in Nat, issued["account"] < a PROVE NewAccount(r, a)
  <2>1. ~(a <= issued["account"])
    BY <1>1, <1>3
  <2> QED
    BY <1>1, <2>1 DEF NewAccount, Counters
<1> QED
  BY <1>2, <1>3

\* What a request has when its body runs.
LEMMA AtTheBody ==
  ASSUME AccessInv, NEW r \in Requests, req[r].phase \in {"loaded", "payload"}
  PROVE  /\ req[r] \in Request
         /\ req[r].want = {} /\ req[r].wantshare = {}
         /\ req[r].tx.gone = {} /\ req[r].tx.acct = {} /\ req[r].tx.tok = {}
         /\ Own(r) \in req[r].tx.put /\ Own(r).id = req[r].own /\ Own(r) \in Session
         /\ NewId(r, req[r].own) \/ <<"session", req[r].own>> \in req[r].held
<1>1. PICK x : x = req[r]
  OBVIOUS
<1>2. x \in Request /\ RequestInv(r, x)
  BY <1>1, Unchanged DEF AccessInv
<1>3. /\ x.want = {} /\ x.wantshare = {}
      /\ x.tx.gone = {} /\ x.tx.acct = {} /\ x.tx.tok = {} /\ x.own \in Ids(x.tx.put)
      /\ \A l \in x.share : l[1] = "key"
  BY <1>1, <1>2 DEF RequestInv, PhaseOK
<1>4. Own(r) \in x.tx.put /\ Own(r).id = x.own
  <2>1. \E s \in x.tx.put : s.id = x.own
    BY <1>3 DEF Ids
  <2> QED
    BY <1>1, <2>1 DEF Own
<1>5. Own(r) \in Session
  BY <1>2, <1>4 DEF Request, Writes
<1>6. NewId(r, x.own) \/ <<"session", x.own>> \in x.held
  BY <1>1, <1>2, <1>3, <1>4 DEF RequestInv, PutOK, Sure, Has, Gets
<1> QED
  BY <1>1, <1>2, <1>3, <1>4, <1>5, <1>6

\* What a body adds to what the request has: new sessions, deletions, the rows
\* of other tables.
BodyAdds(r, q, new) ==
  /\ q.phase = "waiting" /\ q.held = req[r].held /\ q.share = req[r].share
  /\ new \subseteq Session /\ \A x, y \in new : x = y
  /\ q.tx.put = req[r].tx.put \cup new
  /\ \A x \in new :
       /\ issued["session"] < x.id /\ x.id <= issued'["session"]
       /\ \/ x.account = None
          \/ Sure(q, <<"key", x.account>>)
          \/ NewAccount(r, x.account) /\ x.account \in Ids(q.tx.acct)
  /\ \A i \in q.tx.drop \ (req[r].tx.drop \cup {req[r].own}) :
       i \in Ids(sessions) /\ <<"session", i>> \in q.want
  /\ \A l \in q.wantshare : l[1] = "key"
  /\ GoneOK(q) /\ TokOK(q) /\ AcctOK(r, q)
  /\ \A c \in q.tx.acct : \/ c.id \in Ids(accounts)
                          \/ issued["account"] < c.id /\ c.id <= issued'["account"]
  /\ q.tx.gone \subseteq Ids(accounts)

LEMMA Blocks ==
  ASSUME AccessInv, NEW r \in Requests, NEW q \in Request, req' = [req EXCEPT ![r] = q],
         UNCHANGED <<accounts, sessions, tokens, dead, now>>,
         buckets' \in [BucketKeys -> Bucket \cup {None}],
         issued' \in [{"session", "account", "token"} -> Nat],
         issued["session"] <= issued'["session"], issued["account"] <= issued'["account"],
         req[r].phase \in {"loaded", "payload"}, NEW new, BodyAdds(r, q, new)
  PROVE  AccessInv'
<1>0. /\ q.phase = "waiting" /\ q.held = req[r].held /\ q.share = req[r].share
      /\ new \subseteq Session /\ \A x, y \in new : x = y
      /\ q.tx.put = req[r].tx.put \cup new
      /\ \A x \in new :
           /\ issued["session"] < x.id /\ x.id <= issued'["session"]
           /\ \/ x.account = None
              \/ Sure(q, <<"key", x.account>>)
              \/ NewAccount(r, x.account) /\ x.account \in Ids(q.tx.acct)
      /\ q.tx.drop \subseteq req[r].tx.drop \cup Ids(sessions) \cup Ids(req[r].tx.put)
      /\ \A i \in q.tx.drop : \/ i \in req[r].tx.drop
                              \/ NewId(r, i)
                              \/ <<"session", i>> \in q.held \cup q.want
      /\ \A l \in q.wantshare : l[1] = "key"
      /\ GoneOK(q) /\ TokOK(q) /\ AcctOK(r, q)
      /\ \A c \in q.tx.acct : \/ c.id \in Ids(accounts)
                              \/ issued["account"] < c.id /\ c.id <= issued'["account"]
      /\ q.tx.gone \subseteq Ids(accounts)
  <2>1. req[r].own \in Ids(req[r].tx.put)
    BY AtTheBody DEF Ids
  <2>2. NewId(r, req[r].own) \/ <<"session", req[r].own>> \in req[r].held
    BY AtTheBody
  <2>3. \A i \in q.tx.drop : \/ i \in req[r].tx.drop
                             \/ NewId(r, i)
                             \/ <<"session", i>> \in q.held \cup q.want
    BY <2>2 DEF BodyAdds
  <2> QED
    BY <2>1, <2>3 DEF BodyAdds
<1>1. PICK x : x = req[r]
  OBVIOUS
<1>2. x \in Request /\ RequestInv(r, x) /\ x.phase \notin {"loading", "waiting"}
  BY <1>1, AtTheBody DEF AccessInv
<1>3. /\ issued["session"] \in Nat /\ issued'["session"] \in Nat
      /\ \A i \in Ids(sessions) \cup Ids(x.tx.put) \cup x.tx.drop :
           i \in Nat /\ i <= issued["session"]
  <2>1. issued["session"] \in Nat /\ issued'["session"] \in Nat
    BY Unchanged
  <2>2. \A i \in Ids(sessions) \cup Ids(x.tx.put) \cup x.tx.drop : i <= issued["session"]
    BY <1>1 DEF AccessInv, Counters
  <2>3. sessions \subseteq Session /\ x.tx.put \subseteq Session /\ x.tx.drop \subseteq Nat
    BY <1>2, AccessBounds DEF AccessInv, TypeOK, Request, Writes
  <2>4. \A s \in Session : s.id \in Nat
    BY DEF Session
  <2>5. \A i \in Ids(sessions) \cup Ids(x.tx.put) : i \in Nat
    BY <2>3, <2>4 DEF Ids
  <2> QED
    BY <2>1, <2>2, <2>3, <2>5
<1>4. Grown(r, q)
  <2>1. \A s \in q.tx.put : \/ s.id \in Ids(req[r].tx.put)
                            \/ issued["session"] < s.id /\ s.id <= issued'["session"]
    BY <1>0 DEF Ids
  <2>2. \A i \in q.tx.drop : i <= issued'["session"]
    <3> TAKE i \in q.tx.drop
    <3>1. i \in Nat /\ i <= issued["session"]
      BY <1>0, <1>1, <1>3
    <3> QED
      BY <1>3, <3>1
  <2> QED
    BY <1>0, <2>1, <2>2 DEF Grown
<1>5. \A lock : Sure(x, lock) => Sure(q, lock)
  BY <1>0, <1>1, <1>2 DEF Sure, Has, Gets
<1>6. \A s \in new : NewId(r, s.id) /\ s.id \notin Ids(x.tx.put)
  <2> TAKE s \in new
  <2>1. s.id \in Nat
    BY <1>0 DEF Session
  <2> QED
    BY <1>0, <1>1, <2>1, IdsGrow
<1>7. PutOK(r, q)
  <2>1. ASSUME NEW s \in x.tx.put
        PROVE  \/ /\ NewId(r, s.id)
                  /\ \/ s.account = None
                     \/ Sure(q, <<"key", s.account>>)
                     \/ NewAccount(r, s.account) /\ s.account \in Ids(q.tx.acct)
               \/ Sure(q, <<"session", s.id>>) /\ SameAccount(s)
    <3>1. Ids(x.tx.acct) = {}
      BY <1>1, AtTheBody DEF Ids
    <3> QED
      BY <1>2, <1>5, <3>1 DEF RequestInv, PutOK
  <2>2. \A s, t \in q.tx.put : s.id = t.id => s.account = t.account
    <3>1. \A s, t \in x.tx.put : s.id = t.id => s.account = t.account
      BY <1>2 DEF RequestInv, PutOK
    <3>2. \A s \in new, t \in x.tx.put : s.id # t.id
      BY <1>6 DEF Ids
    <3> QED
      BY <1>0, <1>1, <3>1, <3>2
  <2> QED
    BY <1>0, <1>1, <1>6, <2>1, <2>2 DEF PutOK
<1>8. DropOK(r, q)
  BY <1>0, <1>1, <1>2 DEF RequestInv, DropOK, PhaseOK
<1>9. PhaseOK(q)
  BY <1>0, <1>1, <1>2 DEF RequestInv, PhaseOK
<1>10. \A p \in Requests \ {r} : Apart(q, req[p])
  BY <1>0 DEF AccessInv, Exclusive, Apart
<1>11. RequestInv(r, q)
  BY <1>0, <1>7, <1>8, <1>9 DEF RequestInv
<1>12. now' \in 0..MaxTime
  BY Unchanged
<1> QED
  BY <1>4, <1>10, <1>11, <1>12, Moves

LEMMA HitType ==
  ASSUME AccessInv, NEW k \in BucketKeys, NEW name \in {"login", "signup", "password_reset"},
         Hit(k, name)
  PROVE  buckets' \in [BucketKeys -> Bucket \cup {None}]
<1>1. buckets \in [BucketKeys -> Bucket \cup {None}] /\ now \in 0..MaxTime
  BY Unchanged
<1>2. PICK b : b = buckets[k]
  OBVIOUS
<1>3. CASE Current(k, name)
  <2>1. b \in Bucket
    BY <1>1, <1>2, <1>3 DEF Current
  <2>2. PICK n : n = More(b.count, MaxHits[name])
    OBVIOUS
  <2>3. n \in Nat
    BY <2>1, <2>2 DEF Bucket, More
  <2>4. buckets' = [buckets EXCEPT ![k] = [b EXCEPT !.count = n]]
    BY <1>2, <1>3, <2>2 DEF Hit
  <2>5. [b EXCEPT !.count = n] \in Bucket
    BY <2>1, <2>3 DEF Bucket
  <2> QED
    BY <1>1, <2>4, <2>5
<1>4. CASE ~Current(k, name)
  <2>1. [count |-> 1, start |-> now] \in Bucket
    BY <1>1 DEF Bucket
  <2>2. buckets' = [buckets EXCEPT ![k] = [count |-> 1, start |-> now]]
    BY <1>4 DEF Hit
  <2> QED
    BY <1>1, <2>1, <2>2
<1> QED
  BY <1>3, <1>4

LEMMA DoneKeeps ==
  ASSUME AccessInv, NEW r \in Requests, req[r].phase \in {"loaded", "payload"},
         req' = [req EXCEPT ![r] = Done(r)],
         UNCHANGED <<accounts, sessions, tokens, dead, issued, now>>,
         buckets' \in [BucketKeys -> Bucket \cup {None}]
  PROVE  AccessInv'
<1> DEFINE q == Done(r)
<1>1. PICK x : x = req[r] /\ x \in Request
  BY Unchanged
<1>2. "flushed" \in Phases /\ "thread" \in Ops /\ 0 \in 0..MaxSessions
  BY AccessBounds DEF Phases, Ops
<1>3. q = [x EXCEPT !.phase = "flushed", !.op = "thread", !.own = 0]
  BY <1>1 DEF Done
<1>4. req' = [req EXCEPT ![r] = q]
  OBVIOUS
<1> HIDE DEF q
<1>5. /\ q \in Request /\ q.phase = "flushed" /\ q.tx = x.tx /\ q.held = x.held
      /\ q.share = x.share /\ q.want = x.want /\ q.wantshare = x.wantshare
  BY <1>1, <1>2, <1>3 DEF Request
<1>6. x.want = {} /\ x.wantshare = {}
  BY <1>1, AtTheBody
<1>7. now' \in 0..MaxTime
  BY Unchanged
<1>8. /\ q.tx = req[r].tx /\ q.held = req[r].held /\ q.share = req[r].share
      /\ q.want = {} /\ q.wantshare = {}
  BY <1>1, <1>5, <1>6
<1>9. q \in Request /\ q.phase = "flushed"
  BY <1>5
<1> QED
  BY <1>4, <1>7, <1>8, <1>9, Continues

LEMMA AwaitKeeps ==
  ASSUME AccessInv, NEW r \in Requests, req[r].phase = "loaded",
         NEW op \in Ops, NEW allowed, AwaitPayload(r, op, allowed),
         UNCHANGED <<accounts, sessions, tokens, dead, issued, now>>,
         buckets' \in [BucketKeys -> Bucket \cup {None}]
  PROVE  AccessInv'
<1>1. PICK x : x = req[r] /\ x \in Request
  BY Unchanged
<1>2. PICK q : q = [x EXCEPT !.phase = "payload", !.op = op]
  OBVIOUS
<1>3. "payload" \in Phases
  BY DEF Phases
<1>4. /\ q \in Request /\ q.phase = "payload" /\ q.tx = x.tx /\ q.held = x.held
      /\ q.share = x.share /\ q.want = x.want /\ q.wantshare = x.wantshare /\ q.own = x.own
  BY <1>1, <1>2, <1>3 DEF Request
<1>5. x.want = {} /\ x.wantshare = {}
  BY <1>1, AtTheBody
<1>6. CASE req' = [req EXCEPT ![r] = q]
  BY <1>1, <1>4, <1>5, <1>6, Unchanged, Continues
<1>7. CASE req' = [req EXCEPT ![r] = Raise(r)]
  BY <1>7, Unchanged, RaiseKeeps
<1>8. req' = [req EXCEPT ![r] = q] \/ req' = [req EXCEPT ![r] = Raise(r)]
  BY <1>1, <1>2, Unchanged DEF AwaitPayload
<1> QED
  BY <1>6, <1>7, <1>8

LEMMA BeginKeeps == ASSUME AccessInv, NEW r \in Requests, Begin(r) PROVE AccessInv'
<1>1. /\ req[r].phase = "loaded"
      /\ UNCHANGED <<accounts, sessions, tokens, dead, issued, now>>
      /\ "login" \in Ops /\ "signup" \in Ops /\ "signup" \in BucketKeys
  BY DEF Begin, Ops, Async, BucketKeys
<1>2. CASE AwaitPayload(r, "login", Peek("login", "login")) /\ UNCHANGED buckets
  BY <1>1, <1>2, AwaitKeeps, Unchanged
<1>3. CASE AwaitPayload(r, "signup", HitAllowed("signup", "signup")) /\ Hit("signup", "signup")
  BY <1>1, <1>3, AwaitKeeps, HitType
<1> QED
  BY <1>2, <1>3 DEF Begin

LEMMA AnswerKeeps == ASSUME AccessInv, NEW r \in Requests, Answer(r) PROVE AccessInv'
BY DoneKeeps, RaiseKeeps, Unchanged DEF Answer, AtBody

LEMMA LoginWrongKeeps ==
  ASSUME AccessInv, NEW r \in Requests, NEW e \in Emails, NEW p \in Passwords, LoginWrong(r, e, p)
  PROVE  AccessInv'
<1>1. buckets' \in [BucketKeys -> Bucket \cup {None}]
  BY HitType DEF LoginWrong, BucketKeys
<1> QED
  BY <1>1, DoneKeeps DEF LoginWrong, ReadyWith

LEMMA ExitKeeps == ASSUME AccessInv, NEW r \in Requests, Exit(r) PROVE AccessInv'
<1>1. PICK x : x = req[r] /\ x \in Request
  BY Unchanged
<1>2. PICK q : q = [x EXCEPT !.phase = "committing"]
  OBVIOUS
<1>3. "committing" \in Phases
  BY DEF Phases
<1>4. /\ q \in Request /\ q.phase = "committing" /\ q.tx = x.tx /\ q.held = x.held
      /\ q.share = x.share /\ q.want = x.want /\ q.wantshare = x.wantshare
  BY <1>1, <1>2, <1>3 DEF Request
<1>5. x.phase = "flushed" /\ req' = [req EXCEPT ![r] = q]
      /\ UNCHANGED <<accounts, sessions, tokens, issued, dead, buckets, now>>
  BY <1>1, <1>2 DEF Exit
<1>6. x.want = {} /\ x.wantshare = {}
  BY <1>1, <1>5 DEF AccessInv, RequestInv, PhaseOK
<1> QED
  BY <1>1, <1>4, <1>5, <1>6, Unchanged, Continues

LEMMA FlushKeeps == ASSUME AccessInv, NEW r \in Requests, Flush(r) PROVE AccessInv'
<1>1. CASE \A lock \in req[r].needs : Writable(lock)
  BY <1>1, LockedKeeps DEF Flush
<1>2. CASE ~(\A lock \in req[r].needs : Writable(lock))
  BY <1>2, RaiseKeeps, Unchanged DEF Flush
<1> QED
  BY <1>1, <1>2

LEMMA DeadlockKeeps == ASSUME AccessInv, NEW r \in Requests, Deadlock(r) PROVE AccessInv'
BY RaiseKeeps, Unchanged DEF Deadlock

LEMMA CommitFailsKeeps == ASSUME AccessInv, NEW r \in Requests, CommitFails(r) PROVE AccessInv'
<1>1. /\ IdleRequest.tx = Nothing /\ IdleRequest.want = {} /\ IdleRequest.wantshare = {}
      /\ IdleRequest.share = {} /\ IdleRequest.held = {} /\ IdleRequest.phase = "idle"
  BY DEF IdleRequest
<1> QED
  BY <1>1, IdleType, Rests, Unchanged DEF CommitFails

LEMMA LogoutKeeps == ASSUME AccessInv, NEW r \in Requests, Logout(r) PROVE AccessInv'
<1>1. PICK x : x = req[r] /\ x \in Request
  BY Unchanged
<1>2. x.phase = "loaded"
  BY <1>1 DEF Logout, Ready
<1>3. x.own \in 1..MaxSessions
  BY <1>1, <1>2, AtTheBody DEF Session, Ids
<1>4. PICK t : t = [x.tx EXCEPT !.drop = @ \cup {x.own}]
  OBVIOUS
<1>5. /\ t \in Writes /\ t.put = x.tx.put /\ t.drop = x.tx.drop \cup {x.own}
      /\ t.acct = x.tx.acct /\ t.gone = x.tx.gone /\ t.tok = x.tx.tok
  BY <1>1, <1>3, <1>4 DEF Request, Writes
<1>6. PICK q : q = [x EXCEPT !.phase = "waiting", !.tx = t]
  OBVIOUS
<1>7. "waiting" \in Phases
  BY DEF Phases
<1>8. /\ q \in Request /\ q.phase = "waiting" /\ q.tx = t /\ q.held = x.held /\ q.share = x.share
      /\ q.want = x.want /\ q.wantshare = x.wantshare
  BY <1>1, <1>5, <1>6, <1>7 DEF Request
<1>9. req' = [req EXCEPT ![r] = q]
  BY <1>1, <1>4, <1>6 DEF Logout
<1>10. /\ x.wantshare = {} /\ t.gone = {} /\ t.acct = {} /\ t.tok = {}
       /\ NewId(r, x.own) \/ <<"session", x.own>> \in x.held
  BY <1>1, <1>2, <1>5, AtTheBody
<1>11. GoneOK(q) /\ TokOK(q) /\ AcctOK(r, q)
  BY <1>8, <1>10 DEF GoneOK, TokOK, AcctOK
<1>12. BodyAdds(r, q, {})
  BY <1>1, <1>5, <1>8, <1>10, <1>11 DEF BodyAdds
<1>13. UNCHANGED <<accounts, sessions, tokens, issued, dead, buckets, now>>
  BY DEF Logout
<1> QED
  BY <1>1, <1>2, <1>8, <1>9, <1>12, <1>13, Unchanged, Blocks

LEMMA RotatedIs ==
  ASSUME AccessInv, NEW r \in Requests, req[r].phase \in {"loaded", "payload"},
         NEW a \in 1..MaxAccounts, NEW n \in 1..MaxSessions, NEW q, q = Rotated(r, a, n)
  PROVE  /\ q \in Request /\ q.phase = "waiting" /\ q.held = req[r].held /\ q.share = req[r].share
         /\ q.want = {} /\ q.wantshare = {<<"key", a>>} /\ q.needs = {<<"key", a>>}
         /\ q.tx.put = req[r].tx.put \cup {Fresh(a, n)}
         /\ q.tx.drop \subseteq req[r].tx.drop \cup {req[r].own}
         /\ q.tx.acct = {} /\ q.tx.gone = {} /\ q.tx.tok = {} /\ q.tx \in Writes
         /\ Fresh(a, n) \in Session /\ Fresh(a, n).id = n /\ Fresh(a, n).account = a
<1>1. PICK x : x = req[r] /\ x \in Request
  BY Unchanged
<1>2. /\ x.want = {} /\ x.tx.gone = {} /\ x.tx.acct = {} /\ x.tx.tok = {}
      /\ x.own \in 1..MaxSessions /\ x.tx \in Writes /\ x.op \in Ops
  BY <1>1, AtTheBody DEF Request, Session
<1>3. PICK f : f = Fresh(a, n)
  OBVIOUS
<1>4. f \in Session /\ f.id = n /\ f.account = a
  <2>1. now + SessionTTL \in Nat
    BY Unchanged, AccessBounds
  <2> QED
    BY <1>3, <2>1 DEF Fresh, Session
<1>5. PICK o : o = (IF Own(r).account = None THEN {x.own} ELSE {})
  OBVIOUS
<1>6. PICK t : t = [x.tx EXCEPT !.put = @ \cup {f}, !.drop = @ \cup o]
  OBVIOUS
<1>7. /\ t \in Writes /\ t.put = x.tx.put \cup {f} /\ t.drop = x.tx.drop \cup o
      /\ t.acct = {} /\ t.gone = {} /\ t.tok = {} /\ o \subseteq {x.own}
  BY <1>2, <1>4, <1>5, <1>6 DEF Writes
<1>8. PICK k : k = {<<"key", a>>}
  OBVIOUS
<1>9. k \subseteq Lock
  BY <1>8 DEF Lock
<1>10. q = [x EXCEPT !.phase = "waiting", !.op = x.op, !.tx = t, !.wantshare = k, !.needs = k]
  <2>1. Blocking(r, x.op) = [x EXCEPT !.phase = "waiting", !.op = x.op]
    BY <1>1 DEF Blocking
  <2>2. PICK y : y = [x EXCEPT !.phase = "waiting", !.op = x.op]
    OBVIOUS
  <2>3. y.tx = x.tx /\ y \in Request
    BY <1>1, <1>2, <2>2 DEF Request, Phases
  <2>4. q = [y EXCEPT !.tx.put = @ \cup {f}, !.tx.drop = @ \cup o, !.wantshare = k, !.needs = k]
    BY <1>1, <1>3, <1>5, <1>8, <2>1, <2>2 DEF Rotated, ForeignKey
  <2>5. q = [y EXCEPT !.tx = t, !.wantshare = k, !.needs = k]
    BY <1>6, <2>3, <2>4 DEF Request, Writes
  <2> QED
    BY <2>2, <2>5
<1>11. "waiting" \in Phases
  BY DEF Phases
<1>12. /\ q \in Request /\ q.phase = "waiting" /\ q.held = x.held /\ q.share = x.share
       /\ q.want = x.want /\ q.wantshare = k /\ q.needs = k /\ q.tx = t
  <2>1. PICK o2 : o2 = x.op
    OBVIOUS
  <2>2. q = [x EXCEPT !.phase = "waiting", !.op = o2, !.tx = t, !.wantshare = k, !.needs = k]
    BY <1>10, <2>1
  <2>3. x \in Request /\ o2 \in Ops /\ t \in Writes /\ k \subseteq Lock
    BY <1>1, <1>2, <1>7, <1>9, <2>1
  <2> QED
    BY <1>11, <2>2, <2>3 DEF Request
<1> QED
  BY <1>1, <1>2, <1>3, <1>4, <1>7, <1>8, <1>12

LEMMA LoginRightKeeps ==
  ASSUME AccessInv, NEW r \in Requests, NEW e \in Emails, NEW p \in Passwords, LoginRight(r, e, p)
  PROVE  AccessInv'
<1> DEFINE n == issued["session"] + 1
<1>1. /\ req[r].phase = "payload" /\ n <= MaxSessions
      /\ UNCHANGED <<accounts, sessions, tokens, dead, buckets, now>>
      /\ issued' = [issued EXCEPT !["session"] = n]
      /\ \E acc \in accounts : req' = [req EXCEPT ![r] = Rotated(r, acc.id, n)]
  BY DEF LoginRight, ReadyWith
<1>2. PICK acc \in accounts : req' = [req EXCEPT ![r] = Rotated(r, acc.id, n)]
  BY <1>1
<1>3. PICK a : a = acc.id
  OBVIOUS
<1>4. PICK q : q = Rotated(r, a, n)
  OBVIOUS
<1>5. a \in 1..MaxAccounts
  BY <1>3 DEF AccessInv, TypeOK, Account
<1>6. issued["session"] \in Nat /\ n \in 1..MaxSessions
  BY <1>1, Unchanged, AccessBounds
<1>7. /\ issued' \in [{"session", "account", "token"} -> Nat]
      /\ issued["session"] < n /\ issued'["session"] = n /\ issued'["account"] = issued["account"]
  BY <1>1, <1>6, Unchanged
<1>8. req' = [req EXCEPT ![r] = q]
  BY <1>2, <1>3, <1>4
<1> HIDE DEF n
<1>9. /\ q \in Request /\ q.phase = "waiting" /\ q.held = req[r].held /\ q.share = req[r].share
      /\ q.want = {} /\ q.wantshare = {<<"key", a>>} /\ q.needs = {<<"key", a>>}
      /\ q.tx.put = req[r].tx.put \cup {Fresh(a, n)}
      /\ q.tx.drop \subseteq req[r].tx.drop \cup {req[r].own}
      /\ q.tx.acct = {} /\ q.tx.gone = {} /\ q.tx.tok = {}
      /\ Fresh(a, n) \in Session /\ Fresh(a, n).id = n /\ Fresh(a, n).account = a
  BY <1>1, <1>4, <1>5, <1>6, RotatedIs
<1>10. Sure(q, <<"key", a>>)
  BY <1>9 DEF Sure, Gets
<1>11. GoneOK(q) /\ TokOK(q) /\ AcctOK(r, q)
  BY <1>9 DEF GoneOK, TokOK, AcctOK
<1>12. issued["session"] <= issued'["session"] /\ issued["account"] <= issued'["account"]
  BY <1>6, <1>7, Unchanged
<1>13. BodyAdds(r, q, {Fresh(a, n)})
  <2>1. PICK f : f = Fresh(a, n)
    OBVIOUS
  <2>2. \A x \in {f} : /\ issued["session"] < x.id /\ x.id <= issued'["session"]
                       /\ Sure(q, <<"key", x.account>>)
    BY <1>6, <1>7, <1>9, <1>10, <2>1
  <2>3. \A l \in q.wantshare : l[1] = "key"
    BY <1>9
  <2>4. BodyAdds(r, q, {f})
    BY <1>9, <1>11, <2>1, <2>2, <2>3 DEF BodyAdds
  <2> QED
    BY <2>1, <2>4
<1> QED
  BY <1>1, <1>7, <1>8, <1>9, <1>12, <1>13, Unchanged, Blocks

LEMMA SignupKeeps ==
  ASSUME AccessInv, NEW r \in Requests, NEW e \in Emails, NEW p \in Passwords, Signup(r, e, p)
  PROVE  AccessInv'
<1> DEFINE a == issued["account"] + 1
           n == issued["session"] + 1
           c == [id |-> a, email |-> e, pass |-> p]
           lock == {<<"email", e>>}
<1>1. /\ req[r].phase = "payload" /\ n <= MaxSessions /\ a <= MaxAccounts
      /\ UNCHANGED <<accounts, sessions, tokens, dead, buckets, now>>
      /\ issued' = [issued EXCEPT !["account"] = a, !["session"] = n]
      /\ req' = [req EXCEPT ![r] =
           [Rotated(r, a, n) EXCEPT !.tx.acct = {c}, !.want = lock, !.wantshare = {},
                                    !.needs = lock]]
  BY DEF Signup, ReadyWith
<1>2. PICK y : y = Rotated(r, a, n)
  OBVIOUS
<1>3. PICK q : q = [y EXCEPT !.tx.acct = {c}, !.want = lock, !.wantshare = {}, !.needs = lock]
  OBVIOUS
<1>4. req' = [req EXCEPT ![r] = q]
  BY <1>1, <1>2, <1>3
<1>5. /\ issued["session"] \in Nat /\ n \in 1..MaxSessions /\ issued["session"] < n
      /\ issued["account"] \in Nat /\ a \in 1..MaxAccounts /\ issued["account"] < a /\ a \in Nat
  BY <1>1, Unchanged, AccessBounds
<1>6. /\ issued' \in [{"session", "account", "token"} -> Nat]
      /\ issued'["session"] = n /\ issued'["account"] = a
  BY <1>1, <1>5, Unchanged
<1>7. lock \subseteq Lock
  BY DEF Lock
<1>8. c \in Account /\ c.id = a /\ c.email = e
  BY <1>5 DEF Account
<1> HIDE DEF n, a, c
<1>9. /\ y \in Request /\ y.phase = "waiting" /\ y.held = req[r].held /\ y.share = req[r].share
      /\ y.tx.put = req[r].tx.put \cup {Fresh(a, n)}
      /\ y.tx.drop \subseteq req[r].tx.drop \cup {req[r].own}
      /\ y.tx.gone = {} /\ y.tx.tok = {} /\ y.tx \in Writes
      /\ Fresh(a, n) \in Session /\ Fresh(a, n).id = n /\ Fresh(a, n).account = a
  BY <1>1, <1>2, <1>5, RotatedIs
<1>10. PICK t : t = [y.tx EXCEPT !.acct = {c}]
  OBVIOUS
<1>11. /\ t \in Writes /\ t.put = y.tx.put /\ t.drop = y.tx.drop
       /\ t.acct = {c} /\ t.gone = {} /\ t.tok = {}
  BY <1>8, <1>9, <1>10 DEF Writes
<1>12. /\ q \in Request /\ q.phase = "waiting" /\ q.held = req[r].held /\ q.share = req[r].share
       /\ q.want = lock /\ q.wantshare = {} /\ q.needs = lock /\ q.tx = t
  <2>1. q = [y EXCEPT !.tx = t, !.want = lock, !.wantshare = {}, !.needs = lock]
    BY <1>3, <1>10
  <2> HIDE DEF lock
  <2> QED
    BY <1>7, <1>9, <1>11, <2>1 DEF Request
<1>13. Sure(q, <<"email", e>>)
  BY <1>12 DEF Sure, Gets
<1>14. NewAccount(r, a)
  BY <1>5, IdsGrow
<1>15. GoneOK(q) /\ TokOK(q) /\ AcctOK(r, q)
  BY <1>8, <1>11, <1>12, <1>13, <1>14 DEF GoneOK, TokOK, AcctOK
<1>16. BodyAdds(r, q, {Fresh(a, n)})
  <2>1. PICK f : f = Fresh(a, n)
    OBVIOUS
  <2>2. a \in Ids(q.tx.acct)
    BY <1>8, <1>11, <1>12 DEF Ids
  <2>3. \A x \in {f} : /\ issued["session"] < x.id /\ x.id <= issued'["session"]
                       /\ NewAccount(r, x.account) /\ x.account \in Ids(q.tx.acct)
    BY <1>5, <1>6, <1>9, <1>14, <2>1, <2>2
  <2>4. \A d \in q.tx.acct : issued["account"] < d.id /\ d.id <= issued'["account"]
    BY <1>5, <1>6, <1>8, <1>11, <1>12
  <2>5. BodyAdds(r, q, {f})
    BY <1>9, <1>11, <1>12, <1>15, <2>1, <2>3, <2>4 DEF BodyAdds
  <2> QED
    BY <2>1, <2>5
<1>17. issued["session"] <= issued'["session"] /\ issued["account"] <= issued'["account"]
  BY <1>5, <1>6
<1> QED
  BY <1>1, <1>4, <1>6, <1>12, <1>16, <1>17, Unchanged, Blocks

LEMMA DeleteAccountKeeps ==
  ASSUME AccessInv, NEW r \in Requests, DeleteAccount(r) PROVE AccessInv'
<1>1. PICK x : x = req[r] /\ x \in Request
  BY Unchanged
<1>2. PICK acc \in accounts :
        req' = [req EXCEPT ![r] =
          [@ EXCEPT !.phase = "waiting", !.tx.gone = {acc.id},
             !.want = {<<"account", acc.id>>, <<"key", acc.id>>, <<"email", acc.email>>}]]
  BY DEF DeleteAccount
<1>3. PICK a, w : a = acc.id /\ w = {<<"account", acc.id>>, <<"key", acc.id>>, <<"email", acc.email>>}
  OBVIOUS
<1>4. a \in 1..MaxAccounts /\ acc.email \in Emails
  BY <1>3 DEF AccessInv, TypeOK, Account
<1>5. w \subseteq Lock
  BY <1>3, <1>4 DEF Lock
<1>6. PICK t : t = [x.tx EXCEPT !.gone = {a}]
  OBVIOUS
<1>7. PICK q : q = [x EXCEPT !.phase = "waiting", !.tx = t, !.want = w]
  OBVIOUS
<1>8. req' = [req EXCEPT ![r] = q]
  BY <1>1, <1>2, <1>3, <1>6, <1>7
<1>9. req[r].phase = "loaded" /\ UNCHANGED <<accounts, sessions, tokens, issued, dead, buckets, now>>
  BY DEF DeleteAccount, Ready
<1>10. x.tx \in Writes /\ x.tx.acct = {} /\ x.tx.tok = {} /\ x.wantshare = {}
  BY <1>1, <1>9, AtTheBody DEF Request
<1>11. /\ t \in Writes /\ t.put = x.tx.put /\ t.drop = x.tx.drop
       /\ t.acct = {} /\ t.gone = {a} /\ t.tok = {}
  BY <1>4, <1>6, <1>10 DEF Writes
<1>12. "waiting" \in Phases
  BY DEF Phases
<1>13. /\ q \in Request /\ q.phase = "waiting" /\ q.held = x.held /\ q.share = x.share
       /\ q.want = w /\ q.wantshare = {} /\ q.tx = t
  BY <1>1, <1>5, <1>7, <1>10, <1>11, <1>12 DEF Request
<1>14. GoneOK(q) /\ TokOK(q) /\ AcctOK(r, q)
  BY <1>3, <1>11, <1>13 DEF GoneOK, TokOK, AcctOK, Over
<1>15. a \in Ids(accounts)
  BY <1>3 DEF Ids
<1>16. BodyAdds(r, q, {})
  BY <1>1, <1>11, <1>13, <1>14, <1>15 DEF BodyAdds
<1> QED
  BY <1>8, <1>9, <1>13, <1>16, Unchanged, Blocks

LEMMA ForgotKeeps ==
  ASSUME AccessInv, NEW r \in Requests, NEW e \in Emails, Forgot(r, e)
  PROVE  AccessInv'
<1> DEFINE n == issued["token"] + 1
           of == {acc \in accounts : acc.email = e}
           toks == {[id |-> n, account |-> a, exp |-> now + ResetTTL, used |-> FALSE] : a \in Ids(of)}
           keys == UNION {ForeignKey(a) : a \in Ids(of)}
<1>1. /\ req[r].phase = "loaded"
      /\ UNCHANGED <<accounts, sessions, tokens, dead, now>>
      /\ buckets' \in [BucketKeys -> Bucket \cup {None}]
  BY HitType DEF Forgot, Ready, BucketKeys
<1>2. CASE UNCHANGED issued /\ req' = [req EXCEPT ![r] = Raise(r)]
  BY <1>1, <1>2, Unchanged, RaiseKeeps
<1>3. CASE UNCHANGED issued /\ req' = [req EXCEPT ![r] = Done(r)]
  BY <1>1, <1>3, DoneKeeps
<1>4. CASE /\ n <= MaxTokens /\ issued' = [issued EXCEPT !["token"] = n]
           /\ req' = [req EXCEPT ![r] = [Blocking(r, "forgot") EXCEPT
                        !.tx.tok = toks, !.wantshare = keys, !.needs = keys]]
  <2>1. PICK x : x = req[r] /\ x \in Request
    BY Unchanged
  <2>2. issued["token"] \in Nat /\ n \in 1..MaxTokens
    BY <1>4, Unchanged, AccessBounds
  <2>3. /\ issued' \in [{"session", "account", "token"} -> Nat]
        /\ issued'["session"] = issued["session"] /\ issued'["account"] = issued["account"]
    BY <1>4, <2>2, Unchanged
  <2>4. \A a \in Ids(of) : a \in 1..MaxAccounts
    BY DEF Ids, AccessInv, TypeOK, Account
  <2> HIDE DEF of
  <2>5. toks \subseteq Token
    <3>1. now + ResetTTL \in Nat
      BY Unchanged, AccessBounds
    <3>2. \A a \in Ids(of) : [id |-> n, account |-> a, exp |-> now + ResetTTL, used |-> FALSE] \in Token
      <4> HIDE DEF n
      <4> QED
        BY <2>2, <2>4, <3>1 DEF Token
    <3> QED
      BY <3>2
  <2>6. keys \subseteq Lock /\ \A a \in Ids(of) : <<"key", a>> \in keys
    <3>1. \A a \in Ids(of) : ForeignKey(a) \subseteq Lock /\ <<"key", a>> \in ForeignKey(a)
      BY <2>4 DEF ForeignKey, Lock
    <3> QED
      BY <3>1
  <2>7. \A l \in keys : l[1] = "key"
    BY DEF ForeignKey
  <2>8. \A t \in toks : <<"key", t.account>> \in keys
    BY <2>6
  <2>9. PICK T, K : T = toks /\ K = keys
    OBVIOUS
  <2> HIDE DEF toks, keys, n
  <2>10. x.tx \in Writes /\ x.tx.acct = {} /\ x.tx.gone = {} /\ x.want = {}
    BY <1>1, <2>1, AtTheBody DEF Request
  <2>11. PICK t : t = [x.tx EXCEPT !.tok = T]
    OBVIOUS
  <2>12. /\ t \in Writes /\ t.put = x.tx.put /\ t.drop = x.tx.drop
         /\ t.acct = {} /\ t.gone = {} /\ t.tok = T
    BY <2>5, <2>9, <2>10, <2>11 DEF Writes
  <2>13. PICK q : q = [x EXCEPT !.phase = "waiting", !.op = "forgot", !.tx = t,
                                !.wantshare = K, !.needs = K]
    OBVIOUS
  <2>14. "waiting" \in Phases /\ "forgot" \in Ops
    BY DEF Phases, Ops, Async
  <2>15. /\ q \in Request /\ q.phase = "waiting" /\ q.held = x.held /\ q.share = x.share
         /\ q.want = {} /\ q.wantshare = K /\ q.needs = K /\ q.tx = t
    BY <2>1, <2>6, <2>9, <2>10, <2>12, <2>13, <2>14 DEF Request
  <2>16. req' = [req EXCEPT ![r] = q]
    <3>1. PICK y : y = [x EXCEPT !.phase = "waiting", !.op = "forgot"]
      OBVIOUS
    <3>2. y.tx = x.tx
      BY <2>1, <3>1 DEF Request
    <3>3. q = [y EXCEPT !.tx.tok = T, !.wantshare = K, !.needs = K]
      BY <2>11, <2>13, <3>1, <3>2
    <3>4. y = Blocking(r, "forgot")
      BY <2>1, <3>1 DEF Blocking
    <3> QED
      BY <1>4, <2>9, <3>3, <3>4
  <2>17. GoneOK(q) /\ TokOK(q) /\ AcctOK(r, q)
    BY <2>8, <2>9, <2>12, <2>15 DEF GoneOK, TokOK, AcctOK, Sure, Gets
  <2>18. BodyAdds(r, q, {})
    BY <2>1, <2>7, <2>9, <2>12, <2>15, <2>17 DEF BodyAdds
  <2>19. issued["session"] <= issued'["session"] /\ issued["account"] <= issued'["account"]
    BY <2>3
  <2> QED
    BY <1>1, <2>3, <2>15, <2>16, <2>18, <2>19, Blocks
<1> QED
  BY <1>2, <1>3, <1>4 DEF Forgot

LEMMA ResetKeeps ==
  ASSUME AccessInv, NEW r \in Requests, NEW p \in Passwords, Reset(r, p)
  PROVE  AccessInv'
<1>1. PICK x : x = req[r] /\ x \in Request
  BY Unchanged
<1>2. req[r].phase = "loaded" /\ UNCHANGED <<accounts, sessions, tokens, issued, dead, buckets, now>>
  BY DEF Reset, Ready
<1> DEFINE mine(a) == {s \in sessions : s.account = a}
           rows(a) == {<<"session", i>> : i \in Ids(mine(a))}
<1>3. PICK t \in tokens, acc \in accounts :
        /\ t.account = acc.id
        /\ req' = [req EXCEPT ![r] =
             [Blocking(r, "reset") EXCEPT
                !.tx.acct = {[acc EXCEPT !.pass = p]},
                !.tx.tok = {[t EXCEPT !.used = TRUE]},
                !.tx.drop = @ \cup Ids(mine(acc.id)),
                !.want = {<<"account", acc.id>>, <<"token", t.id>>} \cup rows(acc.id),
                !.needs = {<<"account", acc.id>>, <<"token", t.id>>}]]
  BY DEF Reset
<1>4. PICK c, k : c = [acc EXCEPT !.pass = p] /\ k = [t EXCEPT !.used = TRUE]
  OBVIOUS
<1>5. /\ acc \in Account /\ t \in Token
      /\ c \in Account /\ c.id = acc.id /\ c.email = acc.email
      /\ k \in Token /\ k.account = acc.id
  BY <1>3, <1>4 DEF AccessInv, TypeOK, Account, Token
<1>6. PICK ids, w, need :
        /\ ids = Ids(mine(acc.id))
        /\ w = {<<"account", acc.id>>, <<"token", t.id>>} \cup rows(acc.id)
        /\ need = {<<"account", acc.id>>, <<"token", t.id>>}
  OBVIOUS
<1>7. /\ ids \subseteq Ids(sessions) /\ ids \subseteq 1..MaxSessions
      /\ \A i \in ids : <<"session", i>> \in w
      /\ w \subseteq Lock /\ need \subseteq Lock
      /\ <<"account", acc.id>> \in w /\ <<"account", acc.id>> \in need
  <2>1. \A s \in sessions : s.id \in 1..MaxSessions
    BY DEF AccessInv, TypeOK, Session
  <2>2. ids \subseteq Ids(sessions) /\ ids \subseteq 1..MaxSessions
    BY <1>6, <2>1 DEF Ids
  <2>3. \A i \in ids : <<"session", i>> \in w
    BY <1>6
  <2>4. \A l \in rows(acc.id) : l \in Lock
    BY <1>6, <2>2 DEF Lock
  <2>5. acc.id \in 1..MaxAccounts /\ t.id \in 1..MaxTokens
    BY <1>5 DEF Account, Token
  <2>6. need \subseteq Lock
    BY <1>6, <2>5 DEF Lock
  <2> QED
    BY <1>6, <2>2, <2>3, <2>4, <2>6
<1>8. /\ x.tx \in Writes /\ x.tx.gone = {} /\ x.want = {} /\ x.wantshare = {}
      /\ \A i \in x.tx.drop : i \in 1..MaxSessions
  BY <1>1, <1>2, AtTheBody DEF Request, Writes
<1>9. PICK u : u = [x.tx EXCEPT !.acct = {c}, !.tok = {k}, !.drop = @ \cup ids]
  OBVIOUS
<1>10. /\ u \in Writes /\ u.put = x.tx.put /\ u.drop = x.tx.drop \cup ids
       /\ u.acct = {c} /\ u.gone = {} /\ u.tok = {k}
  BY <1>5, <1>7, <1>8, <1>9 DEF Writes
<1>11. PICK q : q = [x EXCEPT !.phase = "waiting", !.op = "reset", !.tx = u,
                              !.want = w, !.needs = need]
  OBVIOUS
<1>12. "waiting" \in Phases /\ "reset" \in Ops
  BY DEF Phases, Ops, Async
<1>13. /\ q \in Request /\ q.phase = "waiting" /\ q.held = x.held /\ q.share = x.share
       /\ q.want = w /\ q.wantshare = {} /\ q.needs = need /\ q.tx = u
  BY <1>1, <1>7, <1>8, <1>10, <1>11, <1>12 DEF Request
<1>14. req' = [req EXCEPT ![r] = q]
  <2>1. PICK y : y = [x EXCEPT !.phase = "waiting", !.op = "reset"]
    OBVIOUS
  <2>2. y.tx = x.tx /\ y \in Request
    BY <1>1, <1>12, <2>1 DEF Request
  <2>3. y = Blocking(r, "reset")
    BY <1>1, <2>1 DEF Blocking
  <2>4. req' = [req EXCEPT ![r] =
          [y EXCEPT !.tx.acct = {c}, !.tx.tok = {k}, !.tx.drop = @ \cup ids,
                    !.want = w, !.needs = need]]
    BY <1>3, <1>4, <1>6, <2>3
  <2>5. [y EXCEPT !.tx.acct = {c}, !.tx.tok = {k}, !.tx.drop = @ \cup ids,
                  !.want = w, !.needs = need]
        = [y EXCEPT !.tx = u, !.want = w, !.needs = need]
    BY <1>8, <1>9, <2>2 DEF Request, Writes
  <2>6. q = [y EXCEPT !.tx = u, !.want = w, !.needs = need]
    BY <1>11, <2>1
  <2> QED
    BY <2>4, <2>5, <2>6
<1>15. GoneOK(q) /\ TokOK(q) /\ AcctOK(r, q)
  <2>1. Sure(q, <<"account", acc.id>>)
    BY <1>7, <1>13 DEF Sure, Gets
  <2>2. SameEmail(c)
    BY <1>3, <1>5 DEF SameEmail, AccessInv, OneAccount
  <2> QED
    BY <1>5, <1>10, <1>13, <2>1, <2>2 DEF GoneOK, TokOK, AcctOK
<1>16. c.id \in Ids(accounts)
  BY <1>3, <1>5 DEF Ids
<1>17. BodyAdds(r, q, {})
  BY <1>1, <1>7, <1>10, <1>13, <1>15, <1>16 DEF BodyAdds
<1> QED
  BY <1>2, <1>13, <1>14, <1>17, Unchanged, Blocks

-----------------------------------------------------------------------------
(* A request comes in.                                                     *)

\* A request that has only its session row.
LEMMA Arrives ==
  ASSUME AccessInv, NEW r \in Requests, NEW q, q \in Request, req' = [req EXCEPT ![r] = q],
         UNCHANGED <<accounts, sessions, tokens, dead, buckets, now>>,
         issued' \in [{"session", "account", "token"} -> Nat],
         issued["session"] <= issued'["session"], issued["account"] = issued'["account"],
         q.phase = "loading", q.held = {}, q.share = {}, q.wantshare = {},
         q.own \in Ids(q.tx.put), q.tx.gone = {}, q.tx.acct = {}, q.tx.tok = {},
         \A x \in q.tx.put :
           \/ x.id \in Ids(sessions) /\ Sure(q, <<"session", x.id>>) /\ SameAccount(x)
           \/ /\ issued["session"] < x.id /\ x.id <= issued'["session"]
              /\ NewId(r, x.id) /\ x.account = None,
         \A x, y \in q.tx.put : x.id = y.id => x.account = y.account,
         \A i \in q.tx.drop : i \in Ids(sessions) /\ <<"session", i>> \in q.want
  PROVE  AccessInv'
<1>1. \A i \in Ids(sessions) : i <= issued'["session"]
  <2>1. \A s \in sessions : s.id \in Nat
    BY DEF AccessInv, TypeOK, Session
  <2>2. \A i \in Ids(sessions) : i \in Nat /\ i <= issued["session"]
    BY <2>1 DEF AccessInv, Counters, Ids
  <2>3. issued["session"] \in Nat /\ issued'["session"] \in Nat
    BY Unchanged
  <2> QED
    BY <2>2, <2>3
<1>2. Grown(r, q)
  BY <1>1 DEF Grown
<1>3. RequestInv(r, q)
  BY DEF RequestInv, PutOK, DropOK, GoneOK, TokOK, AcctOK, PhaseOK
<1>4. \A p \in Requests \ {r} : Apart(q, req[p])
  BY DEF Apart
<1>5. issued["account"] <= issued'["account"]
  BY Unchanged
<1> QED
  BY <1>2, <1>3, <1>4, <1>5, Unchanged, Moves

LEMMA ArriveKeeps ==
  ASSUME AccessInv, NEW r \in Requests, NEW cookie, Arrive(r, cookie) PROVE AccessInv'
<1> DEFINE row == {s \in sessions : s.id = cookie}
           live == {s \in row : s.exp >= now}
           n == issued["session"] + 1
           slid == {[s EXCEPT !.exp = now + SessionTTL] : s \in live}
           lock == {<<"session", cookie>>}
           locks == {<<"session", i>> : i \in Ids(row)}
<1>1. UNCHANGED <<accounts, sessions, tokens, dead, buckets, now>>
  BY DEF Arrive
<1>2. /\ IdleRequest \in Request /\ IdleRequest.tx = Nothing /\ IdleRequest.held = {}
      /\ IdleRequest.share = {} /\ IdleRequest.wantshare = {} /\ IdleRequest.want = {}
  BY IdleType DEF IdleRequest
<1>3. Nothing \in Writes
  BY DEF Nothing, Writes
<1>4. "loading" \in Phases
  BY DEF Phases
<1>5. now + SessionTTL \in Nat /\ issued["session"] \in Nat /\ sessions \subseteq Session
  BY Unchanged, AccessBounds DEF AccessInv, TypeOK
<1>6. CASE /\ live # {} /\ UNCHANGED issued
           /\ req' = [req EXCEPT ![r] =
                [IdleRequest EXCEPT !.phase = "loading", !.own = cookie, !.tx.put = slid,
                                    !.want = lock, !.needs = lock]]
  <2>1. \A s \in live : s \in Session /\ s.id = cookie /\ s \in sessions
    BY <1>5
  <2>2. cookie \in 1..MaxSessions /\ cookie \in Ids(sessions)
    BY <1>6, <2>1 DEF Session, Ids
  <2>3. \A x \in slid : /\ x \in Session /\ x.id = cookie
                        /\ \E s \in sessions : s.id = cookie /\ s.account = x.account
    <3>1. ASSUME NEW s \in live, NEW x, x = [s EXCEPT !.exp = now + SessionTTL]
          PROVE  x \in Session /\ x.id = cookie /\ x.account = s.account
      BY <1>5, <2>1, <3>1 DEF Session
    <3> QED
      BY <2>1, <3>1
  <2>4. slid # {}
    BY <1>6
  <2>5. \A x, y \in sessions : x.id = y.id => x.account = y.account
    BY DEF AccessInv, OneAccount
  <2>6. lock \subseteq Lock
    BY <2>2 DEF Lock
  <2>7. PICK t : t = [Nothing EXCEPT !.put = slid]
    OBVIOUS
  <2>8. PICK q : q = [IdleRequest EXCEPT !.phase = "loading", !.own = cookie, !.tx = t,
                                         !.want = lock, !.needs = lock]
    OBVIOUS
  <2>9. req' = [req EXCEPT ![r] = q]
    BY <1>2, <1>6, <2>7, <2>8
  <2> HIDE DEF slid, live, row
  <2>10. /\ t \in Writes /\ t.put = slid /\ t.drop = {} /\ t.gone = {} /\ t.acct = {} /\ t.tok = {}
    BY <1>3, <2>3, <2>7 DEF Writes, Nothing
  <2>11. /\ q \in Request /\ q.phase = "loading" /\ q.own = cookie /\ q.tx = t
         /\ q.want = lock /\ q.needs = lock /\ q.held = {} /\ q.share = {} /\ q.wantshare = {}
    <3>1. cookie \in 0..MaxSessions
      BY <2>2, AccessBounds
    <3> QED
      BY <1>2, <1>4, <2>6, <2>8, <2>10, <3>1 DEF Request
  <2>12. Sure(q, <<"session", cookie>>)
    BY <2>11 DEF Sure, Gets
  <2>13. \A x \in slid : SameAccount(x)
    BY <2>3, <2>5 DEF SameAccount
  <2>14. cookie \in Ids(slid)
    BY <2>3, <2>4 DEF Ids
  <2>15. \A x, y \in slid : x.account = y.account
    BY <2>3, <2>5
  <2>16. \A x \in q.tx.put : x.id \in Ids(sessions) /\ Sure(q, <<"session", x.id>>) /\ SameAccount(x)
    BY <2>2, <2>3, <2>10, <2>11, <2>12, <2>13
  <2>17. /\ q.own \in Ids(q.tx.put) /\ q.tx.gone = {} /\ q.tx.acct = {} /\ q.tx.tok = {}
         /\ \A x, y \in q.tx.put : x.id = y.id => x.account = y.account
         /\ q.tx.drop = {}
    BY <2>10, <2>11, <2>14, <2>15
  <2>18. /\ issued' \in [{"session", "account", "token"} -> Nat]
         /\ issued["session"] <= issued'["session"] /\ issued["account"] = issued'["account"]
    BY <1>6, Unchanged
  <2>19. \A i \in q.tx.drop : i \in Ids(sessions) /\ <<"session", i>> \in q.want
    BY <2>17
  <2> QED
    BY <1>1, <2>9, <2>11, <2>16, <2>17, <2>18, <2>19, Arrives
<1>7. CASE /\ n <= MaxSessions /\ issued' = [issued EXCEPT !["session"] = n]
           /\ req' = [req EXCEPT ![r] =
                [IdleRequest EXCEPT !.phase = "loading", !.own = n,
                   !.tx.put = {Fresh(None, n)}, !.tx.drop = Ids(row), !.want = locks]]
  <2>1. PICK f : f = Fresh(None, n)
    OBVIOUS
  <2>2. n \in 1..MaxSessions /\ issued["session"] < n /\ n \in Nat
    BY <1>5, <1>7, AccessBounds
  <2>3. f \in Session /\ f.id = n /\ f.account = None
    BY <1>5, <2>1, <2>2 DEF Fresh, Session
  <2>4. NewId(r, n)
    BY <2>2, IdsGrow
  <2>5. Ids(row) \subseteq 1..MaxSessions /\ Ids(row) \subseteq Ids(sessions)
    BY <1>5 DEF Ids, Session
  <2> HIDE DEF row
  <2>6. locks \subseteq Lock /\ \A i \in Ids(row) : <<"session", i>> \in locks
    BY <2>5 DEF Lock
  <2>7. PICK t : t = [Nothing EXCEPT !.put = {f}, !.drop = Ids(row)]
    OBVIOUS
  <2>8. PICK q : q = [IdleRequest EXCEPT !.phase = "loading", !.own = n, !.tx = t, !.want = locks]
    OBVIOUS
  <2>9. req' = [req EXCEPT ![r] = q]
    BY <1>2, <1>7, <2>1, <2>7, <2>8
  <2> HIDE DEF locks
  <2>10. /\ t \in Writes /\ t.put = {f} /\ t.drop = Ids(row) /\ t.gone = {} /\ t.acct = {}
         /\ t.tok = {}
    BY <1>3, <2>3, <2>5, <2>7 DEF Writes, Nothing
  <2>11. /\ q \in Request /\ q.phase = "loading" /\ q.own = n /\ q.tx = t
         /\ q.want = locks /\ q.held = {} /\ q.share = {} /\ q.wantshare = {}
    <3>1. n \in 0..MaxSessions
      BY <2>2, AccessBounds
    <3> HIDE DEF n
    <3> QED
      BY <1>2, <1>4, <2>6, <2>8, <2>10, <3>1 DEF Request
  <2>12. n \in Ids({f})
    BY <2>3 DEF Ids
  <2>13. /\ issued' \in [{"session", "account", "token"} -> Nat]
         /\ issued'["session"] = n /\ issued'["account"] = issued["account"]
    BY <1>7, <2>2, Unchanged
  <2>14. issued["session"] <= issued'["session"]
    BY <1>5, <2>2, <2>13
  <2>15. \A x \in {f} : /\ issued["session"] < x.id /\ x.id <= issued'["session"]
                        /\ NewId(r, x.id) /\ x.account = None
    BY <1>5, <2>2, <2>3, <2>4, <2>13
  <2>16. \A x, y \in q.tx.put : x.id = y.id => x.account = y.account
    BY <2>10, <2>11
  <2> HIDE DEF n
  <2> QED
    BY <1>1, <2>5, <2>6, <2>9, <2>10, <2>11, <2>12, <2>13, <2>14, <2>15, <2>16, Arrives
<1> QED
  BY <1>6, <1>7 DEF Arrive

-----------------------------------------------------------------------------
(* The commit.                                                             *)

Left(r) ==
  {s \in {t \in sessions : t.id \notin Ids(req[r].tx.put)} \cup req[r].tx.put :
     s.id \notin req[r].tx.drop /\ s.account \notin req[r].tx.gone}

\* What is known of the rows a commit writes.
Known(r) ==
  /\ \A x \in req[r].tx.put :
       \/ /\ NewId(r, x.id)
          /\ \/ x.account = None
             \/ x.account \in Ids(accounts)
                  /\ <<"key", x.account>> \in req[r].held \cup req[r].share
             \/ NewAccount(r, x.account) /\ x.account \in Ids(req[r].tx.acct)
       \/ <<"session", x.id>> \in req[r].held /\ x.id \in Ids(sessions) /\ SameAccount(x)
  /\ \A x, y \in req[r].tx.put : x.id = y.id => x.account = y.account
  /\ \A i \in req[r].tx.drop : i \in Ids(sessions) => <<"session", i>> \in req[r].held
  /\ req[r].tx.gone # {} => req[r].tx.acct = {} /\ req[r].tx.tok = {}
  /\ \A a \in req[r].tx.gone :
       /\ {<<"key", a>>, <<"account", a>>} \subseteq req[r].held
       /\ \A y \in sessions : y.account = a => <<"session", y.id>> \in req[r].held
  /\ \A t \in req[r].tx.tok : t.account \in Ids(accounts)
  /\ \A c \in req[r].tx.acct :
       \/ /\ NewAccount(r, c.id) /\ <<"email", c.email>> \in req[r].held
          /\ \A b \in accounts : b.email # c.email
       \/ c.id \in Ids(accounts) /\ SameEmail(c)
  /\ \A c, d \in req[r].tx.acct : c = d

LEMMA CommitKnows ==
  ASSUME AccessInv, NEW r \in Requests, req[r].phase = "committing" PROVE Known(r)
<1>1. PICK q : q = req[r]
  OBVIOUS
<1>2. RequestInv(r, q) /\ q.want = {} /\ q.wantshare = {} /\ \A l \in q.share : l[1] = "key"
  BY <1>1 DEF AccessInv, RequestInv, PhaseOK
<1>3. \A lock : Sure(q, lock) => lock \in q.held \cup q.share /\ Writable(lock)
  BY <1>1 DEF Sure, Has, Gets
<1>4. /\ \A i : Writable(<<"session", i>>) <=> i \in Ids(sessions)
      /\ \A a : Writable(<<"key", a>>) <=> a \in Ids(accounts)
      /\ \A a : Writable(<<"account", a>>) <=> a \in Ids(accounts)
      /\ \A e : Writable(<<"email", e>>) => \A b \in accounts : b.email # e
  BY DEF Writable
<1>5. /\ \A i : Sure(q, <<"session", i>>) => i \in Ids(sessions) /\ <<"session", i>> \in q.held
      /\ \A e : Sure(q, <<"email", e>>) =>
           /\ <<"email", e>> \in q.held
           /\ \A b \in accounts : b.email # e
      /\ \A a : Sure(q, <<"key", a>>) => a \in Ids(accounts) /\ <<"key", a>> \in q.held \cup q.share
      /\ \A a : Sure(q, <<"account", a>>) => a \in Ids(accounts)
  BY <1>2, <1>3, <1>4
<1>6. \A x \in q.tx.put :
        \/ /\ NewId(r, x.id)
           /\ \/ x.account = None
              \/ x.account \in Ids(accounts) /\ <<"key", x.account>> \in q.held \cup q.share
              \/ NewAccount(r, x.account) /\ x.account \in Ids(q.tx.acct)
        \/ <<"session", x.id>> \in q.held /\ x.id \in Ids(sessions) /\ SameAccount(x)
  BY <1>2, <1>5 DEF RequestInv, PutOK
<1>7. \A i \in q.tx.drop : i \in Ids(sessions) => <<"session", i>> \in q.held
  BY <1>2 DEF RequestInv, DropOK, NewId
<1>8. \A t \in q.tx.tok : t.account \in Ids(accounts)
  BY <1>2, <1>5 DEF RequestInv, TokOK
<1>9. \A c \in q.tx.acct :
        \/ /\ NewAccount(r, c.id) /\ <<"email", c.email>> \in q.held
           /\ \A b \in accounts : b.email # c.email
        \/ c.id \in Ids(accounts) /\ SameEmail(c)
  BY <1>2, <1>5 DEF RequestInv, AcctOK
<1>10. /\ q.tx.gone # {} => q.tx.acct = {} /\ q.tx.tok = {}
       /\ \A a \in q.tx.gone :
            /\ {<<"key", a>>, <<"account", a>>} \subseteq q.held
            /\ \A y \in sessions : y.account = a => <<"session", y.id>> \in q.held
  BY <1>1, <1>2 DEF RequestInv, GoneOK, Over
<1>11. /\ \A x, y \in q.tx.put : x.id = y.id => x.account = y.account
       /\ \A c, d \in q.tx.acct : c = d
  BY <1>2 DEF RequestInv, PutOK, AcctOK
<1> QED
  BY <1>1, <1>6, <1>7, <1>8, <1>9, <1>10, <1>11 DEF Known

LEMMA CommitDoes ==
  ASSUME AccessInv, NEW r \in Requests, Commit(r)
  PROVE  /\ req[r].phase = "committing" /\ req[r] \in Request /\ Known(r)
         /\ sessions' = Left(r)
         /\ accounts' = {a \in accounts : a.id \notin Ids(req[r].tx.acct) \cup req[r].tx.gone}
                          \cup req[r].tx.acct
         /\ tokens' = {t \in tokens : t.id \notin Ids(req[r].tx.tok) /\ t.account \notin req[r].tx.gone}
                        \cup req[r].tx.tok
         /\ dead' = dead \cup {i \in Ids(sessions) \cup Ids(req[r].tx.put) : i \notin Ids(Left(r))}
         /\ req' = [req EXCEPT ![r] = IdleRequest]
         /\ UNCHANGED <<issued, buckets, now>>
         /\ Ids(sessions') \cup dead' \subseteq Ids(sessions) \cup dead \cup Ids(req[r].tx.put)
         /\ Ids(accounts') \subseteq Ids(accounts) \cup Ids(req[r].tx.acct)
<1>1. /\ req[r].phase = "committing" /\ req[r] \in Request
      /\ sessions' = Left(r)
      /\ accounts' = {a \in accounts : a.id \notin Ids(req[r].tx.acct) \cup req[r].tx.gone}
                       \cup req[r].tx.acct
      /\ tokens' = {t \in tokens : t.id \notin Ids(req[r].tx.tok) /\ t.account \notin req[r].tx.gone}
                     \cup req[r].tx.tok
      /\ dead' = dead \cup {i \in Ids(sessions) \cup Ids(req[r].tx.put) : i \notin Ids(Left(r))}
      /\ req' = [req EXCEPT ![r] = IdleRequest]
      /\ UNCHANGED <<issued, buckets, now>>
  BY Unchanged DEF Commit, Left
<1>2. Known(r)
  BY <1>1, CommitKnows
<1>3. Ids(Left(r)) \subseteq Ids(sessions) \cup Ids(req[r].tx.put)
  BY DEF Ids, Left
<1>4. Ids(accounts') \subseteq Ids(accounts) \cup Ids(req[r].tx.acct)
  BY <1>1 DEF Ids
<1> QED
  BY <1>1, <1>2, <1>3, <1>4

\* A row stays as long as another request has its lock.
LEMMA LockedStays ==
  ASSUME AccessInv, NEW r \in Requests, Commit(r), NEW p \in Requests \ {r}, NEW lock,
         Has(req[p], lock),
         \/ \E i : lock = <<"session", i>>
         \/ \E a : lock = <<"key", a>> \/ lock = <<"account", a>>
         \/ \E e : lock = <<"email", e>>
  PROVE  Writable(lock)'
<1>1. PICK q : q = req[r]
  OBVIOUS
<1>2. lock \notin q.held /\ lock \in req[p].held \cup req[p].share /\ Writable(lock)
  BY <1>1 DEF AccessInv, Exclusive, Apart, Has
<1>3. Known(r)
  BY CommitDoes
<1>4. ASSUME NEW i, lock = <<"session", i>> PROVE Writable(lock)'
  <2>1. i \in Ids(sessions)
    BY <1>2, <1>4 DEF Writable
  <2>2. i \notin q.tx.drop
    BY <1>1, <1>2, <1>3, <1>4, <2>1 DEF Known
  <2>3. PICK s \in sessions : s.id = i
    BY <2>1 DEF Ids
  <2>4. s.account \notin q.tx.gone
    BY <1>1, <1>2, <1>3, <1>4, <2>3 DEF Known
  <2>5. CASE i \in Ids(q.tx.put)
    <3>1. PICK x \in q.tx.put : x.id = i
      BY <2>5 DEF Ids
    <3>2. SameAccount(x)
      BY <1>1, <1>3, <2>1, <3>1 DEF Known, NewId
    <3>3. x \in Left(r)
      BY <1>1, <2>2, <2>3, <2>4, <3>1, <3>2 DEF SameAccount, Left
    <3> QED
      BY <1>4, <3>1, <3>3, CommitDoes DEF Writable, Ids
  <2>6. CASE i \notin Ids(q.tx.put)
    <3>1. s \in Left(r)
      BY <1>1, <2>2, <2>3, <2>4, <2>6 DEF Left
    <3> QED
      BY <1>4, <2>3, <3>1, CommitDoes DEF Writable, Ids
  <2> QED
    BY <2>5, <2>6
<1>5. ASSUME NEW a, lock = <<"key", a>> \/ lock = <<"account", a>> PROVE Writable(lock)'
  <2>1. a \in Ids(accounts)
    BY <1>2, <1>5 DEF Writable
  <2>2. a \notin q.tx.gone
    BY <1>1, <1>2, <1>3, <1>5 DEF Known
  <2>3. a \in Ids(accounts')
    BY <1>1, <2>1, <2>2, CommitDoes DEF Ids
  <2> QED
    BY <1>5, <2>3 DEF Writable
<1>6. ASSUME NEW e, lock = <<"email", e>> PROVE Writable(lock)'
  <2>1. \A b \in accounts : b.email # e
    BY <1>2, <1>6 DEF Writable
  <2>2. ASSUME NEW c \in q.tx.acct, c.email = e PROVE FALSE
    <3>1. c.id \in Ids(accounts) /\ SameEmail(c)
      BY <1>1, <1>2, <1>3, <1>6, <2>2 DEF Known
    <3> QED
      BY <2>1, <2>2, <3>1 DEF Ids, SameEmail
  <2>3. \A b \in accounts' : b.email # e
    BY <1>1, <2>1, <2>2, CommitDoes
  <2>4. e \notin {b.email : b \in accounts'}
    BY <2>3
  <2> QED
    BY <1>6, <2>4 DEF Writable
<1> QED
  BY <1>4, <1>5, <1>6

LEMMA CommitOthers ==
  ASSUME AccessInv, NEW r \in Requests, Commit(r), NEW p \in Requests \ {r}
  PROVE  RequestInv(p, req[p])'
<1>1. /\ \A x \in Requests : req'[x] = IF x = r THEN IdleRequest ELSE req[x]
      /\ Known(r)
      /\ Ids(sessions') \cup dead' \subseteq Ids(sessions) \cup dead \cup Ids(req[r].tx.put)
      /\ Ids(accounts') \subseteq Ids(accounts) \cup Ids(req[r].tx.acct)
  BY CommitDoes, Unchanged
<1>2. PICK q : q = req[p]
  OBVIOUS
<1>3. RequestInv(p, q) /\ req'[p] = q
  BY <1>1, <1>2 DEF AccessInv
<1>4. IdleRequest.tx.put = {} /\ IdleRequest.tx.acct = {} /\ IdleRequest.tx.gone = {}
  BY DEF IdleRequest, Nothing
<1>5. \A i : NewId(p, i) => NewId(p, i)'
  <2> TAKE i
  <2> HAVE NewId(p, i)
  <2>1. i \notin Ids(req[r].tx.put) /\ i \notin Ids(sessions) \cup dead
    BY DEF NewId
  <2>2. \A x \in Requests \ {p} : i \notin Ids(req'[x].tx.put)
    BY <1>1, <1>4 DEF NewId, Ids
  <2> QED
    BY <1>1, <2>1, <2>2 DEF NewId, Ids
<1>6. \A a : NewAccount(p, a) => NewAccount(p, a)'
  <2> TAKE a
  <2> HAVE NewAccount(p, a)
  <2>1. a \notin Ids(req[r].tx.acct) /\ a \notin Ids(accounts)
    BY DEF NewAccount
  <2>2. \A x \in Requests \ {p} : a \notin Ids(req'[x].tx.acct) \cup req'[x].tx.gone
    BY <1>1, <1>4 DEF NewAccount, Ids
  <2> QED
    BY <1>1, <2>1, <2>2 DEF NewAccount, Ids
<1>7. /\ \A i : Sure(q, <<"session", i>>) => Sure(req[p], <<"session", i>>)'
      /\ \A a : Sure(q, <<"key", a>>) => Sure(req[p], <<"key", a>>)'
      /\ \A a : Sure(q, <<"account", a>>) => Sure(req[p], <<"account", a>>)'
      /\ \A e : Sure(q, <<"email", e>>) => Sure(req[p], <<"email", e>>)'
  <2>1. ASSUME NEW lock, Sure(q, lock),
               \/ \E i : lock = <<"session", i>>
               \/ \E a : lock = <<"key", a>> \/ lock = <<"account", a>>
               \/ \E e : lock = <<"email", e>>
        PROVE  Sure(req[p], lock)'
    <3>1. CASE Has(q, lock)
      <4>1. Writable(lock)'
        BY <1>2, <2>1, <3>1, LockedStays
      <4> QED
        BY <1>3, <3>1, <4>1 DEF Sure, Has
    <3>2. CASE Gets(q, lock)
      BY <1>3, <3>2 DEF Sure, Gets
    <3> QED
      BY <2>1, <3>1, <3>2 DEF Sure
  <2> QED
    BY <2>1
<1>8. ASSUME NEW x \in q.tx.put, SameAccount(x) PROVE SameAccount(x)'
  <2>1. ASSUME NEW y \in Left(r), y.id = x.id PROVE y.account = x.account
    <3>1. CASE y \in sessions
      BY <1>8, <2>1, <3>1 DEF SameAccount
    <3>2. CASE y \in req[r].tx.put
      <4>1. ~NewId(r, y.id)
        BY <1>2, <2>1 DEF NewId, Ids
      <4>2. y.id \in Ids(sessions) /\ SameAccount(y)
        BY <1>1, <3>2, <4>1 DEF Known
      <4> QED
        BY <1>8, <2>1, <4>2 DEF SameAccount, Ids
    <3> QED
      BY <3>1, <3>2 DEF Left
  <2> QED
    BY <2>1, CommitDoes DEF SameAccount
<1>9. ASSUME NEW c \in q.tx.acct, SameEmail(c) PROVE SameEmail(c)'
  <2>1. ASSUME NEW b \in req[r].tx.acct, b.id = c.id PROVE b.email = c.email
    <3>1. ~NewAccount(r, b.id)
      BY <1>2, <2>1 DEF NewAccount, Ids
    <3>2. b.id \in Ids(accounts) /\ SameEmail(b)
      BY <1>1, <2>1, <3>1 DEF Known
    <3> QED
      BY <1>9, <2>1, <3>2 DEF SameEmail, Ids
  <2>2. \A b \in accounts' : b.id = c.id => b.email = c.email
    BY <1>9, <2>1, CommitDoes DEF SameEmail
  <2> QED
    BY <2>2 DEF SameEmail
<1>10. PutOK(p, req[p])'
  <2>1. ASSUME NEW x \in q.tx.put
        PROVE  \/ /\ NewId(p, x.id)'
                  /\ \/ x.account = None
                     \/ Sure(req[p], <<"key", x.account>>)'
                     \/ NewAccount(p, x.account)' /\ x.account \in Ids(q.tx.acct)
               \/ Sure(req[p], <<"session", x.id>>)' /\ SameAccount(x)'
    BY <1>3, <1>5, <1>6, <1>7, <1>8 DEF RequestInv, PutOK
  <2>2. \A x, y \in q.tx.put : x.id = y.id => x.account = y.account
    BY <1>3 DEF RequestInv, PutOK
  <2> QED
    BY <1>3, <2>1, <2>2 DEF PutOK, Ids
<1>11. DropOK(p, req[p])'
  BY <1>3, <1>5 DEF RequestInv, DropOK
<1>12. GoneOK(req[p])'
  <2>1. ASSUME NEW a \in q.tx.gone, Over(q), NEW y \in Left(r), y.account = a
        PROVE  <<"session", y.id>> \in q.held
    <3>1. /\ \A s \in sessions : s.account = a => <<"session", s.id>> \in q.held
          /\ <<"key", a>> \in q.held \cup q.want
      BY <1>3, <2>1 DEF RequestInv, GoneOK
    <3>2. <<"key", a>> \in q.held
      BY <1>3, <2>1, <3>1 DEF RequestInv, PhaseOK, Over
    <3>3. CASE y \in sessions
      BY <2>1, <3>1, <3>3
    <3>4. CASE y \in req[r].tx.put
      <4>1. q.held \cap (req[r].held \cup req[r].share) = {}
        BY <1>2 DEF AccessInv, Exclusive, Apart
      <4>2. ~NewAccount(r, a)
        BY <1>2, <2>1 DEF NewAccount
      <4>3. a # None
        <5>1. q \in Request
          BY <1>2, Unchanged
        <5>2. a \in 1..MaxAccounts
          BY <2>1, <5>1 DEF Request, Writes
        <5> QED
          BY <5>2, AccessBounds
      <4>4. <<"session", y.id>> \in req[r].held /\ y.id \in Ids(sessions) /\ SameAccount(y)
        BY <1>1, <2>1, <3>2, <3>4, <4>1, <4>2, <4>3 DEF Known
      <4>5. PICK s \in sessions : s.id = y.id /\ s.account = a
        BY <2>1, <4>4 DEF Ids, SameAccount
      <4> QED
        BY <3>1, <4>5
    <3> QED
      BY <3>3, <3>4 DEF Left
  <2> QED
    BY <1>3, <2>1, CommitDoes DEF RequestInv, GoneOK, Over
<1>13. TokOK(req[p])' /\ PhaseOK(req[p])'
  BY <1>3, <1>7 DEF RequestInv, TokOK, PhaseOK, Ids
<1>14. AcctOK(p, req[p])'
  BY <1>3, <1>6, <1>7, <1>9 DEF RequestInv, AcctOK
<1> QED
  BY <1>10, <1>11, <1>12, <1>13, <1>14 DEF RequestInv

LEMMA CommitKeeps == ASSUME AccessInv, NEW r \in Requests, Commit(r) PROVE AccessInv'
<1>1. PICK tx : tx = req[r].tx
  OBVIOUS
<1>2. /\ tx \in Writes /\ Known(r)
      /\ sessions' = Left(r)
      /\ accounts' = {a \in accounts : a.id \notin Ids(tx.acct) \cup tx.gone} \cup tx.acct
      /\ tokens' = {t \in tokens : t.id \notin Ids(tx.tok) /\ t.account \notin tx.gone} \cup tx.tok
      /\ dead' = dead \cup {i \in Ids(sessions) \cup Ids(tx.put) : i \notin Ids(Left(r))}
      /\ req' = [req EXCEPT ![r] = IdleRequest]
      /\ UNCHANGED <<issued, buckets, now>>
      /\ Ids(sessions') \cup dead' \subseteq Ids(sessions) \cup dead \cup Ids(tx.put)
      /\ Ids(accounts') \subseteq Ids(accounts) \cup Ids(tx.acct)
  BY <1>1, CommitDoes DEF Request
<1>3. \A x \in Requests : req'[x] = IF x = r THEN IdleRequest ELSE req[x]
  BY <1>2, Unchanged
<1>4. Left(r) \subseteq sessions \cup tx.put
  BY <1>1 DEF Left
<1>5. TypeOK'
  <2>1. tx.put \subseteq Session /\ tx.acct \subseteq Account /\ tx.tok \subseteq Token
    BY <1>2 DEF Writes
  <2>2. req' \in [Requests -> Request]
    BY <1>2, Unchanged, IdleType
  <2>3. dead' \subseteq 1..MaxSessions
    <3>1. \A s \in sessions \cup tx.put : s.id \in 1..MaxSessions
      BY <2>1 DEF AccessInv, TypeOK, Session
    <3>2. Ids(sessions) \cup Ids(tx.put) \subseteq 1..MaxSessions
      BY <3>1 DEF Ids
    <3> QED
      BY <1>2, <3>2 DEF AccessInv, TypeOK
  <2>4. accounts' \subseteq Account /\ tokens' \subseteq Token /\ sessions' \subseteq Session
    BY <1>2, <1>4, <2>1 DEF AccessInv, TypeOK
  <2> QED
    BY <1>2, <2>2, <2>3, <2>4 DEF AccessInv, TypeOK
<1>6. Counters'
  <2>1. Counters
    BY DEF AccessInv
  <2>2. /\ \A i \in Ids(sessions') \cup dead' : i <= issued["session"]
        /\ \A a \in Ids(accounts') : a <= issued["account"]
    BY <1>1, <1>2, <2>1 DEF Counters
  <2>3. ASSUME NEW p \in Requests
        PROVE  /\ \A i \in Ids(req'[p].tx.put) \cup req'[p].tx.drop : i <= issued["session"]
               /\ \A a \in Ids(req'[p].tx.acct) \cup req'[p].tx.gone : a <= issued["account"]
    BY <1>3, <2>1 DEF Counters, IdleRequest, Nothing, Ids
  <2> QED
    BY <1>2, <2>2, <2>3 DEF Counters, Ids
<1>7. Exclusive'
  BY <1>3 DEF AccessInv, Exclusive, Apart, IdleRequest
<1>8. OneAccount'
  <2>1. ASSUME NEW x \in Left(r), NEW y \in Left(r), x.id = y.id PROVE x.account = y.account
    <3>1. CASE x \in sessions /\ y \in sessions
      BY <2>1, <3>1 DEF AccessInv, OneAccount
    <3>2. CASE x \in tx.put /\ y \in tx.put
      BY <1>1, <1>2, <2>1, <3>2 DEF Known
    <3> QED
      BY <1>1, <2>1, <3>1, <3>2 DEF Left, Ids
  <2>2. \A b, c \in accounts' : b.id = c.id => b.email = c.email
    <3>1. \A b, c \in accounts : b.id = c.id => b.email = c.email
      BY DEF AccessInv, OneAccount
    <3>2. \A b, c \in tx.acct : b = c
      BY <1>1, <1>2 DEF Known
    <3> QED
      BY <1>2, <3>1, <3>2 DEF Ids
  <2> QED
    BY <1>2, <2>1, <2>2 DEF OneAccount
<1>9. DeadStayDead'
  <2>1. ASSUME NEW x \in Left(r) PROVE x.id \notin dead
    <3>1. CASE x \in sessions
      BY <3>1 DEF AccessInv, DeadStayDead, Ids
    <3>2. CASE x \in tx.put
      BY <1>1, <1>2, <3>2 DEF Known, NewId, AccessInv, DeadStayDead
    <3> QED
      BY <1>4, <3>1, <3>2
  <2> QED
    BY <1>2, <2>1 DEF DeadStayDead, Ids
<1>10. Integrity'
  <2>1. \A a \in Ids(accounts) : a \notin tx.gone => a \in Ids(accounts')
    BY <1>2 DEF Ids
  <2>2. ASSUME NEW x \in Left(r), x.account # None PROVE x.account \in Ids(accounts')
    <3>1. x.account \notin tx.gone
      BY <1>1 DEF Left
    <3>2. CASE x \in sessions
      BY <2>1, <2>2, <3>1, <3>2 DEF AccessInv, Integrity
    <3>3. CASE x \in tx.put /\ x.account \in Ids(accounts)
      BY <2>1, <3>1, <3>3
    <3>4. CASE x \in tx.put /\ x.account \in Ids(tx.acct)
      BY <1>2, <3>4 DEF Ids
    <3>5. CASE x \in tx.put /\ x.id \in Ids(sessions) /\ SameAccount(x)
      <4>1. PICK s \in sessions : s.account = x.account
        BY <3>5 DEF Ids, SameAccount
      <4> QED
        BY <2>1, <2>2, <3>1, <4>1 DEF AccessInv, Integrity
    <3> QED
      BY <1>1, <1>2, <1>4, <2>2, <3>2, <3>3, <3>4, <3>5 DEF Known
  <2>3. ASSUME NEW t \in tokens' PROVE t.account \in Ids(accounts')
    <3>1. CASE t \in tokens /\ t.account \notin tx.gone
      <4>1. t.account \in Ids(accounts)
        BY <3>1 DEF AccessInv, Integrity
      <4> QED
        BY <2>1, <3>1, <4>1
    <3>2. CASE t \in tx.tok
      BY <1>1, <1>2, <2>1, <3>2 DEF Known
    <3> QED
      BY <1>2, <2>3, <3>1, <3>2
  <2>4. ASSUME NEW b \in accounts', NEW c \in accounts', b.email = c.email PROVE b = c
    <3>1. \A x, y \in accounts : x.email = y.email => x = y
      BY DEF AccessInv, Integrity
    <3>2. ASSUME NEW x \in accounts, x.id \notin Ids(tx.acct), NEW y \in tx.acct PROVE x.email # y.email
      <4>1. CASE y.id \in Ids(accounts) /\ SameEmail(y)
        <5>1. PICK z \in accounts : z.id = y.id /\ z.email = y.email
          BY <4>1 DEF Ids, SameEmail
        <5> QED
          BY <3>1, <3>2, <5>1 DEF Ids
      <4>2. CASE \A z \in accounts : z.email # y.email
        BY <4>2
      <4> QED
        BY <1>1, <1>2, <4>1, <4>2 DEF Known
    <3>3. \A x, y \in tx.acct : x = y
      BY <1>1, <1>2 DEF Known
    <3> QED
      BY <1>2, <2>4, <3>1, <3>2, <3>3
  <2> QED
    BY <1>2, <2>2, <2>3, <2>4 DEF Integrity, Ids
<1>11. \A p \in Requests : RequestInv(p, req[p])'
  <2>1. RequestInv(r, req[r])'
    <3>1. req'[r] = IdleRequest
      BY <1>3
    <3> QED
      BY <3>1 DEF RequestInv, PutOK, DropOK, GoneOK, TokOK, AcctOK, PhaseOK, IdleRequest, Nothing
  <2> QED
    BY <2>1, CommitOthers
<1> QED
  BY <1>5, <1>6, <1>7, <1>8, <1>9, <1>10, <1>11 DEF AccessInv

-----------------------------------------------------------------------------
(* The rest.                                                               *)

LEMMA TickKeeps == ASSUME AccessInv, Tick PROVE AccessInv'
<1>1. UNCHANGED <<accounts, sessions, tokens, issued, dead, buckets, req>>
  BY DEF Tick
<1>2. now' \in 0..MaxTime
  BY Unchanged, AccessBounds DEF Tick
<1>3. TypeOK'
  BY <1>1, <1>2 DEF AccessInv, TypeOK
<1>4. Counters' /\ Exclusive' /\ OneAccount' /\ DeadStayDead' /\ Integrity'
  BY <1>1 DEF AccessInv, Counters, Exclusive, Apart, OneAccount, DeadStayDead, Integrity, Ids
<1>5. \A r \in Requests : RequestInv(r, req[r])'
  BY <1>1 DEF AccessInv, RequestInv, PutOK, DropOK, GoneOK, TokOK, AcctOK, PhaseOK, NewId,
              NewAccount, SameAccount, SameEmail, Sure, Has, Gets, Over, Writable, Ids
<1> QED
  BY <1>3, <1>4, <1>5 DEF AccessInv

LEMMA RestartKeeps == ASSUME AccessInv, Restart PROVE AccessInv'
<1>1. /\ req' = [r \in Requests |-> IdleRequest] /\ buckets' = [k \in BucketKeys |-> None]
      /\ UNCHANGED <<accounts, sessions, tokens, issued, dead, now>>
  BY DEF Restart
<1>2. \A r \in Requests : req'[r] = IdleRequest
  BY <1>1
<1>3. TypeOK'
  BY <1>1, IdleType DEF AccessInv, TypeOK
<1>4. Counters' /\ Exclusive'
  BY <1>1, <1>2 DEF AccessInv, Counters, Exclusive, Apart, Ids, IdleRequest, Nothing
<1>5. OneAccount' /\ DeadStayDead' /\ Integrity'
  BY <1>1 DEF AccessInv, OneAccount, DeadStayDead, Integrity, Ids
<1>6. \A r \in Requests : RequestInv(r, req[r])'
  BY <1>2 DEF RequestInv, PutOK, DropOK, GoneOK, TokOK, AcctOK, PhaseOK, IdleRequest, Nothing
<1> QED
  BY <1>3, <1>4, <1>5, <1>6 DEF AccessInv

LEMMA StutterKeeps == ASSUME AccessInv, UNCHANGED vars PROVE AccessInv'
<1>1. UNCHANGED <<accounts, sessions, tokens, issued, dead, buckets, req, now>>
  BY DEF vars
<1>2. TypeOK' /\ Counters' /\ Exclusive' /\ OneAccount' /\ DeadStayDead' /\ Integrity'
  BY <1>1 DEF AccessInv, TypeOK, Counters, Exclusive, Apart, OneAccount, DeadStayDead, Integrity,
              Ids
<1>3. \A r \in Requests : RequestInv(r, req[r])'
  BY <1>1 DEF AccessInv, RequestInv, PutOK, DropOK, GoneOK, TokOK, AcctOK, PhaseOK, NewId,
              NewAccount, SameAccount, SameEmail, Sure, Has, Gets, Over, Writable, Ids
<1> QED
  BY <1>2, <1>3 DEF AccessInv

\* What every request knows of the rows it will write, and that it is so.
THEOREM AccessInvariance == Spec => []AccessInv
<1>1. ASSUME AccessInv, [Next]_vars PROVE AccessInv'
  <2>1. ASSUME NEW r \in Requests, Body(r) PROVE AccessInv'
    BY <1>1, <2>1, AnswerKeeps, LogoutKeeps, DeleteAccountKeeps, ForgotKeeps, ResetKeeps,
       SignupKeeps, LoginRightKeeps, LoginWrongKeeps DEF Body
  <2>2. ASSUME NEW r \in Requests, Serve(r) PROVE AccessInv'
    BY <1>1, <2>1, <2>2, FlushKeeps, DeadlockKeeps, BeginKeeps, ExitKeeps, CommitKeeps,
       CommitFailsKeeps DEF Serve
  <2>3. ASSUME NEW r \in Requests, NEW cookie, Arrive(r, cookie) PROVE AccessInv'
    BY <1>1, <2>3, ArriveKeeps
  <2> QED
    BY <1>1, <2>2, <2>3, TickKeeps, RestartKeeps, StutterKeeps DEF Next
<1> QED
  BY <1>1, AccessStart, PTL DEF Spec

\* The rows and requests have their types, for any number of them.
THEOREM AccessTypes == Spec => []TypeOK
<1>1. AccessInv => TypeOK
  BY DEF AccessInv
<1> QED
  BY <1>1, AccessInvariance, PTL

\* However many requests refresh, rotate and delete sessions at one time, a
\* session once deleted by a commit is not put back by another.
THEOREM DeletedForGood == Spec => []DeadStayDead
<1>1. AccessInv => DeadStayDead
  BY DEF AccessInv
<1> QED
  BY <1>1, AccessInvariance, PTL

\* No request commits a session or token of an account deleted under it, and no
\* two of them sign up the same email.
THEOREM NothingOrphaned == Spec => []Integrity
<1>1. AccessInv => Integrity
  BY DEF AccessInv
<1> QED
  BY <1>1, AccessInvariance, PTL
-----------------------------------------------------------------------------
(* The lockout.                                                            *)

\* Logins that have passed the check and whose password is not compared yet.
Underway == {r \in Requests : req[r].phase = "payload" /\ req[r].op = "login"}

\* In a window that is still open each of them may add one more; in one that is
\* over they may not, for the next failure opens a new one.
MayStillFail ==
  Current("login", "login") =>
    buckets["login"].count + Cardinality(Underway)
      <= Limits["login"].limit - 1 + Cardinality(Requests)

LockoutInv == LockoutBound /\ MayStillFail

LEMMA LoginLimit ==
  /\ Limits["login"].limit \in Nat \ {0} /\ Limits["login"].window \in Nat \ {0}
  /\ IsFiniteSet(Requests) /\ Cardinality(Requests) \in Nat
BY AccessBounds, FS_CardinalityType

LEMMA UnderwaySize ==
  /\ IsFiniteSet(Underway) /\ Cardinality(Underway) \in Nat
  /\ Cardinality(Underway) <= Cardinality(Requests)
BY LoginLimit, FS_Subset, FS_CardinalityType DEF Underway

\* What neither begins a login nor fails one: a window once over stays over.
LEMMA NoMoreUnderway ==
  ASSUME TypeOK, LockoutInv, buckets'["login"] = buckets["login"],
         now' \in Nat, now <= now', Underway' \subseteq Underway
  PROVE  LockoutInv'
<1> DEFINE b == buckets["login"]
           n == Cardinality(Underway)
           m == Cardinality(Underway')
           N == Cardinality(Requests)
           lim == Limits["login"].limit
           win == Limits["login"].window
<1>1. n \in Nat /\ m \in Nat /\ m <= n
  BY UnderwaySize, FS_Subset, FS_CardinalityType
<1>2. b \in Bucket \cup {None} /\ now \in Nat
  BY AccessBounds DEF TypeOK, BucketKeys
<1>3. b # None => b.count \in Nat /\ b.start \in Nat
  BY <1>2 DEF Bucket
<1>4. lim \in Nat /\ win \in Nat /\ N \in Nat
  BY LoginLimit
<1>5. LockoutBound'
  BY DEF LockoutInv, LockoutBound
<1>6. /\ Current("login", "login") <=> b # None /\ now - b.start < win
      /\ Current("login", "login")' <=> b # None /\ now' - b.start < win
  BY DEF Current
<1>7. MayStillFail <=> (Current("login", "login") => b.count + n <= lim - 1 + N)
  BY DEF MayStillFail
<1>8. MayStillFail' <=> (Current("login", "login")' => b.count + m <= lim - 1 + N)
  BY DEF MayStillFail
<1> HIDE DEF b, n, m, N, lim, win
<1>9. MayStillFail'
  BY <1>1, <1>2, <1>3, <1>4, <1>6, <1>7, <1>8 DEF LockoutInv
<1> QED
  BY <1>5, <1>9 DEF LockoutInv

\* A step of a request that is not a login under way afterwards.
LEMMA LeavesUnderway ==
  ASSUME TypeOK, NEW r \in Requests, NEW q, q.phase # "payload" \/ q.op # "login",
         req' = [req EXCEPT ![r] = q]
  PROVE  Underway' = Underway \ {r}
BY DEF TypeOK, Underway

LEMMA BeginLockout ==
  ASSUME TypeOK, LockoutInv, NEW r \in Requests, Begin(r)
  PROVE  LockoutInv'
<1>1. req[r] \in Request /\ now' = now /\ now \in Nat
  BY AccessBounds DEF TypeOK, Begin
<1>2. Raise(r).phase = "flushed"
  BY DEF Raise, IdleRequest
<1>3. CASE AwaitPayload(r, "login", Peek("login", "login")) /\ UNCHANGED buckets
  <2>1. CASE Peek("login", "login")
    <3> DEFINE b == buckets["login"]
    <3>1. LockoutBound'
      BY <1>3 DEF LockoutInv, LockoutBound
    <3>2. b \in Bucket \cup {None}
      BY DEF TypeOK, BucketKeys
    <3>3. b # None => b.count \in Nat
      BY <3>2 DEF Bucket
    <3>4. /\ Current("login", "login")' => b # None /\ b.count < Limits["login"].limit
          /\ buckets' = buckets
      BY <1>1, <1>3, <2>1 DEF Peek, Current
    <3>5. /\ Cardinality(Underway') \in Nat
          /\ Cardinality(Underway') <= Cardinality(Requests)
      <4>1. Underway' \subseteq Requests
        BY DEF Underway
      <4>2. QED
        BY <4>1, LoginLimit, FS_Subset, FS_CardinalityType
    <3>6. MayStillFail'
      BY <3>3, <3>4, <3>5, LoginLimit DEF MayStillFail
    <3> QED
      BY <3>1, <3>6 DEF LockoutInv
  <2>2. CASE ~Peek("login", "login")
    <3>1. req' = [req EXCEPT ![r] = Raise(r)]
      BY <1>3, <2>2 DEF AwaitPayload
    <3>2. Underway' \subseteq Underway
      BY <1>2, <3>1, LeavesUnderway
    <3> QED
      BY <1>1, <1>3, <3>2, NoMoreUnderway
  <2> QED
    BY <2>1, <2>2
<1>4. CASE AwaitPayload(r, "signup", HitAllowed("signup", "signup")) /\ Hit("signup", "signup")
  <2> DEFINE q == [req[r] EXCEPT !.phase = "payload", !.op = "signup"]
  <2>1. q.op = "signup"
    BY <1>1 DEF Request
  <2>2. req' = [req EXCEPT ![r] = q] \/ req' = [req EXCEPT ![r] = Raise(r)]
    BY <1>4 DEF AwaitPayload, TypeOK
  <2> HIDE DEF q
  <2>3. Underway' \subseteq Underway
    BY <1>2, <2>1, <2>2, LeavesUnderway
  <2>4. buckets'["login"] = buckets["login"]
    BY <1>4 DEF Hit, TypeOK
  <2> QED
    BY <1>1, <2>3, <2>4, NoMoreUnderway
<1> QED
  BY <1>3, <1>4 DEF Begin

\* The one that fails was under way, so what it adds was allowed for.
LEMMA LoginWrongLockout ==
  ASSUME TypeOK, LockoutInv, NEW r \in Requests, NEW e, NEW p, LoginWrong(r, e, p)
  PROVE  LockoutInv'
<1> DEFINE b == buckets["login"]
           n == Cardinality(Underway)
           m == Cardinality(Underway')
           N == Cardinality(Requests)
           lim == Limits["login"].limit
<1>1. /\ r \in Underway /\ now' = now /\ Hit("login", "login")
      /\ req' = [req EXCEPT ![r] = Done(r)]
  BY DEF LoginWrong, ReadyWith, Underway
<1>2. Done(r).phase = "flushed"
  BY DEF Done, TypeOK, Request
<1>3. Underway' = Underway \ {r}
  BY <1>1, <1>2, LeavesUnderway
<1>4. n \in Nat /\ m = n - 1 /\ m \in Nat /\ n <= N
  BY <1>1, <1>3, UnderwaySize, FS_RemoveElement, FS_CardinalityType
<1>5. b \in Bucket \cup {None} /\ now \in Nat /\ now \in 0..MaxTime
      /\ buckets \in [BucketKeys -> Bucket \cup {None}] /\ "login" \in BucketKeys
  BY AccessBounds DEF TypeOK, BucketKeys
<1>6. N \in Nat /\ lim \in Nat /\ lim >= 1
  BY LoginLimit
<1>7. CASE Current("login", "login")
  <2>1. b # None
    BY <1>7 DEF Current
  <2>2. b.count \in Nat /\ b.count + n <= lim - 1 + N
    BY <1>5, <1>7, <2>1 DEF LockoutInv, MayStillFail, Bucket
  <2>3. PICK k : k = More(b.count, MaxHits["login"])
    OBVIOUS
  <2>4. k \in Nat /\ k <= b.count + 1
    BY <2>2, <2>3 DEF More
  <2>5. buckets' = [buckets EXCEPT !["login"] = [b EXCEPT !.count = k]]
    BY <1>1, <1>7, <2>3 DEF Hit
  <2>6. [b EXCEPT !.count = k].count = k
    BY <1>5, <2>1 DEF Bucket
  <2>7. buckets'["login"].count = k
    BY <1>5, <2>5, <2>6
  <2>8. k + m <= lim - 1 + N
    BY <1>4, <1>6, <2>2, <2>4
  <2>9. k <= lim - 1 + N
    BY <1>4, <1>6, <2>4, <2>8
  <2> QED
    BY <2>7, <2>8, <2>9 DEF LockoutInv, LockoutBound, MayStillFail
<1>8. CASE ~Current("login", "login")
  <2>1. buckets'["login"].count = 1
    BY <1>1, <1>5, <1>8 DEF Hit
  <2>2. 1 <= lim - 1 + N /\ 1 + m <= lim - 1 + N
    BY <1>4, <1>6
  <2> QED
    BY <2>1, <2>2 DEF LockoutInv, LockoutBound, MayStillFail
<1> QED
  BY <1>7, <1>8

\* The other steps of a request, by what they make of it.
LEMMA StepsLockout ==
  ASSUME TypeOK, LockoutInv, NEW r \in Requests, NEW q, q.phase # "payload",
         req' = [req EXCEPT ![r] = q],
         buckets'["login"] = buckets["login"], now' = now
  PROVE  LockoutInv'
<1>1. Underway' \subseteq Underway
  BY LeavesUnderway
<1>2. now' \in Nat /\ now <= now'
  BY AccessBounds DEF TypeOK
<1> QED
  BY <1>1, <1>2, NoMoreUnderway

LEMMA BodyLockout ==
  ASSUME TypeOK, LockoutInv, NEW r \in Requests, Body(r)
  PROVE  LockoutInv'
<1>1. req[r] \in Request /\ req \in [Requests -> Request]
  BY DEF TypeOK
<1>2. Done(r).phase = "flushed" /\ Raise(r).phase = "flushed"
  BY <1>1 DEF Done, Raise, Request, IdleRequest
<1>3. \A op : Blocking(r, op).phase = "waiting"
  BY <1>1 DEF Blocking, Request
<1>4. CASE Answer(r)
  BY <1>2, <1>4, StepsLockout DEF Answer
<1>5. CASE Logout(r)
  <2> DEFINE q == [req[r] EXCEPT !.phase = "waiting", !.tx.drop = @ \cup {req[r].own}]
  <2>1. q.phase = "waiting"
    BY <1>1 DEF Request
  <2>2. req' = [req EXCEPT ![r] = q]
    BY <1>1, <1>5 DEF Logout
  <2> HIDE DEF q
  <2> QED
    BY <1>5, <2>1, <2>2, StepsLockout DEF Logout
<1>6. CASE DeleteAccount(r)
  <2>1. PICK q : q.phase = "waiting" /\ req' = [req EXCEPT ![r] = q]
    BY <1>1, <1>6 DEF DeleteAccount, Request
  <2> QED
    BY <1>6, <2>1, StepsLockout DEF DeleteAccount
<1>7. ASSUME NEW e \in Emails, Forgot(r, e) PROVE LockoutInv'
  <2>1. PICK q : q.phase # "payload" /\ req' = [req EXCEPT ![r] = q]
    BY <1>1, <1>2, <1>7 DEF Forgot, Blocking, Request
  <2>2. buckets'["login"] = buckets["login"]
    BY <1>7, AccessBounds DEF Forgot, Hit, TypeOK
  <2> QED
    BY <1>7, <2>1, <2>2, StepsLockout DEF Forgot
<1>8. ASSUME NEW p \in Passwords, Reset(r, p) PROVE LockoutInv'
  <2>1. PICK q : q.phase # "payload" /\ req' = [req EXCEPT ![r] = q]
    BY <1>1, <1>8 DEF Reset, Blocking, Request
  <2> QED
    BY <1>8, <2>1, StepsLockout DEF Reset
<1>9. ASSUME NEW e \in Emails, NEW p \in Passwords, Signup(r, e, p) PROVE LockoutInv'
  <2>0. PICK x : x = Rotated(r, issued["account"] + 1, issued["session"] + 1)
    OBVIOUS
  <2>1. PICK q : q.phase # "payload" /\ req' = [req EXCEPT ![r] = q]
    <3>1. x.phase = "waiting" /\ "phase" \in DOMAIN x
      BY <1>1, <2>0 DEF Rotated, Blocking, Request
    <3>2. PICK y :
            req' = [req EXCEPT ![r] = y] /\
            y = [x EXCEPT
                   !.tx.acct = {[id |-> issued["account"] + 1, email |-> e, pass |-> p]},
                   !.want = {<<"email", e>>}, !.wantshare = {},
                   !.needs = {<<"email", e>>}]
      BY <1>9, <2>0 DEF Signup
    <3>3. y.phase = "waiting"
      BY <3>1, <3>2
    <3> QED
      BY <3>2, <3>3
  <2> QED
    BY <1>9, <2>1, StepsLockout DEF Signup
<1>10. ASSUME NEW e \in Emails, NEW p \in Passwords, LoginRight(r, e, p) PROVE LockoutInv'
  <2>1. PICK q : q.phase # "payload" /\ req' = [req EXCEPT ![r] = q]
    BY <1>1, <1>10 DEF LoginRight, Rotated, Blocking, Request
  <2> QED
    BY <1>10, <2>1, StepsLockout DEF LoginRight
<1> QED
  BY <1>4, <1>5, <1>6, <1>7, <1>8, <1>9, <1>10, LoginWrongLockout DEF Body

LEMMA ServeLockout ==
  ASSUME TypeOK, LockoutInv, NEW r \in Requests, Serve(r)
  PROVE  LockoutInv'
<1>1. req[r] \in Request /\ req \in [Requests -> Request]
  BY DEF TypeOK
<1>2. Raise(r).phase = "flushed" /\ IdleRequest.phase = "idle"
  BY DEF Raise, IdleRequest
<1>3. CASE Flush(r)
  <2>1. Locked(r).phase # "payload"
    <3>1. PICK q : q = [req[r] EXCEPT !.held = @ \cup Wanted(r),
                          !.share = @ \cup req[r].wantshare,
                          !.want = {}, !.wantshare = {}, !.needs = {}]
      OBVIOUS
    <3>2. Locked(r) = IF q.phase = "loading" THEN [q EXCEPT !.phase = "loaded"]
                      ELSE [q EXCEPT !.phase = "flushed", !.op = "thread", !.own = 0]
      BY <3>1 DEF Locked
    <3>3. "phase" \in DOMAIN q /\ "op" \in DOMAIN q /\ "own" \in DOMAIN q
      BY <1>1, <3>1 DEF Request
    <3> QED
      BY <3>2, <3>3
  <2> QED
    BY <1>2, <1>3, <2>1, StepsLockout DEF Flush
<1>4. CASE Deadlock(r)
  BY <1>2, <1>4, StepsLockout DEF Deadlock
<1>5. CASE Exit(r)
  <2>1. PICK q : q.phase = "committing" /\ req' = [req EXCEPT ![r] = q]
    BY <1>1, <1>5 DEF Exit, Request
  <2> QED
    BY <1>5, <2>1, StepsLockout DEF Exit
<1>6. CASE Commit(r) \/ CommitFails(r)
  <2>1. req' = [req EXCEPT ![r] = IdleRequest] /\ UNCHANGED <<buckets, now>>
    BY <1>6 DEF Commit, CommitFails
  <2> QED
    BY <1>2, <2>1, StepsLockout
<1> QED
  BY <1>3, <1>4, <1>5, <1>6, BeginLockout, BodyLockout DEF Serve

LEMMA ArriveLockout ==
  ASSUME TypeOK, LockoutInv, NEW r \in Requests, NEW cookie, Arrive(r, cookie)
  PROVE  LockoutInv'
<1>1. PICK q : q.phase = "loading" /\ req' = [req EXCEPT ![r] = q]
  BY DEF Arrive, IdleRequest
<1> QED
  BY <1>1, StepsLockout DEF Arrive

\* However many logins are under way, each of them adds at most one failure to
\* those that leave the address unlocked (login, RateLimiter.peek and hit).
THEOREM LockoutHolds == Spec => []LockoutBound
<1>1. Init => LockoutInv
  BY DEF Init, LockoutInv, LockoutBound, MayStillFail, Current, BucketKeys
<1>2. ASSUME TypeOK, LockoutInv, [Next]_vars PROVE LockoutInv'
  <2>1. now \in Nat
    BY <1>2 DEF TypeOK
  <2>2. CASE Tick
    BY <1>2, <2>1, <2>2, NoMoreUnderway DEF Tick, Underway
  <2>3. CASE Restart
    BY <2>3 DEF Restart, LockoutInv, LockoutBound, MayStillFail, Current, BucketKeys
  <2>4. CASE UNCHANGED vars
    BY <1>2, <2>1, <2>4, NoMoreUnderway DEF vars, Underway
  <2> QED
    BY <1>2, <2>2, <2>3, <2>4, ServeLockout, ArriveLockout DEF Next
<1>3. LockoutInv => LockoutBound
  BY DEF LockoutInv
<1> QED
  BY <1>1, <1>2, <1>3, AccessTypes, PTL DEF Spec
=============================================================================
