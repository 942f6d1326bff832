------------------------------- MODULE Access -------------------------------
(***************************************************************************)
(* Sessions, sign-up, login, password reset, account deletion and their    *)
(* rate limits, as requests served by one process.                         *)
(*                                                                         *)
(* The process has one event loop and a pool of threads.  Dependencies     *)
(* (the session row) and plain handlers run in threads; async handlers run *)
(* their statements on the loop itself, so while one of them waits for a   *)
(* row lock no request can take its next step on the loop.  Commits run in *)
(* a thread, but it is the loop that hands them over.                      *)
(*                                                                         *)
(* accounts, sessions and tokens are COMMITTED.  A request reads them when *)
(* its body runs, locks what it writes, and everything it writes appears   *)
(* at its commit.  The locks of a body are taken together.                 *)
(***************************************************************************)
EXTENDS Naturals, FiniteSets

CONSTANTS
  Requests,      \* requests served at one time
  Emails,        \* addresses people sign up with
  Passwords,
  Limits,        \* LIMITS: [limit, window] of each limiter
  SessionTTL,    \* SESSION_TTL_DAYS
  ResetTTL,      \* RESET_TOKEN_TTL_HOURS
  MaxSessions,   \* bound: sessions ever opened
  MaxAccounts,   \* bound: accounts ever signed up
  MaxTokens,     \* bound: reset tokens ever mailed
  MaxTime,       \* bound: the clock
  MaxHits,       \* bound: how far each limiter counts; at or above the limit
                 \* the count itself is not looked at
  None

ASSUME AccessBounds ==
  /\ IsFiniteSet(Requests)
  /\ Limits \in [{"login", "signup", "password_reset"} ->
                   [limit: Nat \ {0}, window: Nat \ {0}]]
  /\ {SessionTTL, ResetTTL, MaxSessions, MaxAccounts, MaxTokens, MaxTime} \subseteq Nat
  /\ MaxHits \in [DOMAIN Limits -> Nat]
  /\ Emails \cap {"login", "signup"} = {}
  /\ None \notin Nat

VARIABLES
  accounts,   \* accounts: id, email, pass_hash
  sessions,   \* sessions: id (the token), account or None, expires_at
  tokens,     \* reset_tokens
  issued,     \* how many ids of each kind have been given out
  dead,       \* history: sessions deleted by a commit
  buckets,    \* RateLimiter._buckets
  req,        \* what each request does
  now

vars == <<accounts, sessions, tokens, issued, dead, buckets, req, now>>

Account == [id: 1..MaxAccounts, email: Emails, pass: Passwords]
Session == [id: 1..MaxSessions, account: (1..MaxAccounts) \cup {None}, exp: Nat]
Token == [id: 1..MaxTokens, account: 1..MaxAccounts, exp: Nat, used: BOOLEAN]

\* What the limiters count by: the client address (one here) or the email.
BucketKeys == {"login", "signup"} \cup Emails
Bucket == [count: Nat, start: 0..MaxTime]

\* Handlers, told apart once their body runs; the others are in "thread".
Async == {"signup", "login", "forgot", "reset"}
Ops == Async \cup {"thread"}

\* Row and key locks.  "key" is what a foreign key check shares and only a
\* DELETE of the account takes exclusively.
Lock == ({"session"} \X (1..MaxSessions)) \cup ({"account", "key"} \X (1..MaxAccounts))
          \cup ({"email"} \X Emails) \cup ({"token"} \X (1..MaxTokens))

\* What a transaction writes.
Writes == [put: SUBSET Session, drop: SUBSET (1..MaxSessions),
           acct: SUBSET Account, gone: SUBSET (1..MaxAccounts), tok: SUBSET Token]
Nothing == [put |-> {}, drop |-> {}, acct |-> {}, gone |-> {}, tok |-> {}]

\* loading: at the session row; loaded; payload: the form is awaited; waiting:
\* the body has read and takes its locks; flushed; committing.
Phases == {"idle", "loading", "loaded", "payload", "waiting", "flushed", "committing"}

Request == [op: Ops, phase: Phases, own: 0..MaxSessions, tx: Writes,
            held: SUBSET Lock, want: SUBSET Lock,
            share: SUBSET Lock, wantshare: SUBSET Lock, needs: SUBSET Lock]
IdleRequest == [op |-> "thread", phase |-> "idle", own |-> 0, tx |-> Nothing,
                held |-> {}, want |-> {}, share |-> {}, wantshare |-> {}, needs |-> {}]

TypeOK ==
  /\ accounts \subseteq Account
  /\ sessions \subseteq Session
  /\ tokens \subseteq Token
  /\ issued \in [{"session", "account", "token"} -> Nat]
  /\ dead \subseteq 1..MaxSessions
  /\ buckets \in [BucketKeys -> Bucket \cup {None}]
  /\ req \in [Requests -> Request]
  /\ now \in 0..MaxTime

Init ==
  /\ accounts = {} /\ sessions = {} /\ tokens = {} /\ dead = {}
  /\ issued = [kind \in {"session", "account", "token"} |-> 0]
  /\ buckets = [k \in BucketKeys |-> None]
  /\ req = [r \in Requests |-> IdleRequest]
  /\ now = 0

Ids(S) == {x.id : x \in S}

-----------------------------------------------------------------------------
(* RateLimiter: a fixed window per key, opened by its first attempt.       *)

Current(k, name) ==
  buckets[k] # None /\ now - buckets[k].start < Limits[name].window

\* peek: does not record.
NeverLocked(k, name) == TRUE                                  \* mutant
Peek(k, name) == Current(k, name) => buckets[k].count < Limits[name].limit

\* hit records the attempt, allowed or not.
HitUntil(k, name) ==                                          \* mutant
  buckets' = [buckets EXCEPT ![k] =
                IF Current(k, name) THEN @
                ELSE [count |-> 1, start |-> now + Limits[name].window]]
More(n, bound) == IF n < bound THEN n + 1 ELSE n
Hit(k, name) ==
  buckets' = [buckets EXCEPT ![k] =
                IF Current(k, name)
                THEN [@ EXCEPT !.count = More(buckets[k].count, MaxHits[name])]
                ELSE [count |-> 1, start |-> now]]
HitAllowed(k, name) == Current(k, name) => buckets[k].count < Limits[name].limit

-----------------------------------------------------------------------------
(* Locks and the event loop.                                               *)

Busy(q) == req[q].phase # "idle"

\* What a body still has to lock; the deletion of an account also the sessions
\* and tokens that refer to it by then.
Referring(S, T) == {<<"session", s.id>> : s \in S} \cup {<<"token", t.id>> : t \in T}
Wanted(r) ==
  IF req[r].phase = "waiting"
  THEN req[r].want \cup Referring({s \in sessions : s.account \in req[r].tx.gone},
                                  {t \in tokens : t.account \in req[r].tx.gone})
  ELSE req[r].want

WaitsFor(r, q) ==
  /\ r # q
  /\ \/ Wanted(r) \cap (req[q].held \cup req[q].share) # {}
     \/ req[r].wantshare \cap req[q].held # {}
Conflicts(r) == \E q \in Requests : WaitsFor(r, q)

\* A smallest set of requests that wait for each other is a cycle.
Ring(S) == S # {} /\ \A q \in S : \E p \in S : WaitsFor(q, p)
Cycle(S) == Ring(S) /\ \A T \in SUBSET S : Ring(T) => T = S

\* The body of an async handler keeps the loop until its flush returns.
SessionOnLoop(r) == req[r].phase \in {"loading", "waiting"}   \* mutant
OnLoop(r) == req[r].phase = "waiting" /\ req[r].op \in Async
LoopFree == \A r \in Requests : ~OnLoop(r)

Writable(lock) ==
  CASE lock[1] = "session" -> lock[2] \in Ids(sessions)
    [] lock[1] = "email" -> lock[2] \notin {a.email : a \in accounts}
    [] lock[1] = "token" -> lock[2] \in Ids(tokens)
    [] OTHER -> lock[2] \in Ids(accounts)

\* An exception: the transaction is rolled back when the request ends.
Raise(r) == [IdleRequest EXCEPT !.phase = "flushed", !.held = req[r].held]

\* The locks are taken; the handler is done once it has flushed.
Locked(r) ==
  LET q == [req[r] EXCEPT !.held = @ \cup Wanted(r), !.share = @ \cup req[r].wantshare,
                          !.want = {}, !.wantshare = {}, !.needs = {}]
  IN IF q.phase = "loading" THEN [q EXCEPT !.phase = "loaded"]
     ELSE [q EXCEPT !.phase = "flushed", !.op = "thread", !.own = 0]

-----------------------------------------------------------------------------
(* The session row of a request (_load_session_row, web_context).          *)

Fresh(account, n) == [id |-> n, account |-> account, exp |-> now + SessionTTL]

\* No row for the cookie, or an expired one, which is deleted: an anonymous
\* row is added.  Otherwise expires_at slides.
Arrive(r, cookie) ==
  LET row == {s \in sessions : s.id = cookie}
      live == {s \in row : s.exp >= now}
      n == issued["session"] + 1
  IN /\ ~Busy(r)
     /\ IF live # {}
        THEN /\ req' = [req EXCEPT ![r] =
                  [IdleRequest EXCEPT !.phase = "loading", !.own = cookie,
                     !.tx.put = {[s EXCEPT !.exp = now + SessionTTL] : s \in live},
                     !.want = {<<"session", cookie>>}, !.needs = {<<"session", cookie>>}]]
             /\ UNCHANGED issued
        ELSE /\ n <= MaxSessions
             /\ req' = [req EXCEPT ![r] =
                  [IdleRequest EXCEPT !.phase = "loading", !.own = n,
                     !.tx.put = {Fresh(None, n)}, !.tx.drop = Ids(row),
                     !.want = {<<"session", i>> : i \in Ids(row)}]]
             /\ issued' = [issued EXCEPT !["session"] = n]
     /\ UNCHANGED <<accounts, sessions, tokens, dead, buckets, now>>

\* A flush: it waits for the rows it writes; an UPDATE whose row is gone, a
\* foreign key without its account and a second row for an email raise.
TakeStale(r) ==                                               \* mutant
  /\ req[r].phase \in {"loading", "waiting"}
  /\ ~Conflicts(r)
  /\ req' = [req EXCEPT ![r] = Locked(r)]
  /\ UNCHANGED <<accounts, sessions, tokens, issued, dead, buckets, now>>
Flush(r) ==
  /\ req[r].phase \in {"loading", "waiting"}
  /\ ~Conflicts(r)
  /\ req' = [req EXCEPT ![r] =
       IF \A lock \in req[r].needs : Writable(lock)
       THEN Locked(r) ELSE Raise(r)]
  /\ UNCHANGED <<accounts, sessions, tokens, issued, dead, buckets, now>>

\* PostgreSQL finds a cycle of lock waits and raises in one of them.  It does
\* not see who waits for the loop.
Deadlock(r) ==
  /\ \E S \in SUBSET Requests : r \in S /\ Cycle(S)
  /\ req' = [req EXCEPT ![r] = Raise(r)]
  /\ UNCHANGED <<accounts, sessions, tokens, issued, dead, buckets, now>>

\* The session row as this transaction has it.
Own(r) == CHOOSE s \in req[r].tx.put : s.id = req[r].own

-----------------------------------------------------------------------------
(* Before the payload is there.                                            *)

AwaitPayload(r, op, allowed) ==
  req' = [req EXCEPT ![r] = IF allowed THEN [@ EXCEPT !.phase = "payload", !.op = op]
                                       ELSE Raise(r)]

\* login only looks at its bucket, signup counts the attempt.
Begin(r) ==
  /\ LoopFree
  /\ req[r].phase = "loaded"
  /\ \/ /\ AwaitPayload(r, "login", Peek("login", "login"))
        /\ UNCHANGED buckets
     \/ /\ AwaitPayload(r, "signup", HitAllowed("signup", "signup"))
        /\ Hit("signup", "signup")
  /\ UNCHANGED <<accounts, sessions, tokens, issued, dead, now>>

-----------------------------------------------------------------------------
(* The bodies.  Each is one step on the loop, or in its thread, up to its  *)
(* flush.                                                                  *)

AtBody(r) == LoopFree /\ req[r].phase \in {"loaded", "payload"}
Ready(r) == LoopFree /\ req[r].phase = "loaded"
ReadyWith(r, op) == LoopFree /\ req[r].phase = "payload" /\ req[r].op = op

\* An async body has read and goes to its flush.
Blocking(r, op) == [req[r] EXCEPT !.phase = "waiting", !.op = op]
\* The handler is done without a flush of its own.
Done(r) == [req[r] EXCEPT !.phase = "flushed", !.op = "thread", !.own = 0]

\* An error page: what the session row gained is kept.  A refusal (CSRF,
\* foreign origin, not logged in) is an exception.
Answer(r) ==
  /\ AtBody(r)
  /\ \/ req' = [req EXCEPT ![r] = Done(r)]
     \/ req' = [req EXCEPT ![r] = Raise(r)]
  /\ UNCHANGED <<accounts, sessions, tokens, issued, dead, buckets, now>>

\* A row that refers to the account is inserted only if the account is there,
\* and shares a lock that its deletion waits for.
NoForeignKey(a) == {}                                         \* mutant
ForeignKey(a) == {<<"key", a>>}

\* rotate_session: a new row for the account; the anonymous row goes.
Rotated(r, a, n) ==
  [Blocking(r, req[r].op) EXCEPT
     !.tx.put = @ \cup {Fresh(a, n)},
     !.tx.drop = @ \cup (IF Own(r).account = None THEN {req[r].own} ELSE {}),
     !.wantshare = ForeignKey(a),
     !.needs = ForeignKey(a)]

Signup(r, e, p) ==
  LET a == issued["account"] + 1
      n == issued["session"] + 1
  IN /\ ReadyWith(r, "signup")
     /\ a <= MaxAccounts /\ n <= MaxSessions
     /\ \A acc \in accounts : acc.email # e
     /\ req' = [req EXCEPT ![r] =
          [Rotated(r, a, n) EXCEPT
             !.tx.acct = {[id |-> a, email |-> e, pass |-> p]},
             !.want = {<<"email", e>>}, !.wantshare = {}, !.needs = {<<"email", e>>}]]
     /\ issued' = [issued EXCEPT !["account"] = a, !["session"] = n]
     /\ UNCHANGED <<accounts, sessions, tokens, dead, buckets, now>>

\* The password of the account, or of the dummy hash, is compared.
LoginRight(r, e, p) ==
  LET n == issued["session"] + 1
  IN /\ ReadyWith(r, "login")
     /\ n <= MaxSessions
     /\ \E acc \in accounts :
          /\ acc.email = e /\ acc.pass = p
          /\ req' = [req EXCEPT ![r] = Rotated(r, acc.id, n)]
     /\ issued' = [issued EXCEPT !["session"] = n]
     /\ UNCHANGED <<accounts, sessions, tokens, dead, buckets, now>>

\* Only a failure counts against the address.
LoginWrong(r, e, p) ==
  /\ ReadyWith(r, "login")
  /\ ~\E acc \in accounts : acc.email = e /\ acc.pass = p
  /\ Hit("login", "login")
  /\ req' = [req EXCEPT ![r] = Done(r)]
  /\ UNCHANGED <<accounts, sessions, tokens, issued, dead, now>>

Logout(r) ==
  /\ Ready(r)
  /\ req' = [req EXCEPT ![r].phase = "waiting", ![r].tx.drop = @ \cup {req[r].own}]
  /\ UNCHANGED <<accounts, sessions, tokens, issued, dead, buckets, now>>

\* The token is mailed before its row is committed; earlier ones stay valid.
Forgot(r, e) ==
  LET t == issued["token"] + 1
      of == {acc \in accounts : acc.email = e}
  IN /\ Ready(r)
     /\ Hit(e, "password_reset")
     /\ IF ~HitAllowed(e, "password_reset")
        THEN /\ req' = [req EXCEPT ![r] = Raise(r)]
             /\ UNCHANGED issued
        ELSE IF of = {}
        THEN /\ req' = [req EXCEPT ![r] = Done(r)]
             /\ UNCHANGED issued
        ELSE /\ t <= MaxTokens
             /\ req' = [req EXCEPT ![r] =
                  [Blocking(r, "forgot") EXCEPT
                     !.tx.tok = {[id |-> t, account |-> a, exp |-> now + ResetTTL,
                                  used |-> FALSE] : a \in Ids(of)},
                     !.wantshare = UNION {ForeignKey(a) : a \in Ids(of)},
                     !.needs = UNION {ForeignKey(a) : a \in Ids(of)}]]
             /\ issued' = [issued EXCEPT !["token"] = t]
     /\ UNCHANGED <<accounts, sessions, tokens, dead, now>>

\* Sets the password, marks the token used, deletes the account's sessions.
Reset(r, p) ==
  /\ Ready(r)
  /\ \E t \in tokens, acc \in accounts :
       /\ t.account = acc.id /\ ~t.used /\ t.exp >= now
       /\ LET mine == {s \in sessions : s.account = acc.id}
          IN req' = [req EXCEPT ![r] =
               [Blocking(r, "reset") EXCEPT
                  !.tx.acct = {[acc EXCEPT !.pass = p]},
                  !.tx.tok = {[t EXCEPT !.used = TRUE]},
                  !.tx.drop = @ \cup Ids(mine),
                  !.want = {<<"account", acc.id>>, <<"token", t.id>>}
                             \cup {<<"session", i>> : i \in Ids(mine)},
                  !.needs = {<<"account", acc.id>>, <<"token", t.id>>}]]
  /\ UNCHANGED <<accounts, sessions, tokens, issued, dead, buckets, now>>

\* The foreign keys take sessions and tokens with the account.
DeleteAccount(r) ==
  /\ Ready(r)
  /\ \E acc \in accounts :
       /\ acc.id = Own(r).account
       /\ req' = [req EXCEPT ![r] =
            [@ EXCEPT !.phase = "waiting", !.tx.gone = {acc.id},
               !.want = {<<"account", acc.id>>, <<"key", acc.id>>, <<"email", acc.email>>}]]
  /\ UNCHANGED <<accounts, sessions, tokens, issued, dead, buckets, now>>

-----------------------------------------------------------------------------
(* The end of a request (get_db).                                          *)

Exit(r) ==
  /\ LoopFree
  /\ req[r].phase = "flushed"
  /\ req' = [req EXCEPT ![r].phase = "committing"]
  /\ UNCHANGED <<accounts, sessions, tokens, issued, dead, buckets, now>>

Commit(r) ==
  LET tx == req[r].tx
      kept == {s \in sessions : s.id \notin Ids(tx.put)} \cup tx.put
      left == {s \in kept : s.id \notin tx.drop /\ s.account \notin tx.gone}
  IN /\ req[r].phase = "committing"
     /\ sessions' = left
     /\ accounts' = {a \in accounts : a.id \notin Ids(tx.acct) \cup tx.gone} \cup tx.acct
     /\ tokens' = {t \in tokens : t.id \notin Ids(tx.tok) /\ t.account \notin tx.gone}
                    \cup tx.tok
     /\ dead' = dead \cup {i \in Ids(sessions) \cup Ids(tx.put) : i \notin Ids(left)}
     /\ req' = [req EXCEPT ![r] = IdleRequest]
     /\ UNCHANGED <<issued, buckets, now>>

\* The commit is refused by the database.
CommitFails(r) ==
  /\ req[r].phase = "committing"
  /\ req' = [req EXCEPT ![r] = IdleRequest]
  /\ UNCHANGED <<accounts, sessions, tokens, issued, dead, buckets, now>>

Tick == now < MaxTime /\ now' = now + 1
        /\ UNCHANGED <<accounts, sessions, tokens, issued, dead, buckets, req>>

\* A restart of the process: requests and buckets are gone.
Restart ==
  /\ req' = [r \in Requests |-> IdleRequest]
  /\ buckets' = [k \in BucketKeys |-> None]
  /\ UNCHANGED <<accounts, sessions, tokens, issued, dead, now>>

Body(r) ==
  \/ Answer(r) \/ Logout(r) \/ DeleteAccount(r)
  \/ \E e \in Emails : Forgot(r, e)
  \/ \E p \in Passwords : Reset(r, p)
  \/ \E e \in Emails, p \in Passwords :
       Signup(r, e, p) \/ LoginRight(r, e, p) \/ LoginWrong(r, e, p)

Serve(r) == Flush(r) \/ Deadlock(r) \/ Begin(r) \/ Body(r) \/ Exit(r) \/ Commit(r) \/ CommitFails(r)

Next ==
  \/ \E r \in Requests, cookie \in 0..issued["session"] : Arrive(r, cookie)
  \/ \E r \in Requests : Serve(r)
  \/ Tick
  \/ Restart

Spec == Init /\ [][Next]_vars

\* The loop runs its tasks in the order they became ready and PostgreSQL
\* grants a row lock in the order it was asked for: a request that can go on
\* again and again does.
Fairness == \A r \in Requests : SF_vars(Serve(r))
FairSpec == Spec /\ Fairness

-----------------------------------------------------------------------------

\* The limit of failed logins is checked before the form is awaited and
\* counted after the password is compared (login, RateLimiter.peek and hit):
\* requests already past the check may exceed it, and nothing else does.
LockoutBound ==
  buckets["login"] # None =>
    buckets["login"].count <= Limits["login"].limit - 1 + Cardinality(Requests)

\* A session once deleted (logout, rotate_session, reset_password, an account
\* deletion, an expiry) is never back, whatever request was refreshing its
\* expires_at at the time.
DeadStayDead == dead \cap Ids(sessions) = {}

\* Sessions and reset tokens belong to accounts that exist, and an email to
\* one account, although login, signup and forgot_password read the account
\* before another request deletes or creates it.
Integrity ==
  /\ \A x \in {s \in sessions : s.account # None} \cup tokens :
       x.account \in Ids(accounts)
  /\ \A a, b \in accounts : a.email = b.email => a = b

\* The body of an async handler waits for a row whose holder can only go on
\* when the loop is free.
Hung ==
  \E r \in Requests :
    req[r].phase = "waiting" /\ req[r].op \in Async /\ Conflicts(r)

\* Requests for one session wait for each other in threads (_load_session_row
\* holds the row until the commit), so every request is answered unless the
\* loop itself hangs in the body of an async handler.
AnsweredUnlessHung ==
  <>[]Hung \/ \A r \in Requests : (req[r].phase # "idle" ~> req[r].phase = "idle")
=============================================================================
