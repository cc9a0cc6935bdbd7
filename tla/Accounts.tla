------------------------------- MODULE Accounts -------------------------------
(***************************************************************************)
(* Registration, sessions and e-mail verification, with the fixed-window   *)
(* rate limiter before a confirmation.                                     *)
(*                                                                         *)
(* A confirmation counts itself in Redis (INCR, then EXPIRE by the first), *)
(* locks the row of its link, then the row of the link's user, and         *)
(* commits.  It can wait at each step while the clock goes on, and die.    *)
(* Passwords and raw tokens are known to their owner; a request that is    *)
(* refused changes nothing and is left out, except the limiter's refusals. *)
(***************************************************************************)
EXTENDS Integers, FiniteSets

CONSTANTS
  User, Session, Token, Request,
  SessionTtl, TokenTtl,
  Limit, Window,  \* of the limiter: requests, and for how long
  MaxTime,        \* bound: of the clock
  MaxFaults,      \* bound: Redis failures and requests that die
  None

ASSUME AccountsAssumption ==
  /\ SessionTtl \in Nat \ {0} /\ TokenTtl \in Nat \ {0}
  /\ Limit \in Nat \ {0} /\ Window \in Nat \ {0}
  /\ MaxTime \in Nat /\ MaxFaults \in Nat
  /\ None \notin Nat /\ None \notin User /\ None \notin Session /\ None \notin Token

Time == 0 .. MaxTime
Stamp == Nat \cup {None}

VARIABLES
  now,
  verified,  \* users.email_verified_at; absent users are not in `users`
  users,
  session, token,  \* the rows; one with user None is not there
  mailed,    \* links that reached their address
  request,   \* where each request stands, and its locals
  count, ttl,      \* the limiter's counter of each window, and its EXPIRE
  let, refused,    \* who was let in: when, and the INCR (or, negative, the
                   \* failure of it); windows with a 429
  faults

rows == <<verified, users, session, token, mailed>>
limiter == <<count, ttl, let, refused>>
vars == <<now, rows, request, limiter, faults>>

NoSession == [user |-> None, expires |-> 0, revoked |-> None]
NoToken == [user |-> None, issued |-> 0, expires |-> 0, consumed |-> None]
Idle == [pc |-> "idle", token |-> None, user |-> None, at |-> 0, first |-> FALSE]

Key(t) == t \div Window

Init ==
  /\ now = 0
  /\ users = {} /\ verified = [u \in User |-> None]
  /\ session = [s \in Session |-> NoSession] /\ token = [k \in Token |-> NoToken]
  /\ mailed = {}
  /\ request = [r \in Request |-> Idle]
  /\ count = [w \in Time |-> 0] /\ ttl = [w \in Time |-> None]
  /\ let = {} /\ refused = {}
  /\ faults = 0

Fault == faults < MaxFaults /\ faults' = faults + 1
Run(r, local) == request' = [request EXCEPT ![r] = local]

(* Time passes; Redis drops the keys whose EXPIRE is over. *)
Advance ==
  /\ now < MaxTime
  /\ now' = now + 1
  /\ count' = [w \in Time |-> IF ttl[w] = now + 1 THEN 0 ELSE count[w]]
  /\ ttl' = [w \in Time |-> IF ttl[w] = now + 1 THEN None ELSE ttl[w]]
  /\ UNCHANGED <<rows, request, let, refused, faults>>

-----------------------------------------------------------------------------
(* Accounts and sessions.                                                  *)

IssueSession(s, u) ==
  /\ session[s] = NoSession
  /\ session' = [session EXCEPT ![s] = [NoSession EXCEPT !.user = u, !.expires = now + SessionTtl]]

(* Slip: the mail goes out before a commit that may not come. *)
IssueTokenEarly(k, u) ==
  /\ token[k] = NoToken
  /\ token' \in {token, [token EXCEPT ![k] =
       [NoToken EXCEPT !.user = u, !.issued = now, !.expires = now + TokenTtl]]}
  /\ mailed' = mailed \cup {k}

(* issue_token; the mail may not arrive. *)
IssueToken(k, u) ==
  /\ token[k] = NoToken
  /\ token' = [token EXCEPT ![k] =
       [NoToken EXCEPT !.user = u, !.issued = now, !.expires = now + TokenTtl]]
  /\ mailed' \in {mailed, mailed \cup {k}}

(* The row, the session and the first link are committed together. *)
Register(u, s, k) ==
  /\ u \notin users
  /\ users' = users \cup {u}
  /\ IssueSession(s, u) /\ IssueToken(k, u)
  /\ UNCHANGED <<now, verified, request, limiter, faults>>

Login(u, s) ==
  /\ u \in users
  /\ IssueSession(s, u)
  /\ UNCHANGED <<now, verified, users, token, mailed, request, limiter, faults>>

Logout(s) ==
  /\ session[s].user # None /\ session[s].revoked = None
  /\ session' = [session EXCEPT ![s].revoked = now]
  /\ UNCHANGED <<now, verified, users, token, mailed, request, limiter, faults>>

(* load_user_by_session_token. *)
Live(s) ==
  /\ session[s].user # None /\ session[s].revoked = None
  /\ session[s].expires > now

(* request_verification: the user is loaded with the session, and a new    *)
(* link issued if the address was not confirmed then.                      *)
AskAgain(r, s) ==
  /\ request[r].pc = "idle"
  /\ Live(s) /\ verified[session[s].user] = None
  /\ Run(r, [Idle EXCEPT !.pc = "issue", !.user = session[s].user])
  /\ UNCHANGED <<now, rows, limiter, faults>>

(* Who holds the row of a link, or of a user, FOR UPDATE. *)
HoldsToken(r, k) == request[r].token = k /\ request[r].pc \in {"user", "commit"}
HoldsUser(r, u) == request[r].user = u /\ request[r].pc = "commit"

(* The foreign key of the new row waits for a lock on the user's. *)
Issue(r, k) ==
  /\ request[r].pc = "issue"
  /\ \A q \in Request : ~HoldsUser(q, request[r].user)
  /\ IssueToken(k, request[r].user)
  /\ Run(r, Idle)
  /\ UNCHANGED <<now, verified, users, session, limiter, faults>>

-----------------------------------------------------------------------------
(* The limiter.                                                            *)

LetIn(r, pc, k, number) ==
  /\ Run(r, [Idle EXCEPT !.pc = pc, !.token = k, !.at = Key(now)])
  /\ let' = let \cup {[at |-> now, number |-> number]}

(* Slip: one request too many. *)
OverSlip(n) == n > Limit + 1

Over(n) == n > Limit

(* INCR; a failure lets the request in.  Bound: a refusal to a window. *)
Count(r, k) ==
  LET w == Key(now)
      n == count[w] + 1
  IN  /\ request[r].pc = "idle" /\ k \in mailed
      /\ \/ /\ ~Over(count[w])
            /\ count' = [count EXCEPT ![w] = n]
            /\ IF Over(n) THEN refused' = refused \cup {now \div Window} /\ UNCHANGED <<request, let>>
               ELSE LetIn(r, IF n = 1 THEN "expire" ELSE "token", k, n) /\ UNCHANGED refused
            /\ UNCHANGED faults
         \/ /\ Fault
            /\ LetIn(r, "token", k, -faults')
            /\ UNCHANGED <<count, refused>>
      /\ UNCHANGED <<now, rows, ttl>>

(* The first of a window sets its EXPIRE, or fails to, and goes on. *)
Expire(r) ==
  LET w == request[r].at
  IN  /\ request[r].pc = "expire"
      /\ \/ /\ ttl' = IF count[w] = 0 THEN ttl ELSE [ttl EXCEPT ![w] = now + Window]
            /\ UNCHANGED faults
         \/ Fault /\ UNCHANGED ttl
      /\ Run(r, [request[r] EXCEPT !.pc = "token"])
      /\ UNCHANGED <<now, rows, count, let, refused>>

-----------------------------------------------------------------------------
(* consume_token.                                                          *)

(* Slip: a link is still good at the instant it expires. *)
SpentSlip(k) == token[k].consumed # None \/ token[k].expires < now

Spent(k) == token[k].consumed # None \/ token[k].expires <= now

LockToken(r) ==
  LET k == request[r].token
  IN  /\ request[r].pc = "token"
      /\ \A q \in Request : ~HoldsToken(q, k)
      /\ Run(r, IF Spent(k) THEN Idle
                ELSE [request[r] EXCEPT !.pc = "user", !.user = token[k].user, !.at = now])
      /\ UNCHANGED <<now, rows, limiter, faults>>

(* Slip: the user's row is read without its lock. *)
LockUserNot(r) ==
  LET u == request[r].user
  IN  /\ request[r].pc = "user"
      /\ Run(r, [request[r] EXCEPT !.pc = "commit", !.first = verified[u] = None])
      /\ UNCHANGED <<now, rows, limiter, faults>>

LockUser(r) ==
  LET u == request[r].user
  IN  /\ request[r].pc = "user"
      /\ \A q \in Request : ~HoldsUser(q, u)
      /\ Run(r, [request[r] EXCEPT !.pc = "commit", !.first = verified[u] = None])
      /\ UNCHANGED <<now, rows, limiter, faults>>

Commit(r) ==
  LET q == request[r]
  IN  /\ q.pc = "commit"
      /\ token' = [token EXCEPT ![q.token].consumed = q.at]
      /\ verified' = IF q.first THEN [verified EXCEPT ![q.user] = q.at] ELSE verified
      /\ Run(r, Idle)
      /\ UNCHANGED <<now, users, session, mailed, limiter, faults>>

(* The request dies: PostgreSQL rolls back and unlocks. *)
Die(r) ==
  /\ request[r].pc # "idle"
  /\ Fault
  /\ Run(r, Idle)
  /\ UNCHANGED <<now, rows, limiter>>

Confirm(r) == (\E k \in Token : Count(r, k)) \/ Expire(r) \/ LockToken(r) \/ LockUser(r) \/ Commit(r)

Next ==
  \/ Advance
  \/ \E u \in User, s \in Session : Login(u, s) \/ \E k \in Token : Register(u, s, k)
  \/ \E s \in Session : Logout(s) \/ \E r \in Request : AskAgain(r, s)
  \/ \E r \in Request : Confirm(r) \/ Die(r) \/ \E k \in Token : Issue(r, k)

Spec == Init /\ [][Next]_vars

-----------------------------------------------------------------------------
SessionRow == [user : User \cup {None}, expires : Nat, revoked : Stamp]
TokenRow == [user : User \cup {None}, issued : Nat, expires : Nat, consumed : Stamp]
Local == [pc : {"idle", "issue", "expire", "token", "user", "commit"},
          token : Token \cup {None}, user : User \cup {None},
          at : Nat, first : BOOLEAN]

(* Types. *)
TypeOK ==
  /\ now \in Nat
  /\ users \subseteq User /\ verified \in [User -> Stamp]
  /\ session \in [Session -> SessionRow] /\ token \in [Token -> TokenRow]
  /\ mailed \subseteq {k \in Token : token[k].user # None}
  /\ request \in [Request -> Local]
  /\ count \in [Time -> Nat] /\ ttl \in [Time -> Stamp]

(* Two clicks on one link, two links of one user, a link asked for while   *)
(* the address was being confirmed: a link is redeemed once and an address *)
(* confirmed once, and neither moment is ever rewritten.                   *)
SetOnce ==
  [][/\ \A u \in User : verified[u] # None => verified'[u] = verified[u]
     /\ \A k \in Token : token[k].consumed # None => token'[k] = token[k]]_vars

(* An address is confirmed by a link of its own that was alive then,       *)
(* however long the request waited for its locks.                          *)
VerifiedByLiveLink ==
  \A u \in User : verified[u] # None =>
    \E k \in mailed : /\ token[k].user = u /\ token[k].consumed = verified[u]
                      /\ token[k].issued <= verified[u] /\ verified[u] < token[k].expires

(* However long, no stretch of Window lets in more than twice the limit,   *)
(* but for requests Redis failed to count; and a lost EXPIRE or a crowded  *)
(* window never turns away a request of a window with fewer than Limit.    *)
Admitted(first, last) == Cardinality({a \in let : first <= a.at /\ a.at <= last})

LimitKept ==
  /\ \A t \in Time : Admitted(t, t + Window - 1) <= 2 * Limit + faults
  /\ \A w \in refused : Admitted(w * Window, w * Window + Window - 1) >= Limit

=============================================================================
