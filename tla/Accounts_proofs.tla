---------------------------- MODULE Accounts_proofs ----------------------------
(***************************************************************************)
(* Proofs about Accounts: its types, that links are redeemed and addresses *)
(* confirmed once, by a live link, and that the limiter keeps its limit.   *)
(*                                                                         *)
(* AInv is inductive.  What it adds to the properties is what a waiting    *)
(* request may rely on: the row it has locked is still as it read it,      *)
(* because nobody else can be at that row.  LimiterInv, inductive with it, *)
(* says that the numbers INCR gives out are given once in a window.        *)
(***************************************************************************)
EXTENDS Accounts, FiniteSetTheorems, TLAPS

AtToken(r) == request[r].pc \in {"user", "commit"}

(* What a confirmation read of its link still holds. *)
LinkAsRead ==
  \A r \in Request :
    /\ request[r].pc \in {"expire", "token", "user", "commit"} => request[r].token \in mailed
    /\ AtToken(r) =>
         LET k == token[request[r].token]
         IN  /\ k.consumed = None /\ k.user = request[r].user
             /\ k.issued <= request[r].at /\ request[r].at < k.expires

(* And of the user's row, once it has that lock too. *)
UserAsRead ==
  \A r \in Request :
    request[r].pc = "commit" => (request[r].first <=> verified[request[r].user] = None)

(* No two requests are at one link's row, or at one user's. *)
Exclusive ==
  \A r, q \in Request : r # q =>
    /\ AtToken(r) /\ AtToken(q) => request[r].token # request[q].token
    /\ request[r].pc = "commit" /\ request[q].pc = "commit" => request[r].user # request[q].user

(* A request for a new link is one of a user. *)
AskerKnown == \A r \in Request : request[r].pc = "issue" => request[r].user \in User

(* Links are not of the future. *)
MintedInPast == \A k \in Token : token[k].user # None => token[k].issued <= now

AInv ==
  /\ TypeOK /\ LinkAsRead /\ UserAsRead /\ Exclusive /\ AskerKnown /\ MintedInPast
  /\ VerifiedByLiveLink

(* The initial states satisfy the invariant. *)
LEMMA InitAInv == Init => AInv
<1> SUFFICES ASSUME Init PROVE AInv
  OBVIOUS
<1> USE AccountsAssumption DEF Init
<1>1. TypeOK
  BY DEF TypeOK, NoSession, NoToken, Idle, Stamp, SessionRow, TokenRow, Local
<1>2. \A r \in Request : request[r].pc = "idle"
  BY DEF Idle
<1>3. \A k \in Token : token[k].user = None
  BY DEF NoToken
<1> QED
  BY <1>1, <1>2, <1>3 DEF AInv, LinkAsRead, UserAsRead, Exclusive, AskerKnown, MintedInPast,
     VerifiedByLiveLink, AtToken

(* A request moves alone. *)
LEMMA RunMoves ==
  ASSUME TypeOK, NEW r \in Request, NEW local \in Local, Run(r, local)
  PROVE  /\ request' \in [Request -> Local]
         /\ request'[r] = local
         /\ \A q \in Request \ {r} : request'[q] = request[q]
BY DEF TypeOK, Run

(* A new session is a new row. *)
LEMMA SessionIssued ==
  ASSUME TypeOK, NEW u \in User, NEW s \in Session, IssueSession(s, u)
  PROVE  /\ session' \in [Session -> SessionRow]
         /\ session[s].user = None
         /\ session'[s].user = u
         /\ \A t \in Session \ {s} : session'[t] = session[t]
<1>1. now + SessionTtl \in Nat
  BY AccountsAssumption DEF TypeOK
<1>2. [NoSession EXCEPT !.user = u, !.expires = now + SessionTtl] \in SessionRow
  BY <1>1 DEF NoSession, SessionRow, Stamp
<1> QED
  BY <1>2 DEF TypeOK, IssueSession, NoSession

(* So is a new link, and nobody had it before. *)
LEMMA TokenIssued ==
  ASSUME TypeOK, NEW u \in User, NEW k \in Token, IssueToken(k, u)
  PROVE  /\ token' \in [Token -> TokenRow]
         /\ token[k] = NoToken /\ k \notin mailed
         /\ token'[k] = [user |-> u, issued |-> now, expires |-> now + TokenTtl, consumed |-> None]
         /\ \A j \in Token \ {k} : token'[j] = token[j]
         /\ mailed \subseteq mailed' /\ mailed' \subseteq mailed \cup {k}
         /\ mailed' \subseteq {j \in Token : token'[j].user # None}
<1>1. now + TokenTtl \in Nat
  BY AccountsAssumption DEF TypeOK
<1>2. [user |-> u, issued |-> now, expires |-> now + TokenTtl, consumed |-> None] \in TokenRow
  BY <1>1 DEF TypeOK, TokenRow, Stamp
<1>3. token'[k] = [user |-> u, issued |-> now, expires |-> now + TokenTtl, consumed |-> None]
  BY DEF TypeOK, IssueToken, NoToken
<1>4. /\ token' \in [Token -> TokenRow]
      /\ \A j \in Token \ {k} : token'[j] = token[j]
  BY <1>2, <1>3 DEF TypeOK, IssueToken, NoToken
<1>5. token[k] = NoToken /\ k \notin mailed
  BY DEF TypeOK, IssueToken, NoToken
<1>6. mailed \subseteq mailed' /\ mailed' \subseteq mailed \cup {k}
  BY DEF IssueToken
<1>7. mailed' \subseteq {j \in Token : token'[j].user # None}
  BY <1>3, <1>4, <1>5, <1>6, AccountsAssumption DEF TypeOK
<1> QED
  BY <1>3, <1>4, <1>5, <1>6, <1>7

(* Time passing preserves the invariant. *)
LEMMA AdvanceStep ==
  ASSUME AInv, Advance
  PROVE  AInv'
<1> USE AccountsAssumption DEF AInv, rows, limiter
<1>1. TypeOK'
  BY DEF Advance, TypeOK, Stamp, SessionRow, TokenRow, Local
<1>2. LinkAsRead'
  BY DEF Advance, TypeOK, SessionRow, TokenRow, Local, LinkAsRead, AtToken
<1>3. UserAsRead'
  BY DEF Advance, TypeOK, SessionRow, TokenRow, Local, UserAsRead
<1>4. Exclusive'
  BY DEF Advance, TypeOK, SessionRow, TokenRow, Local, Exclusive, AtToken
<1>5. AskerKnown'
  BY DEF Advance, TypeOK, SessionRow, TokenRow, Local, AskerKnown
<1>6. MintedInPast'
  BY DEF Advance, TypeOK, SessionRow, TokenRow, Local, MintedInPast
<1>7. VerifiedByLiveLink'
  BY DEF Advance, TypeOK, SessionRow, TokenRow, Local, VerifiedByLiveLink, LinkAsRead, AtToken
<1> QED
  BY <1>1, <1>2, <1>3, <1>4, <1>5, <1>6, <1>7

(* So does a registration. *)
LEMMA RegisterStep ==
  ASSUME AInv, NEW u \in User, NEW s \in Session, NEW k \in Token, Register(u, s, k)
  PROVE  AInv'
<1> USE AccountsAssumption DEF AInv, rows, limiter
<1>a. now \in Nat
  BY DEF TypeOK
<1>b. TypeOK /\ IssueSession(s, u) /\ IssueToken(k, u)
  BY DEF Register
<1>c. /\ session' \in [Session -> SessionRow]
      /\ session[s].user = None /\ session'[s].user = u
      /\ \A t \in Session \ {s} : session'[t] = session[t]
  BY <1>b, SessionIssued
<1>d. /\ token' \in [Token -> TokenRow]
      /\ token[k] = NoToken /\ k \notin mailed
      /\ token'[k] = [user |-> u, issued |-> now, expires |-> now + TokenTtl, consumed |-> None]
      /\ \A j \in Token \ {k} : token'[j] = token[j]
      /\ mailed \subseteq mailed' /\ mailed' \subseteq mailed \cup {k}
      /\ mailed' \subseteq {j \in Token : token'[j].user # None}
  BY <1>a, <1>b, TokenIssued
<1>e. /\ token[k].user = None
      /\ token'[k].user = u
      /\ token'[k].issued = now /\ token'[k].consumed = None
  BY <1>d DEF NoToken
<1>f. session'[s].expires = now + SessionTtl /\ session'[s].revoked = None
  BY <1>b DEF IssueSession, NoSession, TypeOK, SessionRow
<1>g. UNCHANGED <<now, verified, request, limiter, faults>> /\ users' = users \cup {u}
  BY DEF Register
<1>h. /\ \A j \in mailed : j \in Token /\ j # k /\ token'[j] = token[j]
      /\ \A t \in Session : session[t].user # None => session'[t] = session[t]
  BY <1>c, <1>d, <1>e DEF TypeOK
<1> USE <1>a, <1>c, <1>d, <1>e, <1>f, <1>g, <1>h
<1>1. TypeOK'
  BY DEF rows, TypeOK, Stamp, SessionRow, TokenRow, Local
<1>2. LinkAsRead'
  BY DEF rows, TypeOK, SessionRow, TokenRow, Local, LinkAsRead, AtToken
<1>3. UserAsRead'
  BY DEF rows, TypeOK, SessionRow, TokenRow, Local, UserAsRead
<1>4. Exclusive'
  BY DEF rows, TypeOK, SessionRow, TokenRow, Local, Exclusive, AtToken
<1>5. AskerKnown'
  BY DEF rows, TypeOK, SessionRow, TokenRow, Local, AskerKnown
<1>6. MintedInPast'
  BY DEF rows, TypeOK, SessionRow, TokenRow, Local, MintedInPast
<1>7. VerifiedByLiveLink'
  BY DEF rows, TypeOK, SessionRow, TokenRow, Local, VerifiedByLiveLink, LinkAsRead, AtToken
<1> QED
  BY <1>1, <1>2, <1>3, <1>4, <1>5, <1>6, <1>7

(* A login. *)
LEMMA LoginStep ==
  ASSUME AInv, NEW u \in User, NEW s \in Session, Login(u, s)
  PROVE  AInv'
<1> USE AccountsAssumption DEF AInv, rows, limiter
<1>b. TypeOK /\ IssueSession(s, u)
  BY DEF Login
<1> USE <1>b, SessionIssued
<1>1. TypeOK'
  BY DEF Login, TypeOK, Stamp, SessionRow, TokenRow, Local
<1>2. LinkAsRead'
  BY DEF Login, TypeOK, SessionRow, TokenRow, Local, LinkAsRead, AtToken
<1>3. UserAsRead'
  BY DEF Login, TypeOK, SessionRow, TokenRow, Local, UserAsRead
<1>4. Exclusive'
  BY DEF Login, TypeOK, SessionRow, TokenRow, Local, Exclusive, AtToken
<1>5. AskerKnown'
  BY DEF Login, TypeOK, SessionRow, TokenRow, Local, AskerKnown
<1>6. MintedInPast'
  BY DEF Login, TypeOK, SessionRow, TokenRow, Local, MintedInPast
<1>7. VerifiedByLiveLink'
  BY DEF Login, TypeOK, SessionRow, TokenRow, Local, VerifiedByLiveLink, LinkAsRead, AtToken
<1> QED
  BY <1>1, <1>2, <1>3, <1>4, <1>5, <1>6, <1>7

(* A logout. *)
LEMMA LogoutStep ==
  ASSUME AInv, NEW s \in Session, Logout(s)
  PROVE  AInv'
<1> USE AccountsAssumption DEF AInv, rows, limiter
<1>1. TypeOK'
  BY DEF Logout, TypeOK, Stamp, SessionRow, TokenRow, Local
<1>2. LinkAsRead'
  BY DEF Logout, TypeOK, SessionRow, TokenRow, Local, LinkAsRead, AtToken
<1>3. UserAsRead'
  BY DEF Logout, TypeOK, SessionRow, TokenRow, Local, UserAsRead
<1>4. Exclusive'
  BY DEF Logout, TypeOK, SessionRow, TokenRow, Local, Exclusive, AtToken
<1>5. AskerKnown'
  BY DEF Logout, TypeOK, SessionRow, TokenRow, Local, AskerKnown
<1>6. MintedInPast'
  BY DEF Logout, TypeOK, SessionRow, TokenRow, Local, MintedInPast
<1>7. VerifiedByLiveLink'
  BY DEF Logout, TypeOK, SessionRow, TokenRow, Local, VerifiedByLiveLink, LinkAsRead, AtToken
<1> QED
  BY <1>1, <1>2, <1>3, <1>4, <1>5, <1>6, <1>7

(* A request for a new link. *)
LEMMA AskAgainStep ==
  ASSUME AInv, NEW r \in Request, NEW s \in Session, AskAgain(r, s)
  PROVE  AInv'
<1> USE AccountsAssumption DEF AInv, rows, limiter
<1>a. /\ session[s] \in SessionRow /\ session[s].user \in User
      /\ now \in Nat
  BY DEF AskAgain, Live, TypeOK, SessionRow
<1> DEFINE new == [Idle EXCEPT !.pc = "issue", !.user = session[s].user]
<1>b. new \in Local /\ new.pc = "issue" /\ new.user = session[s].user
  BY <1>a DEF Idle, Local
<1>c. TypeOK /\ Run(r, new)
  BY DEF AskAgain
<1> HIDE DEF new
<1>d. /\ request' \in [Request -> Local] /\ request'[r] = new
      /\ \A q \in Request \ {r} : request'[q] = request[q]
  BY <1>b, <1>c, RunMoves
<1> USE <1>a, <1>b, <1>d
<1>1. TypeOK'
  BY DEF AskAgain, Live, TypeOK, Stamp, SessionRow, TokenRow, Local
<1>2. LinkAsRead'
  BY DEF AskAgain, Live, TypeOK, SessionRow, TokenRow, Local, LinkAsRead, AtToken
<1>3. UserAsRead'
  BY DEF AskAgain, Live, TypeOK, SessionRow, TokenRow, Local, UserAsRead
<1>4. Exclusive'
  BY DEF Exclusive, AtToken
<1>5. AskerKnown'
  <2>1. AskerKnown
    OBVIOUS
  <2>2. ASSUME NEW q \in Request, request'[q].pc = "issue"
        PROVE  request'[q].user \in User
    <3>1. CASE q = r
      BY ONLY <1>a, <1>b, <1>d, <3>1
    <3>2. CASE q # r
      BY ONLY <1>d, <2>1, <2>2, <3>2 DEF AskerKnown
    <3> QED BY <3>1, <3>2
  <2> QED BY <2>2 DEF AskerKnown
<1>6. MintedInPast'
  BY DEF AskAgain, Live, TypeOK, SessionRow, TokenRow, Local, MintedInPast
<1>7. VerifiedByLiveLink'
  BY DEF AskAgain, Live, TypeOK, SessionRow, TokenRow, Local, VerifiedByLiveLink, LinkAsRead, AtToken
<1> QED
  BY <1>1, <1>2, <1>3, <1>4, <1>5, <1>6, <1>7

(* A new link. *)
LEMMA IssueStep ==
  ASSUME AInv, NEW r \in Request, NEW k \in Token, Issue(r, k)
  PROVE  AInv'
<1> USE AccountsAssumption DEF AInv, rows, limiter
<1>a. request[r].user \in User
  BY DEF Issue, AskerKnown, TypeOK, Local
<1>b. IssueToken(k, request[r].user)
  BY DEF Issue
<1>c. TypeOK /\ Idle \in Local /\ Run(r, Idle)
  BY DEF Issue, Idle, Local
<1>d. token[k] = NoToken /\ k \notin mailed
  BY <1>b DEF IssueToken, NoToken, TypeOK
<1>e. /\ token' \in [Token -> TokenRow]
      /\ token'[k] = [user |-> request[r].user, issued |-> now, expires |-> now + TokenTtl, consumed |-> None]
      /\ \A j \in Token \ {k} : token'[j] = token[j]
      /\ mailed \subseteq mailed' /\ mailed' \subseteq mailed \cup {k}
      /\ mailed' \subseteq {j \in Token : token'[j].user # None}
  BY <1>a, <1>b, <1>c, TokenIssued
<1>f. /\ request' \in [Request -> Local] /\ request'[r] = Idle
      /\ \A q \in Request \ {r} : request'[q] = request[q]
  BY <1>c, RunMoves
<1>g. Idle.pc = "idle" /\ request[r].pc = "issue"
  BY DEF Idle, Issue
<1>h. /\ token[k].user = None
      /\ token'[k].user = request[r].user
      /\ token'[k].issued = now /\ token'[k].consumed = None
  BY <1>d, <1>e DEF NoToken
<1>i. UNCHANGED <<now, verified, users, session, limiter, faults>>
  BY DEF Issue
<1>j. \A j \in mailed : j \in Token /\ j # k /\ token'[j] = token[j]
  BY <1>d, <1>e DEF TypeOK
<1>l. \A j \in Token : j = k \/ token'[j] = token[j]
  BY <1>e
<1>m. now \in Nat /\ now <= now
  BY DEF TypeOK
<1> USE <1>a, <1>d, <1>e, <1>f, <1>g, <1>h, <1>i, <1>j, <1>l, <1>m
<1>1. TypeOK'
  BY DEF rows, TypeOK, Stamp, SessionRow, TokenRow, Local
<1>2. LinkAsRead'
  BY DEF rows, TypeOK, SessionRow, TokenRow, Local, LinkAsRead, AtToken
<1>3. UserAsRead'
  BY DEF rows, TypeOK, SessionRow, TokenRow, Local, UserAsRead
<1>4. Exclusive'
  BY DEF rows, TypeOK, SessionRow, TokenRow, Local, Exclusive, AtToken
<1>5. AskerKnown'
  BY DEF rows, TypeOK, SessionRow, TokenRow, Local, AskerKnown
<1>6. MintedInPast'
  BY DEF rows, TypeOK, SessionRow, TokenRow, Local, MintedInPast
<1>7. VerifiedByLiveLink'
  BY DEF rows, TypeOK, SessionRow, TokenRow, Local, VerifiedByLiveLink, LinkAsRead, AtToken
<1> QED
  BY <1>1, <1>2, <1>3, <1>4, <1>5, <1>6, <1>7

(* The limiter's INCR. *)
LEMMA CountStep ==
  ASSUME AInv, NEW r \in Request, NEW k \in Token, Count(r, k)
  PROVE  AInv'
<1> USE AccountsAssumption DEF AInv, rows, limiter
<1>a. Key(now) \in Nat
  BY DEF Key, TypeOK
<1>b. UNCHANGED <<now, rows, ttl>> /\ k \in mailed
  BY DEF Count
<1>c. count' \in [Time -> Nat]
  BY DEF Count, TypeOK
<1>d. \/ UNCHANGED request
      \/ \E pc \in {"expire", "token"} :
           Run(r, [Idle EXCEPT !.pc = pc, !.token = k, !.at = Key(now)])
  BY DEF Count, LetIn
<1>e. \/ UNCHANGED request
      \/ /\ request' \in [Request -> Local]
         /\ request'[r].pc \in {"expire", "token"} /\ request'[r].token = k
         /\ \A q \in Request \ {r} : request'[q] = request[q]
  <2>1. ASSUME NEW pc \in {"expire", "token"},
               Run(r, [Idle EXCEPT !.pc = pc, !.token = k, !.at = Key(now)])
        PROVE  /\ request' \in [Request -> Local]
               /\ request'[r].pc \in {"expire", "token"} /\ request'[r].token = k
               /\ \A q \in Request \ {r} : request'[q] = request[q]
    <3> DEFINE new == [Idle EXCEPT !.pc = pc, !.token = k, !.at = Key(now)]
    <3>1. new \in Local /\ new.pc = pc /\ new.token = k
      BY <1>a DEF Idle, Local
    <3>2. TypeOK /\ Run(r, new)
      BY <2>1
    <3> HIDE DEF new
    <3> QED
      BY <3>1, <3>2, RunMoves
  <2> QED
    BY <1>d, <2>1
<1>f. TypeOK /\ LinkAsRead /\ UserAsRead /\ Exclusive /\ AskerKnown /\ MintedInPast
      /\ VerifiedByLiveLink
  OBVIOUS
<1> USE <1>b, <1>c, <1>e, <1>f
<1>1. TypeOK'
  BY DEF rows, TypeOK, Stamp, SessionRow, TokenRow, Local
<1>2. LinkAsRead'
  BY DEF rows, TypeOK, SessionRow, TokenRow, Local, LinkAsRead, AtToken
<1>3. UserAsRead'
  BY DEF rows, TypeOK, SessionRow, TokenRow, Local, UserAsRead
<1>4. Exclusive'
  BY DEF rows, TypeOK, SessionRow, TokenRow, Local, Exclusive, AtToken
<1>5. AskerKnown'
  BY DEF rows, TypeOK, SessionRow, TokenRow, Local, AskerKnown
<1>6. MintedInPast'
  BY DEF rows, TypeOK, SessionRow, TokenRow, Local, MintedInPast
<1>7. VerifiedByLiveLink'
  BY DEF rows, TypeOK, SessionRow, TokenRow, Local, VerifiedByLiveLink, LinkAsRead, AtToken
<1> QED
  BY <1>1, <1>2, <1>3, <1>4, <1>5, <1>6, <1>7

(* Its EXPIRE. *)
LEMMA ExpireStep ==
  ASSUME AInv, NEW r \in Request, Expire(r)
  PROVE  AInv'
<1> USE AccountsAssumption DEF AInv, rows, limiter
<1> DEFINE new == [request[r] EXCEPT !.pc = "token"]
<1>a. /\ new \in Local /\ new.pc = "token" /\ new.token = request[r].token
      /\ request[r].pc = "expire"
  BY DEF TypeOK, Local, Expire
<1>b. TypeOK /\ Run(r, new)
  BY DEF Expire
<1>c. ttl' \in [Time -> Stamp]
  <2>1. now + Window \in Stamp
    BY DEF TypeOK, Stamp
  <2> QED
    BY <2>1 DEF Expire, TypeOK
<1>g. UNCHANGED <<now, rows, count>>
  BY DEF Expire
<1> HIDE DEF new
<1>d. /\ request' \in [Request -> Local] /\ request'[r] = new
      /\ \A q \in Request \ {r} : request'[q] = request[q]
  BY <1>a, <1>b, RunMoves
<1>e. request'[r].pc = "token" /\ request'[r].token = request[r].token
  BY <1>a, <1>d
<1>f. request' \in [Request -> Local] /\ \A q \in Request \ {r} : request'[q] = request[q]
  BY <1>d
<1>h. request[r].pc = "expire"
  BY <1>a
<1> USE <1>c, <1>e, <1>f, <1>g, <1>h
<1>1. TypeOK'
  BY DEF rows, TypeOK, Stamp, SessionRow, TokenRow, Local
<1>2. LinkAsRead'
  BY DEF rows, TypeOK, SessionRow, TokenRow, Local, LinkAsRead, AtToken
<1>3. UserAsRead'
  BY DEF rows, TypeOK, SessionRow, TokenRow, Local, UserAsRead
<1>4. Exclusive'
  BY DEF rows, TypeOK, SessionRow, TokenRow, Local, Exclusive, AtToken
<1>5. AskerKnown'
  BY DEF rows, TypeOK, SessionRow, TokenRow, Local, AskerKnown
<1>6. MintedInPast'
  BY DEF rows, TypeOK, SessionRow, TokenRow, Local, MintedInPast
<1>7. VerifiedByLiveLink'
  BY DEF rows, TypeOK, SessionRow, TokenRow, Local, VerifiedByLiveLink, LinkAsRead, AtToken
<1> QED
  BY <1>1, <1>2, <1>3, <1>4, <1>5, <1>6, <1>7

(* The lock of the link: only its holder is at the row. *)
LEMMA LockTokenStep ==
  ASSUME AInv, NEW r \in Request, LockToken(r)
  PROVE  AInv'
<1> USE AccountsAssumption DEF AInv, rows, limiter
<1> DEFINE k == request[r].token
           new == [request[r] EXCEPT !.pc = "user", !.user = token[k].user, !.at = now]
<1>a. /\ k \in mailed /\ k \in Token /\ token[k].user \in User
      /\ request[r].pc = "token"
  BY DEF LockToken, LinkAsRead, TypeOK, TokenRow
<1>b. /\ new \in Local /\ new.pc = "user" /\ new.token = k
      /\ new.user = token[k].user /\ new.at = now
  <2>1. request[r] \in Local /\ now \in Nat
    BY DEF TypeOK
  <2> QED
    BY <1>a, <2>1 DEF Local
<1>c. /\ Idle \in Local /\ Idle.pc = "idle"
  BY DEF Idle, Local
<1>d. UNCHANGED <<now, rows, limiter, faults>>
  BY DEF LockToken
<1>e. \A q \in Request : AtToken(q) => request[q].token # k
  BY DEF LockToken, HoldsToken, AtToken
<1>f. \/ Run(r, Idle)
      \/ Run(r, new) /\ ~Spent(k)
  BY DEF LockToken
<1>g. Spent(k) \/ (token[k].consumed = None /\ now < token[k].expires)
  BY <1>a DEF Spent, TypeOK, TokenRow
<1>h. token[k].issued <= now
  BY <1>a DEF MintedInPast
<1> HIDE DEF k, new
<1>i. /\ request' \in [Request -> Local]
      /\ \/ request'[r] = Idle
         \/ request'[r] = new /\ token[k].consumed = None /\ now < token[k].expires
      /\ \A q \in Request \ {r} : request'[q] = request[q]
  BY <1>b, <1>c, <1>f, <1>g, RunMoves
<1> USE <1>a, <1>b, <1>c, <1>d, <1>e, <1>h, <1>i
<1>1. TypeOK'
  BY DEF k, rows, TypeOK, Stamp, SessionRow, TokenRow, Local
<1>2. LinkAsRead'
  BY DEF k, rows, TypeOK, SessionRow, TokenRow, Local, LinkAsRead, AtToken
<1>3. UserAsRead'
  BY DEF k, rows, TypeOK, SessionRow, TokenRow, Local, UserAsRead
<1>4. Exclusive'
  BY DEF k, rows, TypeOK, SessionRow, TokenRow, Local, Exclusive, AtToken
<1>5. AskerKnown'
  BY DEF k, rows, TypeOK, SessionRow, TokenRow, Local, AskerKnown
<1>6. MintedInPast'
  BY DEF k, rows, TypeOK, SessionRow, TokenRow, Local, MintedInPast
<1>7. VerifiedByLiveLink'
  BY DEF k, rows, TypeOK, SessionRow, TokenRow, Local, VerifiedByLiveLink, LinkAsRead, AtToken
<1> QED
  BY <1>1, <1>2, <1>3, <1>4, <1>5, <1>6, <1>7

(* The lock of the user. *)
LEMMA LockUserStep ==
  ASSUME AInv, NEW r \in Request, LockUser(r)
  PROVE  AInv'
<1> USE AccountsAssumption DEF AInv, rows, limiter
<1> DEFINE u == request[r].user
           first == verified[u] = None
           new == [request[r] EXCEPT !.pc = "commit", !.first = first]
<1>a. first \in BOOLEAN /\ (first <=> verified[u] = None)
  OBVIOUS
<1> HIDE DEF first
<1>b. /\ new \in Local /\ new.pc = "commit" /\ new.token = request[r].token
      /\ new.user = u /\ new.at = request[r].at /\ new.first = first
      /\ request[r].pc = "user"
  <2>1. request[r] \in Local /\ request[r].pc = "user"
    BY DEF TypeOK, LockUser
  <2> QED
    BY <1>a, <2>1 DEF Local
<1>c. TypeOK /\ Run(r, new)
  BY DEF LockUser, first
<1>d. UNCHANGED <<now, rows, limiter, faults>>
  BY DEF LockUser
<1>e. \A q \in Request : request[q].pc = "commit" => request[q].user # u
  BY DEF LockUser, HoldsUser
<1> HIDE DEF new
<1>f. /\ request' \in [Request -> Local] /\ request'[r] = new
      /\ \A q \in Request \ {r} : request'[q] = request[q]
  BY <1>b, <1>c, RunMoves
<1> USE <1>a, <1>b, <1>d, <1>e, <1>f
<1>1. TypeOK'
  BY DEF u, rows, TypeOK, Stamp, SessionRow, TokenRow, Local
<1>2. LinkAsRead'
  BY DEF u, rows, TypeOK, SessionRow, TokenRow, Local, LinkAsRead, AtToken
<1>3. UserAsRead'
  BY DEF u, rows, TypeOK, SessionRow, TokenRow, Local, UserAsRead
<1>4. Exclusive'
  BY DEF u, rows, TypeOK, SessionRow, TokenRow, Local, Exclusive, AtToken
<1>5. AskerKnown'
  BY DEF u, rows, TypeOK, SessionRow, TokenRow, Local, AskerKnown
<1>6. MintedInPast'
  BY DEF u, rows, TypeOK, SessionRow, TokenRow, Local, MintedInPast
<1>7. VerifiedByLiveLink'
  BY DEF u, rows, TypeOK, SessionRow, TokenRow, Local, VerifiedByLiveLink, LinkAsRead, AtToken
<1> QED
  BY <1>1, <1>2, <1>3, <1>4, <1>5, <1>6, <1>7

(* The commit: nobody else had read what it writes. *)
LEMMA CommitStep ==
  ASSUME AInv, NEW r \in Request, Commit(r)
  PROVE  AInv'
<1> USE AccountsAssumption DEF AInv, rows, limiter
<1> DEFINE k == request[r].token
           u == request[r].user
           at == request[r].at
<1>a. /\ k \in mailed /\ k \in Token /\ at \in Nat /\ request[r].pc = "commit"
      /\ token[k].consumed = None /\ token[k].user = u
      /\ token[k].issued <= at /\ at < token[k].expires
  BY DEF Commit, LinkAsRead, AtToken, TypeOK, Local
<1>b. request[r].first <=> verified[u] = None
  BY <1>a DEF UserAsRead
<1>c. u \in User
  BY <1>a DEF TypeOK, TokenRow
<1>d. /\ token'[k] = [token[k] EXCEPT !.consumed = at]
      /\ \A j \in Token \ {k} : token'[j] = token[j]
      /\ token' \in [Token -> TokenRow]
  BY <1>a DEF Commit, TypeOK, TokenRow, Stamp
<1>e. /\ token'[k].consumed = at /\ token'[k].user = u
      /\ token'[k].issued = token[k].issued /\ token'[k].expires = token[k].expires
  BY <1>a, <1>d DEF TypeOK, TokenRow
<1>f. /\ verified' \in [User -> Stamp]
      /\ \A v \in User \ {u} : verified'[v] = verified[v]
      /\ verified[u] # None => verified'[u] = verified[u]
      /\ verified[u] = None => verified'[u] = at
  BY <1>a, <1>b, <1>c DEF Commit, TypeOK, Stamp
<1>g. TypeOK /\ Idle \in Local /\ Idle.pc = "idle" /\ Run(r, Idle)
  BY DEF Commit, Idle, Local
<1>h. /\ request' \in [Request -> Local] /\ request'[r] = Idle
      /\ \A q \in Request \ {r} : request'[q] = request[q]
  BY <1>g, RunMoves
<1>i. UNCHANGED <<now, users, session, mailed, count, ttl>>
  BY DEF Commit, limiter
<1>j. \A q \in Request \ {r} :
        /\ AtToken(q) => request[q].token # k
        /\ request[q].pc = "commit" => request[q].user # u
        /\ request[q].pc = "commit" => request[q].user \in User
  BY <1>a DEF Exclusive, AtToken, LinkAsRead, TypeOK, TokenRow
<1>k. \A j \in Token :
        /\ token'[j].user = token[j].user
        /\ token'[j].issued = token[j].issued /\ token'[j].expires = token[j].expires
        /\ token[j].consumed # None => token'[j].consumed = token[j].consumed
  BY <1>a, <1>d, <1>e
<1>l. \A q \in Request \ {r} : request'[q] = request[q]
  BY <1>h
<1> HIDE DEF k, u, at
<1> USE <1>a, <1>c, <1>d, <1>e, <1>f, <1>g, <1>h, <1>i, <1>j, <1>k, <1>l
<1>1. TypeOK'
  BY DEF rows, TypeOK, Stamp, SessionRow, TokenRow, Local
<1>2. LinkAsRead'
  BY DEF rows, TypeOK, SessionRow, TokenRow, Local, LinkAsRead, AtToken
<1>3. UserAsRead'
  BY DEF rows, TypeOK, SessionRow, TokenRow, Local, UserAsRead
<1>4. Exclusive'
  <2>1. \A q \in Request : request'[q].pc # "idle" => q # r
    BY <1>g, <1>h
  <2> QED
    BY <1>h, <2>1 DEF Exclusive, AtToken
<1>5. AskerKnown'
  BY DEF rows, TypeOK, SessionRow, TokenRow, Local, AskerKnown
<1>6. MintedInPast'
  BY DEF rows, TypeOK, SessionRow, TokenRow, Local, MintedInPast
<1>7. VerifiedByLiveLink'
  BY DEF rows, TypeOK, SessionRow, TokenRow, Local, VerifiedByLiveLink, LinkAsRead, AtToken
<1> QED
  BY <1>1, <1>2, <1>3, <1>4, <1>5, <1>6, <1>7

(* A request that dies. *)
LEMMA DieStep ==
  ASSUME AInv, NEW r \in Request, Die(r)
  PROVE  AInv'
<1> USE AccountsAssumption DEF AInv, rows, limiter
<1>1. TypeOK'
  BY DEF Die, Run, Idle, TypeOK, Stamp, SessionRow, TokenRow, Local
<1>2. LinkAsRead'
  BY DEF Die, Run, Idle, TypeOK, SessionRow, TokenRow, Local, LinkAsRead, AtToken
<1>3. UserAsRead'
  BY DEF Die, Run, Idle, TypeOK, SessionRow, TokenRow, Local, UserAsRead
<1>4. Exclusive'
  BY DEF Die, Run, Idle, TypeOK, SessionRow, TokenRow, Local, Exclusive, AtToken
<1>5. AskerKnown'
  BY DEF Die, Run, Idle, TypeOK, SessionRow, TokenRow, Local, AskerKnown
<1>6. MintedInPast'
  BY DEF Die, Run, Idle, TypeOK, SessionRow, TokenRow, Local, MintedInPast
<1>7. VerifiedByLiveLink'
  BY DEF Die, Run, Idle, TypeOK, SessionRow, TokenRow, Local, VerifiedByLiveLink, LinkAsRead, AtToken
<1> QED
  BY <1>1, <1>2, <1>3, <1>4, <1>5, <1>6, <1>7

(* Every step preserves the invariant. *)
LEMMA NextAInv ==
  ASSUME AInv, [Next]_vars
  PROVE  AInv'
<1>1. CASE UNCHANGED vars
  BY <1>1 DEF vars, rows, limiter, AInv, TypeOK, LinkAsRead, UserAsRead, Exclusive, AskerKnown,
     MintedInPast, VerifiedByLiveLink, AtToken
<1> QED
  BY <1>1, AdvanceStep, RegisterStep, LoginStep, LogoutStep, AskAgainStep, IssueStep, CountStep,
     ExpireStep, LockTokenStep, LockUserStep, CommitStep, DieStep DEF Next, Confirm

(* Rows and requests agree in every reachable state. *)
THEOREM AccountsInvariant == Spec => []AInv
  BY InitAInv, NextAInv, PTL DEF Spec

(* The variables keep their types. *)
THEOREM AccountsTypes == Spec => []TypeOK
  BY AccountsInvariant, PTL DEF AInv

(* An address is confirmed by a link of its own that was alive then. *)
THEOREM ConfirmedByLiveLink == Spec => []VerifiedByLiveLink
  BY AccountsInvariant, PTL DEF AInv

(* No link is redeemed, and no address confirmed, a second time. *)
THEOREM LinksOnce == Spec => SetOnce
<1> DEFINE Kept == /\ \A u \in User : verified[u] # None => verified'[u] = verified[u]
                   /\ \A k \in Token : token[k].consumed # None => token'[k] = token[k]
<1>1. ASSUME AInv, [Next]_vars
      PROVE  [Kept]_vars
  <2>1. ASSUME UNCHANGED <<verified, token>>
        PROVE  Kept
    BY <2>1
  <2>2. ASSUME NEW k \in Token, NEW u, IssueToken(k, u),
               UNCHANGED verified
        PROVE  Kept
    BY <1>1, <2>2 DEF IssueToken, NoToken, AInv, TypeOK
  <2>3. ASSUME NEW r \in Request, Commit(r)
        PROVE  Kept
    <3> DEFINE k == request[r].token
               u == request[r].user
    <3>1. request[r].pc = "commit" /\ k \in Token /\ token[k].consumed = None
      BY <1>1, <2>3 DEF Commit, AInv, TypeOK, LinkAsRead, AtToken
    <3>2. request[r].first <=> verified[u] = None
      BY <1>1, <3>1 DEF AInv, UserAsRead
    <3>3. \A j \in Token \ {k} : token'[j] = token[j]
      BY <1>1, <2>3 DEF Commit, AInv, TypeOK
    <3>4. \A v \in User : verified[v] # None => verified'[v] = verified[v]
      BY <1>1, <2>3, <3>2 DEF Commit, AInv, TypeOK
    <3> QED
      BY <3>1, <3>3, <3>4
  <2>4. ASSUME NEW r \in Request, NEW k \in Token, Issue(r, k)
        PROVE  Kept
    BY <2>2, <2>4 DEF Issue
  <2>5. ASSUME NEW u \in User, NEW s \in Session, NEW k \in Token, Register(u, s, k)
        PROVE  Kept
    BY <2>2, <2>5 DEF Register
  <2>6. ASSUME NEW r \in Request,
               (\E k \in Token : Count(r, k)) \/ Expire(r) \/ LockToken(r) \/ LockUser(r) \/ Die(r)
        PROVE  UNCHANGED <<verified, token>>
    BY <2>6 DEF Count, Expire, LockToken, LockUser, Die, rows
  <2>7. ASSUME NEW s \in Session,
               \/ Advance \/ Logout(s) \/ \E u \in User : Login(u, s)
               \/ \E r \in Request : AskAgain(r, s)
        PROVE  UNCHANGED <<verified, token>>
    BY <2>7 DEF Advance, Logout, Login, AskAgain, rows
  <2>8. CASE Advance
    BY <2>1, <2>8 DEF Advance, rows
  <2>9. CASE UNCHANGED vars
    BY <2>9 DEF vars, rows
  <2> QED
    BY <1>1, <2>1, <2>3, <2>4, <2>5, <2>6, <2>7, <2>8, <2>9 DEF Next, Confirm
<1> QED
  BY <1>1, AccountsInvariant, PTL DEF Spec, SetOnce

-----------------------------------------------------------------------------
(* The limiter.                                                            *)

(* The window of an instant. *)
LEMMA KeyFacts ==
  ASSUME NEW t \in Nat
  PROVE  /\ Key(t) \in Nat /\ Key(t) * Window \in Nat
         /\ Key(t) * Window <= t /\ t < Key(t) * Window + Window
         /\ Key(t) <= t
<1>1. Window \in Nat \ {0}
  BY AccountsAssumption
<1>2. /\ t \div Window \in Nat /\ (t \div Window) * Window <= t
      /\ t < (t \div Window) * Window + Window
  BY <1>1
<1>3. \A q \in Nat : q * Window \in Nat /\ q <= q * Window
  BY <1>1
<1> QED
  BY <1>2, <1>3 DEF Key

(* It is the only window the instant is in. *)
LEMMA KeyIs ==
  ASSUME NEW t \in Nat, NEW w \in Nat, w * Window <= t, t < w * Window + Window
  PROVE  Key(t) = w
<1>1. Window \in Nat \ {0}
  BY AccountsAssumption
<1>2. /\ Key(t) \in Nat /\ Key(t) * Window \in Nat
      /\ Key(t) * Window <= t /\ t < Key(t) * Window + Window
  BY KeyFacts
<1>3. \A a, c \in Nat : a > c => a * Window >= c * Window + Window
  <2> SUFFICES ASSUME NEW a \in Nat, NEW c \in Nat, a > c
               PROVE  a * Window >= c * Window + Window
    OBVIOUS
  <2>1. a * Window >= (c + 1) * Window
    BY <1>1
  <2> QED
    BY <1>1, <2>1
<1>4. w * Window \in Nat
  BY <1>1
<1> QED
  BY <1>1, <1>2, <1>3, <1>4

LEMMA KeyMonotone ==
  ASSUME NEW s \in Nat, NEW t \in Nat, s <= t
  PROVE  Key(s) <= Key(t)
<1>1. Window \in Nat \ {0}
  BY AccountsAssumption
<1>2. /\ Key(s) \in Nat /\ Key(t) \in Nat /\ Key(s) * Window \in Nat /\ Key(t) * Window \in Nat
      /\ Key(s) * Window <= s /\ t < Key(t) * Window + Window
  BY KeyFacts
<1>3. \A a, c \in Nat : a > c => a * Window >= c * Window + Window
  <2> SUFFICES ASSUME NEW a \in Nat, NEW c \in Nat, a > c
               PROVE  a * Window >= c * Window + Window
    OBVIOUS
  <2>1. a * Window >= (c + 1) * Window
    BY <1>1
  <2> QED
    BY <1>1, <2>1
<1> QED
  BY <1>1, <1>2, <1>3

(* An instant of a stretch of Window instants is in the window the stretch *)
(* begins in or in the next.                                               *)
LEMMA TwoWindows ==
  ASSUME NEW s \in Nat, NEW t \in Nat, s <= t, t <= s + Window - 1
  PROVE  Key(t) \in {Key(s), Key(s) + 1}
<1>1. Window \in Nat \ {0}
  BY AccountsAssumption
<1>2. /\ Key(s) \in Nat /\ Key(s) * Window \in Nat
      /\ Key(s) * Window <= s /\ s < Key(s) * Window + Window
  BY KeyFacts
<1>3. (Key(s) + 1) * Window = Key(s) * Window + Window
  BY <1>1, <1>2
<1>4. CASE t < Key(s) * Window + Window
  BY <1>1, <1>2, <1>4, KeyIs
<1>5. CASE ~(t < Key(s) * Window + Window)
  <2>1. /\ (Key(s) + 1) * Window <= t /\ t < (Key(s) + 1) * Window + Window
        /\ Key(s) + 1 \in Nat
    BY <1>1, <1>2, <1>3, <1>5
  <2>2. Key(t) = Key(s) + 1
    BY <2>1, KeyIs
  <2> QED
    BY <2>2
<1> QED
  BY <1>4, <1>5

(* What counters and keys say of who was let in.  A number is given once   *)
(* in a window, because a key is dropped only when its window is over; and *)
(* no number up to the counter is missing.                                 *)
InWindow(w, n) == \E a \in let : Key(a.at) = w /\ a.number = n

LimiterTypes ==
  /\ now \in Time /\ faults \in Nat
  /\ let \subseteq [at : Nat, number : Int] /\ refused \subseteq Nat
  /\ \A a \in let : a.at <= now /\ a.number # 0 /\ a.number <= Limit /\ -faults <= a.number

NumberedOnce ==
  \A a, b \in let :
    a.number = b.number /\ (a.number < 0 \/ Key(a.at) = Key(b.at)) => a = b

NumbersCounted ==
  \A a \in let : a.number > 0 /\ Key(a.at) = Key(now) => a.number <= count[Key(now)]

NoneMissing ==
  /\ \A w \in Time : \A n \in 1..Limit : n <= count[w] => InWindow(w, n)
  /\ \A w \in refused : \A n \in 1..Limit : InWindow(w, n)

KeysOutlive ==
  /\ \A w \in Time : ttl[w] # None => ttl[w] >= w * Window + Window
  /\ \A r \in Request : request[r].pc = "expire" => request[r].at <= Key(now)

LimiterInv == LimiterTypes /\ NumberedOnce /\ NumbersCounted /\ NoneMissing /\ KeysOutlive

LEMMA InitLimiterInv == Init => LimiterInv
<1> SUFFICES ASSUME Init PROVE LimiterInv
  OBVIOUS
<1> USE AccountsAssumption DEF Init
<1>1. LimiterTypes
  BY DEF LimiterTypes, Time
<1>2. NumberedOnce /\ NumbersCounted
  BY DEF NumberedOnce, NumbersCounted
<1>3. NoneMissing
  BY DEF NoneMissing
<1>4. KeysOutlive
  BY DEF KeysOutlive, Idle
<1> QED
  BY <1>1, <1>2, <1>3, <1>4 DEF LimiterInv

(* A key outlives its window: the clock never takes away the counter of    *)
(* the window it has come to.                                              *)
LEMMA LimiterAdvance ==
  ASSUME AInv, LimiterInv, Advance
  PROVE  LimiterInv'
<1> USE AccountsAssumption DEF limiter
<1>1. /\ now \in Nat /\ now' = now + 1 /\ now < MaxTime
      /\ UNCHANGED <<request, let, refused, faults>>
      /\ count \in [Time -> Nat] /\ ttl \in [Time -> Stamp]
      /\ request \in [Request -> Local]
  BY DEF Advance, AInv, TypeOK
<1>2. \A w \in Time : /\ count'[w] = IF ttl[w] = now + 1 THEN 0 ELSE count[w]
                     /\ ttl'[w] = IF ttl[w] = now + 1 THEN None ELSE ttl[w]
  BY DEF Advance
<1>3. Key(now) <= Key(now') /\ Key(now) \in Nat /\ Key(now') \in Nat
  <2>1. now' \in Nat /\ now <= now'
    BY <1>1
  <2> QED
    BY <1>1, <2>1, KeyFacts, KeyMonotone
<1>4. LimiterTypes'
  <2>1. \A a \in let : a.at \in Nat /\ a.at <= now
    BY DEF LimiterInv, LimiterTypes
  <2>2. \A a \in let : a.at <= now'
    BY <1>1, <2>1
  <2> QED
    BY <1>1, <2>2 DEF LimiterInv, LimiterTypes, Time
<1>5. NumberedOnce'
  BY <1>1 DEF LimiterInv, NumberedOnce
<1>6. NumbersCounted'
  <2> SUFFICES ASSUME NEW a \in let, a.number > 0, Key(a.at) = Key(now')
               PROVE  a.number <= count'[Key(now')]
    BY <1>1 DEF NumbersCounted
  <2> DEFINE w == Key(now')
  <2>1. a.at \in Nat /\ a.at <= now
    BY DEF LimiterInv, LimiterTypes
  <2>2. Key(a.at) <= Key(now) /\ Key(a.at) \in Nat
    BY <1>1, <2>1, KeyFacts, KeyMonotone
  <2>3. Key(now) = w
    BY <1>3, <2>2
  <2>4. now' < w * Window + Window /\ w * Window \in Nat /\ w <= now'
    BY <1>1, KeyFacts
  <2>5. w \in Time
    BY <1>1, <1>3, <2>4 DEF Time
  <2> HIDE DEF w
  <2>6. ttl[w] # now + 1
    BY <1>1, <2>4, <2>5 DEF LimiterInv, KeysOutlive
  <2>7. count'[w] = count[w]
    BY <1>2, <2>5, <2>6
  <2> QED
    BY <2>3, <2>7 DEF LimiterInv, NumbersCounted, w
<1>7. NoneMissing'
  <2>1. \A w \in Time : \A n \in 1..Limit : n <= count'[w] => n <= count[w]
    BY <1>1, <1>2
  <2> QED
    BY <1>1, <2>1 DEF LimiterInv, NoneMissing, InWindow
<1>8. KeysOutlive'
  <2>1. \A w \in Time : ttl'[w] # None => ttl[w] # None /\ ttl'[w] = ttl[w]
    BY <1>1, <1>2
  <2>2. \A r \in Request : request[r].at \in Nat
    BY <1>1 DEF Local
  <2>3. \A r \in Request : request[r].pc = "expire" => request[r].at <= Key(now')
    BY <1>3, <2>2 DEF LimiterInv, KeysOutlive
  <2> QED
    BY <1>1, <2>1, <2>3 DEF LimiterInv, KeysOutlive
<1> QED
  BY <1>4, <1>5, <1>6, <1>7, <1>8 DEF LimiterInv

(* What one request adds: the next number of the window, or that of a      *)
(* failure.                                                                *)
LEMMA LimiterCount ==
  ASSUME AInv, LimiterInv, NEW r \in Request, NEW k \in Token, Count(r, k)
  PROVE  LimiterInv'
<1> USE AccountsAssumption
<1> DEFINE w == Key(now)
           n == count[w] + 1
<1>1. /\ now \in Nat /\ now \in Time /\ w \in Nat /\ w \in Time
      /\ count \in [Time -> Nat] /\ n \in Nat /\ faults \in Nat
  <2>1. now \in Nat /\ now \in Time /\ count \in [Time -> Nat] /\ faults \in Nat
    BY DEF AInv, TypeOK, LimiterInv, LimiterTypes
  <2>2. w \in Nat /\ w <= now
    BY <2>1, KeyFacts
  <2>3. w \in Time
    <3> HIDE DEF w
    <3> QED
      BY <2>1, <2>2 DEF Time
  <2>4. n \in Nat
    <3> HIDE DEF w
    <3> QED
      BY <2>1, <2>3
  <2> QED
    BY <2>1, <2>2, <2>3, <2>4
<1>2. UNCHANGED <<now, ttl>>
  BY DEF Count
<1>3. \A q \in Request : request'[q].pc = "expire" => request'[q].at <= w
  <2>1. \/ UNCHANGED request
        \/ \E pc \in {"expire", "token"} :
             request' = [request EXCEPT ![r] = [Idle EXCEPT !.pc = pc, !.token = k, !.at = w]]
    BY DEF Count, LetIn, Run
  <2>2. \A pc : [Idle EXCEPT !.pc = pc, !.token = k, !.at = w].at = w
    BY DEF Idle
  <2>3. request \in [Request -> Local]
    BY DEF AInv, TypeOK
  <2>4. \A q \in Request : request[q].pc = "expire" => request[q].at <= w
    BY DEF LimiterInv, KeysOutlive
  <2>5. \A q \in Request : request'[q] = request[q] \/ request'[q].at = w
    BY <2>1, <2>2, <2>3
  <2> HIDE DEF w
  <2> QED
    BY <1>1, <2>4, <2>5
<1>4. KeysOutlive'
  BY <1>2, <1>3 DEF LimiterInv, KeysOutlive
<1>5. \/ /\ n <= Limit /\ count' = [count EXCEPT ![w] = n]
         /\ let' = let \cup {[at |-> now, number |-> n]}
         /\ UNCHANGED <<refused, faults>>
      \/ /\ n = Limit + 1 /\ count' = [count EXCEPT ![w] = n]
         /\ refused' = refused \cup {w} /\ UNCHANGED <<let, faults>>
      \/ /\ faults' = faults + 1
         /\ let' = let \cup {[at |-> now, number |-> -faults']}
         /\ UNCHANGED <<count, refused>>
  <2>1. CASE Fault /\ LetIn(r, "token", k, -faults') /\ UNCHANGED <<count, refused>>
    BY <2>1 DEF Fault, LetIn
  <2>2. CASE /\ ~Over(count[w]) /\ count' = [count EXCEPT ![w] = n] /\ UNCHANGED faults
             /\ Over(n) /\ refused' = refused \cup {now \div Window} /\ UNCHANGED let
    BY <1>1, <2>2 DEF Over, Key
  <2>3. CASE /\ ~Over(count[w]) /\ count' = [count EXCEPT ![w] = n] /\ UNCHANGED faults
             /\ ~Over(n) /\ UNCHANGED refused
             /\ LetIn(r, IF n = 1 THEN "expire" ELSE "token", k, n)
    BY <1>1, <2>3 DEF Over, LetIn
  <2> QED
    BY <2>1, <2>2, <2>3 DEF Count
<1> HIDE DEF w
<1>6. /\ let \subseteq [at : Nat, number : Int] /\ refused \subseteq Nat
      /\ \A a \in let : a.at <= now /\ a.number # 0 /\ a.number <= Limit /\ -faults <= a.number
      /\ \A a \in let : a.number \in Int
  BY DEF LimiterInv, LimiterTypes
<1>7. NumberedOnce /\ NumbersCounted /\ NoneMissing
  BY DEF LimiterInv
<1>8. \A v \in Time : \A i \in 1..Limit : InWindow(v, i) /\ let \subseteq let' => InWindow(v, i)'
  BY DEF InWindow
<1>9. \A v \in refused : \A i \in 1..Limit : InWindow(v, i) /\ let \subseteq let' => InWindow(v, i)'
  BY DEF InWindow
<1>10. CASE /\ n <= Limit /\ count' = [count EXCEPT ![w] = n]
            /\ let' = let \cup {[at |-> now, number |-> n]}
            /\ UNCHANGED <<refused, faults>>
  <2> DEFINE new == [at |-> now, number |-> n]
  <2>1. new.at = now /\ new.number = n /\ new \in [at : Nat, number : Int] /\ n > 0
    BY <1>1
  <2>2. let' = let \cup {new}
    BY <1>10
  <2> HIDE DEF new
  <2>3. LimiterTypes'
    BY <1>1, <1>2, <1>6, <1>10, <2>1, <2>2 DEF LimiterTypes
  <2>4. \A a \in let : a.number > 0 /\ Key(a.at) = w => a.number < n
    BY <1>1, <1>6, <1>7 DEF NumbersCounted, w
  <2>5. NumberedOnce'
    BY <1>6, <1>7, <2>1, <2>2, <2>4 DEF NumberedOnce, w
  <2>6. count'[w] = n /\ \A v \in Time : v # w => count'[v] = count[v]
    BY <1>1, <1>10
  <2>7. NumbersCounted'
    BY <1>1, <1>2, <1>6, <2>1, <2>2, <2>4, <2>6 DEF NumbersCounted, w
  <2>8. \A i \in 1..Limit : i <= n => \E a \in let' : Key(a.at) = w /\ a.number = i
    <3> SUFFICES ASSUME NEW i \in 1..Limit, i <= n
                 PROVE  \E a \in let' : Key(a.at) = w /\ a.number = i
      OBVIOUS
    <3>1. CASE i = n
      BY <2>1, <2>2, <3>1 DEF w
    <3>2. CASE i < n
      <4>1. i <= count[w]
        BY <1>1, <3>2
      <4>2. InWindow(w, i)
        BY <1>1, <1>7, <4>1 DEF NoneMissing
      <4> QED
        BY <2>2, <4>2 DEF InWindow
    <3> QED
      BY <1>1, <3>1, <3>2
  <2>9. NoneMissing'
    <3>1. let \subseteq let' /\ refused' = refused
      BY <1>10, <2>2
    <3>2. \A v \in Time : \A i \in 1..Limit : i <= count'[v] => InWindow(v, i)'
      <4> SUFFICES ASSUME NEW v \in Time, NEW i \in 1..Limit, i <= count'[v]
                   PROVE  InWindow(v, i)'
        OBVIOUS
      <4>1. CASE v = w
        BY <2>6, <2>8, <4>1 DEF InWindow
      <4>2. CASE v # w
        <5>1. InWindow(v, i)
          BY <1>7, <2>6, <4>2 DEF NoneMissing
        <5> QED
          BY <1>8, <3>1, <5>1
      <4> QED
        BY <4>1, <4>2
    <3>3. \A v \in refused' : \A i \in 1..Limit : InWindow(v, i)'
      BY <1>7, <1>9, <3>1 DEF NoneMissing
    <3> QED
      BY <3>2, <3>3 DEF NoneMissing
  <2> QED
    BY <1>4, <2>3, <2>5, <2>7, <2>9 DEF LimiterInv
<1>11. CASE /\ n = Limit + 1 /\ count' = [count EXCEPT ![w] = n]
            /\ refused' = refused \cup {w} /\ UNCHANGED <<let, faults>>
  <2>1. LimiterTypes'
    BY <1>1, <1>2, <1>6, <1>11 DEF LimiterTypes
  <2>2. NumberedOnce'
    BY <1>7, <1>11 DEF NumberedOnce
  <2>3. count'[w] = n /\ count[w] = Limit /\ \A v \in Time : v # w => count'[v] = count[v]
    BY <1>1, <1>11
  <2>4. NumbersCounted'
    BY <1>1, <1>2, <1>6, <1>11, <2>3 DEF NumbersCounted, w
  <2>5. \A i \in 1..Limit : InWindow(w, i)
    BY <1>1, <1>7, <2>3 DEF NoneMissing
  <2>6. NoneMissing'
    BY <1>7, <1>11, <2>3, <2>5 DEF NoneMissing, InWindow
  <2> QED
    BY <1>4, <2>1, <2>2, <2>4, <2>6 DEF LimiterInv
<1>12. CASE /\ faults' = faults + 1
            /\ let' = let \cup {[at |-> now, number |-> -faults']}
            /\ UNCHANGED <<count, refused>>
  <2> DEFINE new == [at |-> now, number |-> -faults']
  <2>1. /\ new.at = now /\ new.number = -faults' /\ new \in [at : Nat, number : Int]
        /\ new.number < -faults /\ new.number < 0
    BY <1>1, <1>12
  <2>2. let' = let \cup {new}
    BY <1>12
  <2> HIDE DEF new
  <2>3. LimiterTypes'
    BY <1>1, <1>2, <1>6, <1>12, <2>1, <2>2 DEF LimiterTypes
  <2>4. NumberedOnce'
    BY <1>1, <1>6, <1>7, <2>1, <2>2 DEF NumberedOnce
  <2>5. NumbersCounted'
    BY <1>1, <1>2, <1>7, <1>12, <2>1, <2>2 DEF NumbersCounted
  <2>6. NoneMissing'
    BY <1>7, <1>8, <1>9, <1>12, <2>2 DEF NoneMissing
  <2> QED
    BY <1>4, <2>3, <2>4, <2>5, <2>6 DEF LimiterInv
<1> QED
  BY <1>5, <1>10, <1>11, <1>12

(* EXPIRE is counted from a moment of the window or later, so that the key *)
(* lasts until the window is over.                                         *)
LEMMA LimiterExpire ==
  ASSUME AInv, LimiterInv, NEW r \in Request, Expire(r)
  PROVE  LimiterInv'
<1> USE AccountsAssumption
<1> DEFINE w == request[r].at
<1>1. /\ request[r].pc = "expire" /\ w \in Nat /\ now \in Nat /\ faults \in Nat
      /\ request \in [Request -> Local] /\ ttl \in [Time -> Stamp]
  BY DEF Expire, AInv, TypeOK, Local, LimiterInv, LimiterTypes
<1>2. /\ UNCHANGED <<now, count, let, refused>>
      /\ faults' \in {faults, faults + 1}
      /\ request' = [request EXCEPT ![r] = [request[r] EXCEPT !.pc = "token"]]
  BY DEF Expire, Fault, Run
<1>3. ttl' = ttl \/ ttl' = [ttl EXCEPT ![w] = now + Window]
  BY DEF Expire
<1>4. now + Window >= w * Window + Window /\ now + Window # None
  <2>1. w <= Key(now)
    BY <1>1 DEF LimiterInv, KeysOutlive
  <2>2. Key(now) \in Nat /\ Key(now) * Window <= now /\ Key(now) * Window \in Nat
    BY <1>1, KeyFacts
  <2>3. \A i, j \in Nat : i <= j => i * Window <= j * Window /\ i * Window \in Nat
    OBVIOUS
  <2> HIDE DEF w
  <2>4. w * Window <= now /\ w * Window \in Nat
    BY <1>1, <2>1, <2>2, <2>3
  <2> QED
    BY <1>1, <2>4
<1>5. \A v \in Time : ttl'[v] # None => ttl'[v] >= v * Window + Window
  <2> HIDE DEF w
  <2>1. \A v \in Time : (ttl'[v] = ttl[v]) \/ (v = w /\ ttl'[v] = now + Window)
    BY <1>1, <1>3
  <2> QED
    BY <1>4, <2>1 DEF LimiterInv, KeysOutlive
<1>6. \A q \in Request : request'[q].pc = "expire" => request'[q] = request[q]
  <2>1. \A q \in Request \ {r} : request'[q] = request[q]
    BY <1>1, <1>2
  <2>2. request'[r].pc = "token"
    BY <1>1, <1>2 DEF Local
  <2> QED
    BY <2>1, <2>2
<1>7. KeysOutlive'
  BY <1>2, <1>5, <1>6 DEF LimiterInv, KeysOutlive
<1>8. LimiterTypes'
  <2>1. \A a \in let : a.number \in Int /\ -faults <= a.number
    BY DEF LimiterInv, LimiterTypes
  <2>2. faults' \in Nat /\ \A a \in let : -faults' <= a.number
    BY <1>1, <1>2, <2>1
  <2> QED
    BY <1>2, <2>2 DEF LimiterInv, LimiterTypes
<1>9. NumberedOnce' /\ NumbersCounted' /\ NoneMissing'
  BY <1>2 DEF LimiterInv, NumberedOnce, NumbersCounted, NoneMissing, InWindow
<1> QED
  BY <1>7, <1>8, <1>9 DEF LimiterInv

(* Every other step leaves the limiter alone, and no request comes to its  *)
(* EXPIRE.                                                                 *)
LEMMA LimiterQuiet ==
  ASSUME LimiterInv, UNCHANGED <<now, limiter>>, faults' \in {faults, faults + 1},
         \A q \in Request : request'[q].pc = "expire" => request'[q] = request[q]
  PROVE  LimiterInv'
<1>1. UNCHANGED <<now, count, ttl, let, refused>>
  BY DEF limiter
<1>2. LimiterTypes'
  <2>1. faults \in Nat /\ \A a \in let : a.number \in Int /\ -faults <= a.number
    BY DEF LimiterInv, LimiterTypes
  <2>2. faults' \in Nat /\ \A a \in let : -faults' <= a.number
    BY <2>1
  <2> QED
    BY <1>1, <2>2 DEF LimiterInv, LimiterTypes
<1>3. NumberedOnce' /\ NumbersCounted' /\ NoneMissing'
  BY <1>1 DEF LimiterInv, NumberedOnce, NumbersCounted, NoneMissing, InWindow
<1>4. KeysOutlive'
  BY <1>1 DEF LimiterInv, KeysOutlive
<1> QED
  BY <1>2, <1>3, <1>4 DEF LimiterInv

LEMMA NextLimiterInv ==
  ASSUME AInv, LimiterInv, [Next]_vars
  PROVE  LimiterInv'
<1> DEFINE Quiet == /\ UNCHANGED <<now, limiter>> /\ faults' \in {faults, faults + 1}
                    /\ \A q \in Request : request'[q].pc = "expire" => request'[q] = request[q]
<1>1. request \in [Request -> Local]
  BY DEF AInv, TypeOK
<1>2. CASE UNCHANGED vars
  <2>1. Quiet
    BY <1>2 DEF vars
  <2> QED
    BY <2>1, LimiterQuiet
<1>3. ASSUME NEW r \in Request,
             LockToken(r) \/ LockUser(r) \/ Commit(r) \/ Die(r) \/ \E k \in Token : Issue(r, k)
      PROVE  Quiet
  <2>1. /\ UNCHANGED <<now, limiter>> /\ faults' \in {faults, faults + 1}
        /\ \E local \in [pc : {"idle", "user", "commit"}, token : {request[r].token, None},
                         user : {request[r].user, token[request[r].token].user, None},
                         at : {request[r].at, now, 0},
                         first : BOOLEAN] :
             Run(r, local)
    <3>1. request[r] \in Local
      BY <1>1
    <3>2. Idle \in [pc : {"idle", "user", "commit"}, token : {request[r].token, None},
                    user : {request[r].user, token[request[r].token].user, None},
                    at : {request[r].at, now, 0}, first : BOOLEAN]
      BY DEF Idle
    <3>3. CASE LockToken(r)
      BY <3>1, <3>2, <3>3 DEF LockToken, Local
    <3>4. CASE LockUser(r)
      BY <3>1, <3>2, <3>4 DEF LockUser, Local
    <3>5. CASE Commit(r)
      BY <3>2, <3>5 DEF Commit
    <3>6. CASE Die(r)
      BY <3>2, <3>6 DEF Die, Fault
    <3>7. CASE \E k \in Token : Issue(r, k)
      BY <3>2, <3>7 DEF Issue
    <3> QED
      BY <1>3, <3>3, <3>4, <3>5, <3>6, <3>7
  <2>2. \A q \in Request : request'[q] = request[q] \/ request'[q].pc # "expire"
    BY <1>1, <2>1 DEF Run
  <2> QED
    BY <2>1, <2>2
<1>4. ASSUME NEW r \in Request, NEW s \in Session, AskAgain(r, s)
      PROVE  Quiet
  <2>1. UNCHANGED <<now, limiter, faults>>
    BY <1>4 DEF AskAgain
  <2>2. \A q \in Request : request'[q] = request[q] \/ request'[q].pc = "issue"
    BY <1>1, <1>4 DEF AskAgain, Run, Idle
  <2> QED
    BY <2>1, <2>2
<1>5. ASSUME NEW s \in Session,
             \/ Logout(s)
             \/ \E u \in User : Login(u, s) \/ \E k \in Token : Register(u, s, k)
      PROVE  Quiet
  BY <1>5 DEF Logout, Login, Register
<1>6. ASSUME NEW r \in Request,
             \/ LockToken(r) \/ LockUser(r) \/ Commit(r) \/ Die(r)
             \/ \E k \in Token : Issue(r, k)
      PROVE  LimiterInv'
  BY <1>3, <1>6, LimiterQuiet
<1>7. ASSUME NEW s \in Session,
             \/ Logout(s) \/ \E r \in Request : AskAgain(r, s)
             \/ \E u \in User : Login(u, s) \/ \E k \in Token : Register(u, s, k)
      PROVE  LimiterInv'
  BY <1>4, <1>5, <1>7, LimiterQuiet
<1> HIDE DEF Quiet
<1> QED
  BY <1>2, <1>6, <1>7, LimiterAdvance, LimiterCount, LimiterExpire DEF Next, Confirm

(* In every reachable state a window that refused has let in the whole     *)
(* limit, and no number of a window was given twice.                       *)
THEOREM LimiterInvariant == Spec => [](AInv /\ LimiterInv)
<1>1. Init => AInv /\ LimiterInv
  BY InitAInv, InitLimiterInv
<1>2. AInv /\ LimiterInv /\ [Next]_vars => (AInv /\ LimiterInv)'
  BY NextAInv, NextLimiterInv
<1> QED
  BY <1>1, <1>2, PTL DEF Spec

(* The size of 1..n. *)
LEMMA UpTo ==
  ASSUME NEW n \in Nat
  PROVE  IsFiniteSet(1 .. n) /\ Cardinality(1 .. n) = n
<1>1. IsFiniteSet(1 .. n)
  BY FS_Interval
<1>2. Cardinality(1 .. n) = IF 1 > n THEN 0 ELSE n - 1 + 1
  BY FS_Interval
<1> QED
  BY <1>1, <1>2

(* Who was let in over a stretch of at most Window instants: two windows   *)
(* have Limit numbers each, and every failure one.                         *)
LEMMA AdmittedBounded ==
  ASSUME LimiterInv, NEW t \in Nat
  PROVE  /\ IsFiniteSet({a \in let : t <= a.at /\ a.at <= t + Window - 1})
         /\ Admitted(t, t + Window - 1) <= 2 * Limit + faults
<1> DEFINE S == {a \in let : t <= a.at /\ a.at <= t + Window - 1}
           windows == Key(t) .. Key(t) + 1
           numbers == windows \X (1 .. Limit)
           failures == {-1} \X (1 .. faults)
           slot == [a \in S |-> IF a.number > 0 THEN <<Key(a.at), a.number>>
                                ELSE <<-1, -a.number>>]
<1>1. Limit \in Nat /\ Window \in Nat \ {0} /\ faults \in Nat /\ Key(t) \in Nat
  BY AccountsAssumption, KeyFacts DEF LimiterInv, LimiterTypes
<1>2. \A a \in S : /\ a.number \in Int /\ a.number # 0 /\ a.number <= Limit /\ -faults <= a.number
                   /\ a.at \in Nat /\ a \in let
  BY DEF LimiterInv, LimiterTypes
<1>3. \A a \in S : Key(a.at) \in windows
  <2> SUFFICES ASSUME NEW a \in S PROVE Key(a.at) \in windows
    OBVIOUS
  <2>1. a.at \in Nat /\ t <= a.at /\ a.at <= t + Window - 1
    BY <1>2
  <2>2. Key(a.at) \in {Key(t), Key(t) + 1}
    BY <2>1, TwoWindows
  <2> QED
    BY <1>1, <2>2
<1>4. slot \in Injection(S, numbers \cup failures)
  <2>1. \A a \in S : slot[a] = IF a.number > 0 THEN <<Key(a.at), a.number>> ELSE <<-1, -a.number>>
    OBVIOUS
  <2>2. \A v \in windows : v \in Nat
    BY <1>1
  <2> HIDE DEF S, windows
  <2>3. \A a \in S : slot[a] \in numbers \cup failures
    BY <1>1, <1>2, <1>3, <2>1
  <2>4. \A a, b \in S : slot[a] = slot[b] =>
          a.number = b.number /\ (a.number < 0 \/ Key(a.at) = Key(b.at))
    BY <1>2, <1>3, <2>1, <2>2
  <2>5. \A a, b \in S : slot[a] = slot[b] => a = b
    BY <1>2, <2>4 DEF LimiterInv, NumberedOnce
  <2> QED
    BY <2>3, <2>5 DEF Injection, IsInjective
<1> HIDE DEF S, slot
<1>5. IsFiniteSet(1 .. Limit) /\ Cardinality(1 .. Limit) = Limit
  BY <1>1, UpTo
<1>6. IsFiniteSet(1 .. faults) /\ Cardinality(1 .. faults) = faults
  BY <1>1, UpTo
<1>7. IsFiniteSet(numbers) /\ Cardinality(numbers) = 2 * Limit
  <2>1. IsFiniteSet(windows) /\ Cardinality(windows) = 2
    <3>1. Key(t) \in Int /\ Key(t) + 1 \in Int
      BY <1>1
    <3>2. IsFiniteSet(windows) /\ Cardinality(windows) = (Key(t) + 1) - Key(t) + 1
      BY <1>1, <3>1, FS_Interval
    <3> QED
      BY <1>1, <3>2
  <2> HIDE DEF windows
  <2>2. IsFiniteSet(numbers) /\ Cardinality(numbers) = Cardinality(windows) * Cardinality(1 .. Limit)
    BY <1>5, <2>1, FS_Product
  <2> QED
    BY <1>1, <1>5, <2>1, <2>2
<1>8. IsFiniteSet(failures) /\ Cardinality(failures) = faults
  <2>1. IsFiniteSet({-1}) /\ Cardinality({-1}) = 1
    BY FS_Singleton
  <2>2. IsFiniteSet(failures) /\ Cardinality(failures) = Cardinality({-1}) * Cardinality(1 .. faults)
    BY <1>6, <2>1, FS_Product
  <2> QED
    BY <1>1, <1>6, <2>1, <2>2
<1> HIDE DEF numbers, failures
<1>9. /\ IsFiniteSet(numbers \cup failures)
      /\ Cardinality(numbers \cup failures) <= 2 * Limit + faults
      /\ Cardinality(numbers \cup failures) \in Nat
  <2>1. IsFiniteSet(numbers \cup failures) /\ Cardinality(numbers \cap failures) \in Nat
    <3>1. IsFiniteSet(numbers \cap failures)
      BY <1>7, FS_Intersection
    <3> QED
      BY <1>7, <1>8, <3>1, FS_Union, FS_CardinalityType
  <2>2. Cardinality(numbers \cup failures)
          = Cardinality(numbers) + Cardinality(failures) - Cardinality(numbers \cap failures)
    BY <1>7, <1>8, FS_Union
  <2>3. Cardinality(numbers \cup failures) \in Nat
    BY <2>1, FS_CardinalityType
  <2> QED
    BY <1>1, <1>7, <1>8, <2>1, <2>2, <2>3
<1>10. IsFiniteSet(S) /\ Cardinality(S) <= Cardinality(numbers \cup failures)
  BY <1>4, <1>9, FS_Injection
<1>11. Cardinality(S) \in Nat
  BY <1>10, FS_CardinalityType
<1>12. Cardinality(S) <= 2 * Limit + faults
  BY <1>1, <1>9, <1>10, <1>11
<1> QED
  BY <1>10, <1>12 DEF S, Admitted

(* A window that turned a request away had let in Limit of them: one under *)
(* each number.                                                            *)
LEMMA RefusedFull ==
  ASSUME LimiterInv, NEW w \in refused
  PROVE  Admitted(w * Window, w * Window + Window - 1) >= Limit
<1> DEFINE t == w * Window
           S == {a \in let : t <= a.at /\ a.at <= t + Window - 1}
           T == {a \in S : a.number \in 1 .. Limit}
           number == [a \in T |-> a.number]
<1>1. /\ Limit \in Nat /\ Window \in Nat \ {0} /\ w \in Nat /\ w * Window \in Nat
  <2>1. Limit \in Nat /\ Window \in Nat \ {0} /\ w \in Nat
    BY AccountsAssumption DEF LimiterInv, LimiterTypes
  <2> QED
    BY <2>1
<1>2. \A n \in 1 .. Limit : \E a \in T : a.number = n
  <2> SUFFICES ASSUME NEW n \in 1 .. Limit PROVE \E a \in T : a.number = n
    OBVIOUS
  <2>1. PICK a \in let : Key(a.at) = w /\ a.number = n
    BY DEF LimiterInv, NoneMissing, InWindow
  <2>2. a.at \in Nat
    BY DEF LimiterInv, LimiterTypes
  <2>3. w * Window <= a.at /\ a.at < w * Window + Window
    BY <2>1, <2>2, KeyFacts
  <2>4. a \in S
    BY <1>1, <2>2, <2>3
  <2> QED
    BY <2>1, <2>4
<1> HIDE DEF t
<1>3. IsFiniteSet(S)
  BY <1>1, AdmittedBounded DEF t
<1>4. T \in SUBSET S
  OBVIOUS
<1> HIDE DEF S
<1>5. IsFiniteSet(T) /\ Cardinality(T) <= Cardinality(S)
  BY <1>3, <1>4, FS_Subset
<1>6. number \in Surjection(T, 1 .. Limit)
  BY <1>2 DEF Surjection
<1> HIDE DEF T, number
<1>7. Cardinality(1 .. Limit) <= Cardinality(T)
  BY <1>5, <1>6, FS_Surjection
<1>8. Cardinality(1 .. Limit) = Limit
  BY <1>1, UpTo
<1>9. Cardinality(S) \in Nat /\ Cardinality(T) \in Nat
  BY <1>3, <1>5, FS_CardinalityType
<1>10. Cardinality(S) >= Limit
  BY <1>1, <1>5, <1>7, <1>8, <1>9
<1> QED
  BY <1>10 DEF S, t, Admitted

(* However long, no stretch of Window lets in more than twice the limit,   *)
(* but for requests Redis failed to count; and only a window that let in   *)
(* Limit of them turns a request away, whatever EXPIRE was lost.           *)
THEOREM LimiterKept == Spec => []LimitKept
<1>1. LimiterInv => LimitKept
  <2> SUFFICES ASSUME LimiterInv PROVE LimitKept
    OBVIOUS
  <2>1. \A t \in Time : t \in Nat
    BY AccountsAssumption DEF Time
  <2>2. \A t \in Time : Admitted(t, t + Window - 1) <= 2 * Limit + faults
    BY <2>1, AdmittedBounded
  <2> QED
    BY <2>2, RefusedFull DEF LimitKept
<1> QED
  BY <1>1, LimiterInvariant, PTL

=============================================================================
