------------------------------ MODULE Trading -------------------------------
(***************************************************************************)
(* How the server executes the transactions of module Account.             *)
(*                                                                         *)
(* A task is one call of open_position, close_position or                  *)
(* maybe_reset_bankrupt_account (an HTTP request, one liquidation of a     *)
(* tick, one bankruptcy check), run by asyncio with a database session of  *)
(* its own.  It yields at every await, so one action here is one stretch   *)
(* between the awaits whose order against other tasks matters:             *)
(*                                                                         *)
(*   open    lookup -> price -> lock_user -> insert -> index_add           *)
(*   close   mark -> close_lock_user -> close_lock_position -> settle      *)
(*                -> index_remove                                          *)
(*   reset   gate -> reset_lock_user -> reset_lock_positions -> decide     *)
(*                -> index_remove                                          *)
(*                                                                         *)
(* A transaction holds a row lock from its SELECT ... FOR UPDATE to its    *)
(* COMMIT or ROLLBACK, that is, exactly while its task stands between      *)
(* those two steps; the locks are therefore functions of pc.  PostgreSQL   *)
(* runs at READ COMMITTED: a statement reads what is committed when it     *)
(* (last) starts.  What a session has loaded, though, stays as it was in   *)
(* its identity map unless the query says populate_existing.               *)
(***************************************************************************)
EXTENDS Account

CONSTANTS
  Task,           \* requests, liquidations and bankruptcy checks
  AuthLoadsUser,  \* TRUE: opens arrive through the HTTP route, whose
                  \* get_current_user loads the User row into the session that
                  \* open_position then uses; FALSE: a session of its own, as
                  \* the tests and benchmarks call open_position
  MayFail         \* TRUE: a task may die at an await (lost connection, restart),
                  \* and Redis may miss a write

ASSUME TradingAssumption ==
  /\ AuthLoadsUser \in BOOLEAN
  /\ MayFail \in BOOLEAN

VARIABLES
  index,    \* the Redis sets positions:open:<pair>, together
  pc,       \* where each task stands
  op,       \* what it does: open, or the reason of its close
  owner,    \* user_id
  order,    \* the open request
  mark,     \* the price it fetched, or the tick's
  target,   \* the positions it opened, closes or has locked
  seen,     \* users.cash_balance in its session's identity map
  outcome   \* what it returned or raised

vars == <<cash, pos, ledger, index, pc, op, owner, order, mark, target, seen, outcome>>

Outcome == {"none", "opened", "replayed", "rejected", "unavailable", "closed",
            "already_closed", "reset", "no_reset", "failed", "opened_unindexed"}

OpenPc  == {"lookup", "price", "lock_user", "insert", "index_add"}
ClosePc == {"mark", "close_lock_user", "close_lock_position", "settle"}
ResetPc == {"gate", "reset_lock_user", "reset_lock_positions", "decide"}
Pc      == {"new", "done", "index_remove"} \cup OpenPc \cup ClosePc \cup ResetPc

(* Between SELECT ... FOR UPDATE on its owner's users row and the end of   *)
(* the transaction.                                                        *)
HoldsUserRow(t) ==
  pc[t] \in {"insert", "close_lock_position", "settle",
             "reset_lock_positions", "decide"}

HoldsPositionRow(t, p) == pc[t] \in {"settle", "decide"} /\ p \in target[t]

(* Slip: SELECT without FOR UPDATE. *)
UserRowUnlocked(u) == TRUE

UserRowFree(u) == \A t \in Task : ~(HoldsUserRow(t) /\ owner[t] = u)

PositionRowFree(p) == \A t \in Task : ~HoldsPositionRow(t, p)

Goto(t, label) == pc' = [pc EXCEPT ![t] = label]

(* The task returns or raises; an open transaction is rolled back. *)
Finish(t, result) ==
  /\ Goto(t, "done")
  /\ outcome' = [outcome EXCEPT ![t] = result]

TradingInit ==
  /\ AccountInit
  /\ index = {}
  /\ pc = [t \in Task |-> "new"]
  /\ op = [t \in Task |-> "none"]
  /\ owner = [t \in Task |-> None]
  /\ order = [t \in Task |-> None]
  /\ mark = [t \in Task |-> None]
  /\ target = [t \in Task |-> {}]
  /\ seen = [t \in Task |-> None]
  /\ outcome = [t \in Task |-> "none"]

-----------------------------------------------------------------------------
(* open_position *)

(* Slip: the caller's session already holds the User row. *)
OpenRequestLoaded(t) ==
  /\ pc[t] = "new"
  /\ \E u \in User, o \in Order :
       /\ owner' = [owner EXCEPT ![t] = u]
       /\ order' = [order EXCEPT ![t] = o]
       /\ seen' = [seen EXCEPT ![t] = cash[u]]
  /\ op' = [op EXCEPT ![t] = "open"]
  /\ Goto(t, "lookup")
  /\ UNCHANGED <<books, index, mark, target, outcome>>

OpenRequest(t) ==
  /\ pc[t] = "new"
  /\ \E u \in User, o \in Order :
       /\ owner' = [owner EXCEPT ![t] = u]
       /\ order' = [order EXCEPT ![t] = o]
       /\ seen' = [seen EXCEPT ![t] = IF AuthLoadsUser THEN cash[u] ELSE None]
  /\ op' = [op EXCEPT ![t] = "open"]
  /\ Goto(t, "lookup")
  /\ UNCHANGED <<books, index, mark, target, outcome>>

(* The first SELECT by key replays an order that is already a row; then    *)
(* the checks that need neither a price nor a lock.                        *)
OpenLookup(t) ==
  /\ pc[t] = "lookup"
  /\ IF KeyUsed(owner[t], order[t].key) THEN Finish(t, "replayed")
     ELSE IF \/ order[t].leverage \notin Presets
             \/ order[t].collateral < MinCollateral
          THEN Finish(t, "rejected")
          ELSE Goto(t, "price") /\ UNCHANGED outcome
  /\ UNCHANGED <<books, index, op, owner, order, mark, target, seen>>

(* The last price is fetched, or is stale or cannot be had; the pair is    *)
(* tradable or not; the size rounds down to nothing or not.                *)
OpenPrice(t) ==
  /\ pc[t] = "price"
  /\ \/ /\ \E result \in {"rejected", "unavailable"} : Finish(t, result)
        /\ UNCHANGED mark
     \/ \E m \in Price :
          IF OpenRow(owner[t], order[t], m).size > 0
          THEN /\ mark' = [mark EXCEPT ![t] = m]
               /\ Goto(t, "lock_user")
               /\ UNCHANGED outcome
          ELSE Finish(t, "rejected") /\ UNCHANGED mark
  /\ UNCHANGED <<books, index, op, owner, order, target, seen>>

(* SELECT User ... FOR UPDATE without populate_existing: a User the        *)
(* session already holds keeps the attributes it was loaded with.          *)
OpenLockUser(t) ==
  /\ pc[t] = "lock_user"
  /\ UserRowFree(owner[t])
  /\ seen' = [seen EXCEPT ![t] = IF @ = None THEN cash[owner[t]] ELSE @]
  /\ Goto(t, "insert")
  /\ UNCHANGED <<books, index, op, owner, order, mark, target, outcome>>

NewRow(t) == OpenRow(owner[t], order[t], mark[t])

(* Slip: no cash check under the lock. *)
AffordableUnchecked(t) == TRUE

Affordable(t) == Debit(NewRow(t)) <= seen[t]

Insertable(t) == Affordable(t) /\ ~PairOpen(owner[t], order[t].pair)

(* Not enough free cash, or an open position on the pair: rolled back. *)
OpenReject(t) ==
  /\ pc[t] = "insert"
  /\ ~Insertable(t)
  /\ Finish(t, "rejected")
  /\ UNCHANGED <<books, index, op, owner, order, mark, target, seen>>

(* The flush hits uq_positions_user_idempotency_key: rolled back, and the  *)
(* row that has the key is returned.                                       *)
OpenConflict(t) ==
  /\ pc[t] = "insert"
  /\ Insertable(t)
  /\ KeyUsed(owner[t], order[t].key)
  /\ Finish(t, "replayed")
  /\ UNCHANGED <<books, index, op, owner, order, mark, target, seen>>

(* Row, debit and ledger entry in one commit. *)
OpenCommit(t) ==
  /\ pc[t] = "insert"
  /\ Insertable(t)
  /\ ~KeyUsed(owner[t], order[t].key)
  /\ \E p \in Pid :
       /\ pos[p] = None
       /\ RecordOpen(p, NewRow(t), seen[t])
       /\ target' = [target EXCEPT ![t] = {p}]
  /\ Goto(t, "index_add")
  /\ UNCHANGED <<index, op, owner, order, mark, seen, outcome>>

(* SADD, after the commit; a Redis error is logged and swallowed. *)
IndexAdd(t) ==
  /\ pc[t] = "index_add"
  /\ \/ index' = index \cup target[t] /\ Finish(t, "opened")
     \/ MayFail /\ Finish(t, "opened_unindexed") /\ UNCHANGED index
  /\ UNCHANGED <<books, op, owner, order, mark, target, seen>>

-----------------------------------------------------------------------------
(* close_position *)

(* A user closes one of its positions; the preview finds the row. *)
CloseRequest(t) ==
  /\ pc[t] = "new"
  /\ \E p \in Pid :
       /\ pos[p] # None
       /\ owner' = [owner EXCEPT ![t] = pos[p].user]
       /\ target' = [target EXCEPT ![t] = {p}]
  /\ op' = [op EXCEPT ![t] = "user"]
  /\ Goto(t, "mark")
  /\ UNCHANGED <<books, index, order, mark, seen, outcome>>

(* A tick at price m found the id in the index, or in PostgreSQL because   *)
(* Redis was out, and its row open and crossed.                            *)
LiquidationRequest(t) ==
  /\ pc[t] = "new"
  /\ \E p \in Pid, m \in Price :
       /\ p \in index \/ MayFail
       /\ IsOpen(p)
       /\ IsLiquidatable(pos[p].side, m, pos[p].liquidation)
       /\ owner' = [owner EXCEPT ![t] = pos[p].user]
       /\ target' = [target EXCEPT ![t] = {p}]
       /\ mark' = [mark EXCEPT ![t] = m]
  /\ op' = [op EXCEPT ![t] = "liquidation"]
  /\ Goto(t, "close_lock_user")
  /\ UNCHANGED <<books, index, order, seen, outcome>>

(* A user close prices itself; a stale price or none ends it. *)
CloseMark(t) ==
  /\ pc[t] = "mark"
  /\ \/ Finish(t, "unavailable") /\ UNCHANGED mark
     \/ \E m \in Price :
          /\ mark' = [mark EXCEPT ![t] = m]
          /\ Goto(t, "close_lock_user")
          /\ UNCHANGED outcome
  /\ UNCHANGED <<books, index, op, owner, order, target, seen>>

(* populate_existing: the session now has the row as committed. *)
CloseLockUser(t) ==
  /\ pc[t] = "close_lock_user"
  /\ UserRowFree(owner[t])
  /\ seen' = [seen EXCEPT ![t] = cash[owner[t]]]
  /\ Goto(t, "close_lock_position")
  /\ UNCHANGED <<books, index, op, owner, order, mark, target, outcome>>

CloseLockPosition(t) ==
  /\ pc[t] = "close_lock_position"
  /\ \A p \in target[t] : PositionRowFree(p)
  /\ Goto(t, "settle")
  /\ UNCHANGED <<books, index, op, owner, order, mark, target, seen, outcome>>

(* Slip: retried instead of returned. *)
AlreadyClosedRetries(t) ==
  /\ pc[t] = "settle"
  /\ \A p \in target[t] : ~IsOpen(p)
  /\ Goto(t, "close_lock_user")
  /\ UNCHANGED <<books, index, op, owner, order, mark, target, seen, outcome>>

(* Somebody else closed it first: rolled back, the terminal row returned. *)
AlreadyClosed(t) ==
  /\ pc[t] = "settle"
  /\ \A p \in target[t] : ~IsOpen(p)
  /\ Finish(t, "already_closed")
  /\ UNCHANGED <<books, index, op, owner, order, mark, target, seen>>

(* Slip: the status is not read again under the lock. *)
CloseCommitUnchecked(t) ==
  /\ pc[t] = "settle"
  /\ \E p \in target[t] : RecordClose(p, mark[t], op[t], seen[t])
  /\ Goto(t, "index_remove")
  /\ UNCHANGED <<index, op, owner, order, mark, target, seen, outcome>>

CloseCommit(t) ==
  /\ pc[t] = "settle"
  /\ \E p \in target[t] : IsOpen(p) /\ RecordClose(p, mark[t], op[t], seen[t])
  /\ Goto(t, "index_remove")
  /\ UNCHANGED <<index, op, owner, order, mark, target, seen, outcome>>

(* Slip: DEL of the pair's whole set instead of SREM of one member. *)
IndexRemovePair(t) ==
  /\ pc[t] = "index_remove"
  /\ index' = {q \in index : \A p \in target[t] : pos[q].pair # pos[p].pair}
  /\ Finish(t, IF op[t] = "bankruptcy" THEN "reset" ELSE "closed")
  /\ UNCHANGED <<books, op, owner, order, mark, target, seen>>

(* SREM of each closed position in turn, after the commit; a Redis error   *)
(* is swallowed here too.                                                  *)
IndexRemove(t) ==
  /\ pc[t] = "index_remove"
  /\ \/ \E p \in target[t] :
          /\ \/ index' = index \ {p}
             \/ MayFail /\ UNCHANGED index
          /\ target' = [target EXCEPT ![t] = @ \ {p}]
          /\ UNCHANGED <<pc, outcome>>
     \/ /\ target[t] = {}
        /\ Finish(t, IF op[t] = "bankruptcy" THEN "reset" ELSE "closed")
        /\ UNCHANGED <<index, target>>
  /\ UNCHANGED <<books, op, owner, order, mark, seen>>

-----------------------------------------------------------------------------
(* maybe_reset_bankrupt_account *)

(* The caller has loaded the User row into the session. *)
ResetCheck(t) ==
  /\ pc[t] = "new"
  /\ \E u \in User :
       /\ owner' = [owner EXCEPT ![t] = u]
       /\ seen' = [seen EXCEPT ![t] = cash[u]]
  /\ op' = [op EXCEPT ![t] = "bankruptcy"]
  /\ Goto(t, "gate")
  /\ UNCHANGED <<books, index, order, mark, target, outcome>>

(* The lock-free gate values the open positions with display prices, which *)
(* may be missing.                                                         *)
ResetGate(t) ==
  /\ pc[t] = "gate"
  /\ \E marks \in [OpenPids(owner[t]) -> Price \cup {None}] :
       IF Equity(seen[t], OpenPids(owner[t]), marks) > Floor
       THEN Finish(t, "no_reset")
       ELSE Goto(t, "reset_lock_user") /\ UNCHANGED outcome
  /\ UNCHANGED <<books, index, op, owner, order, mark, target, seen>>

(* Slip: without populate_existing. *)
ResetLockUserStale(t) ==
  /\ pc[t] = "reset_lock_user"
  /\ UserRowFree(owner[t])
  /\ Goto(t, "reset_lock_positions")
  /\ UNCHANGED <<books, index, op, owner, order, mark, target, seen, outcome>>

(* Slip: without FOR UPDATE. *)
ResetLockUserUnlocked(t) ==
  /\ pc[t] = "reset_lock_user"
  /\ seen' = [seen EXCEPT ![t] = cash[owner[t]]]
  /\ Goto(t, "reset_lock_positions")
  /\ UNCHANGED <<books, index, op, owner, order, mark, target, outcome>>

ResetLockUser(t) ==
  /\ pc[t] = "reset_lock_user"
  /\ UserRowFree(owner[t])
  /\ seen' = [seen EXCEPT ![t] = cash[owner[t]]]
  /\ Goto(t, "reset_lock_positions")
  /\ UNCHANGED <<books, index, op, owner, order, mark, target, outcome>>

(* Slip: the query lost its status = 'open'. *)
ResetLockEveryPosition(t) ==
  /\ pc[t] = "reset_lock_positions"
  /\ target' = [target EXCEPT ![t] =
                   {p \in Pid : pos[p] # None /\ pos[p].user = owner[t]}]
  /\ Goto(t, "decide")
  /\ UNCHANGED <<books, index, op, owner, order, mark, seen, outcome>>

(* Every open position, ordered by pair, FOR UPDATE. *)
ResetLockPositions(t) ==
  /\ pc[t] = "reset_lock_positions"
  /\ \A p \in OpenPids(owner[t]) : PositionRowFree(p)
  /\ target' = [target EXCEPT ![t] = OpenPids(owner[t])]
  /\ Goto(t, "decide")
  /\ UNCHANGED <<books, index, op, owner, order, mark, seen, outcome>>

(* A price is stale or missing, or the account is above the floor at fresh *)
(* prices: rolled back.                                                    *)
ResetDefer(t) ==
  /\ pc[t] = "decide"
  /\ \/ target[t] # {}
     \/ \E marks \in [target[t] -> Price] : Equity(seen[t], target[t], marks) > Floor
  /\ Finish(t, "no_reset")
  /\ UNCHANGED <<books, index, op, owner, order, mark, target, seen>>

ResetCommit(t) ==
  /\ pc[t] = "decide"
  /\ \E marks \in [target[t] -> Price] :
       /\ Equity(seen[t], target[t], marks) <= Floor
       /\ RecordReset(owner[t], target[t], marks, seen[t])
  /\ Goto(t, "index_remove")
  /\ UNCHANGED <<index, op, owner, order, mark, target, seen, outcome>>

-----------------------------------------------------------------------------
(* The connection to PostgreSQL or Redis drops, or the process dies: the   *)
(* transaction is rolled back, and what came after the commit is skipped.  *)
Fail(t) ==
  /\ MayFail
  /\ pc[t] \notin {"new", "done"}
  /\ Finish(t, "failed")
  /\ UNCHANGED <<books, index, op, owner, order, mark, target, seen>>

Arrive(t) ==
  \/ OpenRequest(t) \/ CloseRequest(t) \/ LiquidationRequest(t) \/ ResetCheck(t)

Proceed(t) ==
  \/ OpenLookup(t) \/ OpenPrice(t) \/ OpenLockUser(t) \/ OpenReject(t)
  \/ OpenConflict(t) \/ OpenCommit(t) \/ IndexAdd(t)
  \/ CloseMark(t) \/ CloseLockUser(t) \/ CloseLockPosition(t)
  \/ AlreadyClosed(t) \/ CloseCommit(t) \/ IndexRemove(t)
  \/ ResetGate(t) \/ ResetLockUser(t) \/ ResetLockPositions(t)
  \/ ResetDefer(t) \/ ResetCommit(t)

(* All requests answered: the only state the system may rest in. *)
Quiet ==
  /\ \A t \in Task : pc[t] = "done"
  /\ UNCHANGED vars

Next == (\E t \in Task : Arrive(t) \/ Proceed(t) \/ Fail(t)) \/ Quiet

Spec == TradingInit /\ [][Next]_vars

(* The event loop resumes every ready task; every await ends (a REST call  *)
(* after 5 s of silence); and PostgreSQL grants a row lock to its waiters  *)
(* in the order they asked, so one that keeps being released is got.  A    *)
(* task stays where it is until it proceeds, so strong fairness of Proceed *)
(* says all of this.                                                       *)
Fairness == \A t \in Task : SF_vars(Proceed(t))

FairSpec == Spec /\ Fairness

-----------------------------------------------------------------------------
TypeOK ==
  /\ BooksTypeOK
  /\ index \subseteq Pid
  /\ pc \in [Task -> Pc]
  /\ op \in [Task -> {"none", "open"} \cup Reason]
  /\ owner \in [Task -> User \cup {None}]
  /\ order \in [Task -> Order \cup {None}]
  /\ mark \in [Task -> Price \cup {None}]
  /\ target \in [Task -> SUBSET Pid]
  /\ seen \in [Task -> Int \cup {None}]
  /\ outcome \in [Task -> Outcome]

(* What the service promises of an account, with sessions of either kind.  *)
(* A close and a reset read the rows as they are when they commit.  An open *)
(* does so of everything but the balance it checks and debits: that is one  *)
(* the account has had (after the first i entries of its ledger), and the   *)
(* latest if the session was empty.                                        *)
ServiceNext ==
  \/ \E p \in Pid, u \in User, o \in Order, m \in Price : \E i \in 0..Len(ledger[u]) :
       /\ AuthLoadsUser \/ i = Len(ledger[u])
       /\ OpenFrom(p, u, o, m, BalanceAfter(u, i))
  \/ \E p \in Pid, m \in Price, reason \in {"user", "liquidation"} : Close(p, m, reason)
  \/ \E u \in User : \E marks \in [OpenPids(u) -> Price] : Reset(u, marks)

(* The await-by-await execution of open_position, close_position and       *)
(* maybe_reset_bankrupt_account is one of whole transactions: what a stale *)
(* session can do to an open is all that the interleaving can do.          *)
ServiceSpec == AccountInit /\ [][ServiceNext]_books

(* SPEC.md invariant 5, as far as it goes.  The last entry's balance is the *)
(* free cash, and every entry's is an earlier balance of the account plus  *)
(* its own delta: the balance just before it, unless it is an open through *)
(* the HTTP route, whose session may have loaded an older one.             *)
LedgerTraceable ==
  \A u \in User :
    /\ cash[u] = BalanceAfter(u, Len(ledger[u]))
    /\ \A i \in 1..Len(ledger[u]) : \E j \in 0..i - 1 :
         /\ j = i - 1 \/ (AuthLoadsUser /\ ledger[u][i].type = "position_open")
         /\ BalanceAfter(u, i) = BalanceAfter(u, j) + ledger[u][i].delta

(* The id of an open position leaves the index by no open, close, reset or *)
(* retry: whoever removes it after a commit removes what that commit       *)
(* closed, and nothing opens again.  (What reconcile and a Redis without   *)
(* its data remove is LiquidationEngine's subject.)                        *)
OpenStaysIndexed ==
  [][\A p \in Pid : p \in index /\ p \notin index' => ~IsOpen(p)']_vars

(* Every request, liquidation and check that started ends: no task waits   *)
(* for ever for a row lock, or on one that waits for it.                   *)
RequestsAnswered == \A t \in Task : (pc[t] # "new") ~> (pc[t] = "done")

(* SPEC.md invariant 5: the position row and its Redis index op commit as  *)
(* one transaction or not at all, so that with every task at rest the index *)
(* holds each open position.                                               *)
IndexedAtRest ==
  (\A t \in Task : pc[t] \in {"new", "done"}) => \A p \in Pid : IsOpen(p) => p \in index

(* docstring of open_position, positions.py:109: on a duplicate key the     *)
(* original row is returned and the business logic never re-evaluated, so  *)
(* no open whose key already has a row is turned down under the lock.      *)
DuplicateReplays ==
  [][\A t \in Task :
       pc[t] = "insert" /\ outcome'[t] = "rejected"
         => ~KeyUsed(owner[t], order[t].key)]_vars
=============================================================================
