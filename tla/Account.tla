------------------------------ MODULE Account -------------------------------
(***************************************************************************)
(* What the trading core promises: the PostgreSQL rows of an account (free *)
(* cash, positions, ledger) change only by whole transactions, each of     *)
(* which reads the rows it checks and writes as they are at that moment.   *)
(*                                                                         *)
(* The transactions are those of backend/app/positions.py (open, close)    *)
(* and backend/app/bankruptcy.py (reset).  Module Trading has the steps in *)
(* which the workers really execute them; its refinement of AccountSpec    *)
(* says that the row locks make those steps look atomic.                   *)
(***************************************************************************)
EXTENDS PositionsMath, Sequences

CONSTANTS
  User,           \* accounts
  Pid,            \* position ids, drawn fresh by uuid4
  Order,          \* the open requests clients send (see OrderFields)
  Price,          \* the prices the provider reports
  StartingCash,   \* settings.starting_cash_balance
  Floor,          \* settings.bankruptcy_equity_floor
  Presets,        \* settings.leverage_presets
  MinCollateral,  \* settings.min_collateral
  None            \* SQL's NULL and Python's None: no row, id or price

OrderFields(o) ==
  /\ DOMAIN o = {"key", "pair", "side", "leverage", "collateral"}
  /\ o.side \in Side
  /\ o.leverage \in Nat \ {0}
  /\ o.collateral \in Nat \ {0}

ASSUME AccountAssumption ==
  /\ \A o \in Order : OrderFields(o)
  /\ Price \subseteq Nat \ {0}
  /\ StartingCash \in Nat \ {0}
  /\ Floor \in Int
  /\ MinCollateral \in Nat
  /\ None \notin Pid \cup User \cup Int

VARIABLES
  cash,    \* users.cash_balance: free cash of each account
  pos,     \* the positions table: the row of each id, or None
  ledger   \* ledger_entries of each account in commit order

books == <<cash, pos, ledger>>

Reason == {"user", "liquidation", "bankruptcy"}

(* The row positions.py builds for order o of user u at entry price m. *)
OpenRow(u, o, m) ==
  [user |-> u, key |-> o.key, pair |-> o.pair, side |-> o.side,
   leverage |-> o.leverage, collateral |-> o.collateral, entry |-> m,
   size |-> PositionSize(o.collateral, o.leverage, m),
   liquidation |-> LiquidationPrice(o.side, m, o.leverage),
   status |-> "open", reason |-> "none", mark |-> None]

(* Slip: the reason stored as the status. *)
ClosedRowReasonAsStatus(r, m, reason) ==
  [r EXCEPT !.status = reason, !.reason = reason, !.mark = m]

ClosedRow(r, m, reason) ==
  [r EXCEPT !.status = IF reason = "liquidation" THEN "liquidated" ELSE "closed",
            !.reason = reason, !.mark = m]

Row ==
  [user : User, key : {o.key : o \in Order}, pair : {o.pair : o \in Order},
   side : Side, leverage : Nat \ {0}, collateral : Nat \ {0}, entry : Price,
   size : Nat, liquidation : Int, status : {"open", "closed", "liquidated"},
   reason : Reason \cup {"none"}, mark : Price \cup {None}]

ASSUME NullAssumption == None \notin Row

Entry ==
  [type : {"position_open", "position_close", "liquidation", "bankruptcy_reset"},
   position : Pid \cup {None}, delta : Int, after : Int]

IsOpen(p) == pos[p] # None /\ pos[p].status = "open"

OpenPids(u) == {p \in Pid : IsOpen(p) /\ pos[p].user = u}

(* Slip: a key constraint that is partial, like the one on pairs. *)
KeyUsedByOpen(u, k) == \E p \in OpenPids(u) : pos[p].key = k

(* uq_positions_user_idempotency_key. *)
KeyUsed(u, k) == \E p \in Pid : pos[p] # None /\ pos[p].user = u /\ pos[p].key = k

(* Slip: neither the clash check nor its index. *)
PairNeverOpen(u, pair) == FALSE

(* uq_positions_one_open_per_pair. *)
PairOpen(u, pair) == \E p \in OpenPids(u) : pos[p].pair = pair

Debit(r) == r.collateral + OpenFee(r.collateral, r.leverage)

Pnl(r, m) == UnrealizedPnl(r.side, r.size, r.entry, m)

(* Account equity at the given marks; a position without a price counts    *)
(* its collateral only.                                                    *)
Equity(free, P, marks) ==
  AccountEquity(free, P, LAMBDA p :
    PositionEquity(pos[p].collateral,
                   IF marks[p] = None THEN 0 ELSE Pnl(pos[p], marks[p])))

-----------------------------------------------------------------------------
(* The writes of each transaction.  `free' is the cash balance it holds in  *)
(* memory when it writes, which is what it computes the new balance from.   *)

Book(u, type, p, delta, after) ==
  /\ cash' = [cash EXCEPT ![u] = after]
  /\ ledger' = [ledger EXCEPT ![u] =
       Append(@, [type |-> type, position |-> p, delta |-> delta, after |-> after])]

RecordOpen(p, r, free) ==
  /\ pos' = [pos EXCEPT ![p] = r]
  /\ Book(r.user, "position_open", p, -Debit(r), free - Debit(r))

RecordClose(p, m, reason, free) ==
  LET r    == pos[p]
      back == SettlementCash(r.collateral, Pnl(r, m), OpenFee(r.collateral, r.leverage))
  IN  /\ pos' = [pos EXCEPT ![p] = ClosedRow(r, m, reason)]
      /\ Book(r.user, IF reason = "liquidation" THEN "liquidation" ELSE "position_close",
              p, back, free + back)

RecordReset(u, P, marks, free) ==
  /\ pos' = [p \in Pid |-> IF p \in P THEN ClosedRow(pos[p], marks[p], "bankruptcy")
                                      ELSE pos[p]]
  /\ Book(u, "bankruptcy_reset", None, StartingCash - free, StartingCash)

-----------------------------------------------------------------------------
AccountInit ==
  /\ cash = [u \in User |-> StartingCash]
  /\ pos = [p \in Pid |-> None]
  /\ ledger = [u \in User |-> <<>>]

(* An accepted open: everything open_position checks, against the rows as  *)
(* they are when it commits, but for the balance `free' that it holds.     *)
OpenFrom(p, u, o, m, free) ==
  LET r == OpenRow(u, o, m)
  IN  /\ pos[p] = None
      /\ o.leverage \in Presets
      /\ o.collateral >= MinCollateral
      /\ r.size > 0
      /\ Debit(r) <= free
      /\ ~PairOpen(u, o.pair)
      /\ ~KeyUsed(u, o.key)
      /\ RecordOpen(p, r, free)

Open(p, u, o, m) == OpenFrom(p, u, o, m, cash[u])

(* A close by its user or by the liquidation engine. *)
Close(p, m, reason) ==
  /\ IsOpen(p)
  /\ reason = "liquidation" => IsLiquidatable(pos[p].side, m, pos[p].liquidation)
  /\ RecordClose(p, m, reason, cash[pos[p].user])

(* A bankruptcy reset of an account at or below the floor. *)
Reset(u, marks) ==
  /\ Equity(cash[u], OpenPids(u), marks) <= Floor
  /\ RecordReset(u, OpenPids(u), marks, cash[u])

AccountNext ==
  \/ \E p \in Pid, u \in User, o \in Order, m \in Price : Open(p, u, o, m)
  \/ \E p \in Pid, m \in Price, reason \in {"user", "liquidation"} : Close(p, m, reason)
  \/ \E u \in User : \E marks \in [OpenPids(u) -> Price] : Reset(u, marks)

AccountSpec == AccountInit /\ [][AccountNext]_books

-----------------------------------------------------------------------------
(* The tables hold rows and entries of their declared columns. *)
BooksTypeOK ==
  /\ cash \in [User -> Int]
  /\ pos \in [Pid -> Row \cup {None}]
  /\ ledger \in [User -> Seq(Entry)]

(* SPEC.md invariant 1 (ck_users_cash_balance_nonnegative): no sequence of *)
(* opens, closes, liquidations and resets drives free cash below zero.     *)
FreeCashNonNegative == \A u \in User : cash[u] >= 0

(* The balance after the first i entries of u's ledger. *)
BalanceAfter(u, i) == IF i = 0 THEN StartingCash ELSE ledger[u][i].after

(* models.py LedgerEntry: "the running users.cash_balance after the entry".*)
(* Every entry's balance is its predecessor's plus its own delta, and the  *)
(* last one is the free cash: no movement of cash is lost or made up.      *)
LedgerChained ==
  \A u \in User :
    /\ cash[u] = BalanceAfter(u, Len(ledger[u]))
    /\ \A i \in 1..Len(ledger[u]) :
         BalanceAfter(u, i) = BalanceAfter(u, i - 1) + ledger[u][i].delta

(* The entries of u's ledger about position p of one of the types T. *)
EntriesOf(u, p, T) ==
  {i \in 1..Len(ledger[u]) : ledger[u][i].position = p /\ ledger[u][i].type \in T}

(* SPEC.md invariants 3, 5 and 12: a position's row and its owner's ledger  *)
(* agree.  It was paid for once, was settled to cash once if its user or    *)
(* the liquidator closed it, after it was paid for, and never if it is      *)
(* still open or a reset closed it.                                         *)
BookedOnce ==
  \A p \in Pid, u \in User :
    LET paid    == EntriesOf(u, p, {"position_open"})
        settled == EntriesOf(u, p, {"position_close", "liquidation"})
    IN  IF pos[p] = None \/ pos[p].user # u
        THEN paid = {} /\ settled = {}
        ELSE \E i \in 1..Len(ledger[u]) :
               /\ paid = {i}
               /\ IF pos[p].reason \in {"user", "liquidation"}
                  THEN \E j \in i + 1 .. Len(ledger[u]) : settled = {j}
                  ELSE settled = {}

(* SPEC.md invariant 7 and "one position per pair": no two rows of an      *)
(* account share an idempotency key, and no two open ones a pair.          *)
NoDoubleOpen ==
  \A p, q \in Pid :
    p # q /\ pos[p] # None /\ pos[q] # None /\ pos[p].user = pos[q].user
      => /\ pos[p].key # pos[q].key
         /\ IsOpen(p) /\ IsOpen(q) => pos[p].pair # pos[q].pair

(* SPEC.md invariant 3: a row is inserted open, leaves "open" at most once *)
(* and is then never written again.                                        *)
ClosesOnce ==
  [][\A p \in Pid :
       pos'[p] # pos[p] =>
         \/ pos[p] = None /\ pos'[p].status = "open"
         \/ IsOpen(p) /\ \E m \in Price, reason \in Reason :
                           pos'[p] = ClosedRow(pos[p], m, reason)]_books

(* SPEC.md invariant 2: an open never commits more collateral and fee than *)
(* the free cash there is when it commits.                                 *)
OpensWithinFreeCash ==
  [][\A p \in Pid :
       pos[p] = None /\ pos'[p] # None =>
         Debit(pos'[p]) <= cash[pos'[p].user]]_books

(* SPEC.md invariant 12: the step that books a bankruptcy_reset leaves the *)
(* account with its starting cash and no open position, one opened while   *)
(* the reset was being decided included.                                   *)
ResetIsTotal ==
  [][\A u \in User :
       /\ Len(ledger'[u]) > Len(ledger[u])
       /\ ledger'[u][Len(ledger'[u])].type = "bankruptcy_reset"
       => cash'[u] = StartingCash /\ OpenPids(u)' = {}]_books
=============================================================================
