--------------------------- MODULE Trading_proofs ---------------------------
(***************************************************************************)
(* Proofs about Account and Trading, for any number of users, positions,   *)
(* orders, prices and tasks.                                               *)
(*                                                                         *)
(* First the invariants of the atomic account.  Then that the tasks run as *)
(* whole transactions of it (ServiceSpec), and what that leaves of its     *)
(* promises when an open may hold an older balance.  Last, that nothing    *)
(* open leaves the index by their doing, and that they do not deadlock.    *)
(***************************************************************************)
EXTENDS Trading, PositionsMath_proofs, WellFoundedInduction

-----------------------------------------------------------------------------
(* The account.                                                            *)


LEMMA OrderFacts ==
  ASSUME NEW o \in Order
  PROVE  /\ o.side \in Side
         /\ o.leverage \in Nat \ {0}
         /\ o.collateral \in Nat \ {0}
  BY AccountAssumption DEF OrderFields

(* A new row has the columns of the table, and so has a closed one. *)
LEMMA OpenRowType ==
  ASSUME NEW u \in User, NEW o \in Order, NEW m \in Price
  PROVE  OpenRow(u, o, m) \in Row
  <1>1. m \in Nat \ {0}
    BY AccountAssumption
  <1>2. PositionSize(o.collateral, o.leverage, m) \in Nat
    BY <1>1, OrderFacts, SizeWithinNotional
  <1>3. LiquidationPrice(o.side, m, o.leverage) \in Int
    BY <1>1, OrderFacts, LiquidationPositive
  <1> QED BY <1>2, <1>3, OrderFacts DEF OpenRow, Row

LEMMA ClosedRowType ==
  ASSUME NEW r \in Row, NEW m \in Price, NEW reason \in Reason
  PROVE  ClosedRow(r, m, reason) \in Row
  BY DEF ClosedRow, Row, Reason

LEMMA DebitType ==
  ASSUME NEW r \in Row
  PROVE  Debit(r) \in Nat
  <1>1. r.collateral \in Nat /\ r.leverage \in Nat
    BY DEF Row
  <1>2. \A c, l \in Nat : OpenFee(c, l) \in Nat
    BY OpenFeeNat
  <1>3. OpenFee(r.collateral, r.leverage) \in Nat
    BY <1>1, <1>2, Zenon
  <1> QED BY <1>1, <1>3 DEF Debit

(* What a close pays back: never negative. *)
Back(r, m) ==
  SettlementCash(r.collateral, Pnl(r, m), OpenFee(r.collateral, r.leverage))

LEMMA BackType ==
  ASSUME NEW r \in Row, NEW m \in Price
  PROVE  Back(r, m) \in Nat
  <1>1. /\ r.collateral \in Nat
        /\ r.leverage \in Nat
        /\ r.side \in Side
        /\ r.size \in Nat
        /\ r.entry \in Nat
        /\ m \in Nat
    BY AccountAssumption DEF Row
  <1>2. Pnl(r, m) \in Int
    BY <1>1, PnlInt DEF Pnl
  <1>3. \A c, l \in Nat : OpenFee(c, l) \in Nat
    BY OpenFeeNat
  <1>4. OpenFee(r.collateral, r.leverage) \in Int
    <2>1. OpenFee(r.collateral, r.leverage) \in Nat
      BY <1>1, <1>3, Zenon
    <2> QED BY <2>1
  <1>5. \A c, x, f \in Int : SettlementCash(c, x, f) \in Nat
    BY SettlementNat
  <1>6. r.collateral \in Int
    BY <1>1
  <1> QED BY <1>2, <1>4, <1>5, <1>6, Zenon DEF Back

(* One movement of cash keeps the cash and ledger columns typed. *)
LEMMA BookType ==
  ASSUME BooksTypeOK, NEW u \in User, NEW type, NEW p \in Pid \cup {None},
         NEW delta \in Int, NEW after \in Int,
         type \in {"position_open", "position_close", "liquidation",
                   "bankruptcy_reset"},
         Book(u, type, p, delta, after)
  PROVE  /\ cash' \in [User -> Int]
         /\ ledger' \in [User -> Seq(Entry)]
  <1>1. [type |-> type, position |-> p, delta |-> delta, after |-> after] \in Entry
    BY DEF Entry
  <1> QED BY <1>1 DEF Book, BooksTypeOK

(* A step of an account whose opens may hold a balance that is not the     *)
(* committed one.  Most of what the account promises survives that; what   *)
(* does not (LedgerChained) is proved for AccountNext.                     *)
LooseNext ==
  \/ \E p \in Pid, u \in User, o \in Order, m \in Price, free \in Int :
       OpenFrom(p, u, o, m, free)
  \/ \E p \in Pid, m \in Price, reason \in {"user", "liquidation"} : Close(p, m, reason)
  \/ \E u \in User : \E marks \in [OpenPids(u) -> Price] : Reset(u, marks)

LEMMA AccountIsLoose == BooksTypeOK /\ [AccountNext]_books => [LooseNext]_books
  <1> SUFFICES ASSUME BooksTypeOK, NEW p \in Pid, NEW u \in User, NEW o \in Order,
                      NEW m \in Price, Open(p, u, o, m)
               PROVE  \E free \in Int : OpenFrom(p, u, o, m, free)
    BY DEF AccountNext, LooseNext
  <1>1. cash[u] \in Int
    BY DEF BooksTypeOK
  <1> QED BY <1>1 DEF Open

(* The three transactions, with what their guards give. *)
LEMMA OpenEffect ==
  ASSUME BooksTypeOK, NEW p \in Pid, NEW u \in User, NEW o \in Order,
         NEW m \in Price, NEW free \in Int, OpenFrom(p, u, o, m, free)
  PROVE  /\ pos[p] = None
         /\ OpenRow(u, o, m) \in Row
         /\ OpenRow(u, o, m).user = u
         /\ pos' = [pos EXCEPT ![p] = OpenRow(u, o, m)]
         /\ Debit(OpenRow(u, o, m)) \in Nat
         /\ Debit(OpenRow(u, o, m)) <= free
         /\ Book(u, "position_open", p, -Debit(OpenRow(u, o, m)),
                 free - Debit(OpenRow(u, o, m)))
  <1>1. OpenRow(u, o, m).user = u
    BY DEF OpenRow
  <1> QED BY <1>1, OpenRowType, DebitType DEF OpenFrom, RecordOpen

LEMMA CloseEffect ==
  ASSUME BooksTypeOK, NEW p \in Pid, NEW m \in Price,
         NEW reason \in {"user", "liquidation"}, Close(p, m, reason)
  PROVE  /\ pos[p] \in Row
         /\ pos[p].status = "open"
         /\ pos[p].user \in User
         /\ ClosedRow(pos[p], m, reason) \in Row
         /\ pos' = [pos EXCEPT ![p] = ClosedRow(pos[p], m, reason)]
         /\ Back(pos[p], m) \in Nat
         /\ Book(pos[p].user,
                 IF reason = "liquidation" THEN "liquidation" ELSE "position_close",
                 p, Back(pos[p], m), cash[pos[p].user] + Back(pos[p], m))
  <1>1. pos[p] \in Row /\ pos[p].status = "open"
    BY DEF Close, IsOpen, BooksTypeOK
  <1>2. pos[p].user \in User
    BY <1>1 DEF Row
  <1>3. reason \in Reason
    BY DEF Reason
  <1> QED BY <1>1, <1>2, <1>3, ClosedRowType, BackType DEF Close, RecordClose, Back

LEMMA ResetEffect ==
  ASSUME BooksTypeOK, NEW u \in User, NEW marks \in [OpenPids(u) -> Price],
         Reset(u, marks)
  PROVE  /\ pos' = [p \in Pid |-> IF p \in OpenPids(u)
                                  THEN ClosedRow(pos[p], marks[p], "bankruptcy")
                                  ELSE pos[p]]
         /\ \A p \in OpenPids(u) : /\ pos[p] \in Row
                                   /\ marks[p] \in Price
                                   /\ ClosedRow(pos[p], marks[p], "bankruptcy") \in Row
         /\ Book(u, "bankruptcy_reset", None, StartingCash - cash[u], StartingCash)
  <1>1. ASSUME NEW p \in OpenPids(u) PROVE pos[p] \in Row /\ marks[p] \in Price
    BY <1>1 DEF OpenPids, IsOpen, BooksTypeOK
  <1>2. "bankruptcy" \in Reason
    BY DEF Reason
  <1>3. ASSUME NEW p \in OpenPids(u)
        PROVE  ClosedRow(pos[p], marks[p], "bankruptcy") \in Row
    BY <1>1, <1>2, ClosedRowType
  <1> QED BY <1>1, <1>3 DEF Reset, RecordReset

-----------------------------------------------------------------------------
(* The tables are always well typed. *)
LEMMA TypeInit == AccountInit => BooksTypeOK
  <1> SUFFICES ASSUME AccountInit PROVE BooksTypeOK
    OBVIOUS
  <1>1. cash \in [User -> Int]
    BY AccountAssumption DEF AccountInit
  <1>2. ledger \in [User -> Seq(Entry)]
    BY DEF AccountInit
  <1> QED BY <1>1, <1>2 DEF AccountInit, BooksTypeOK

LEMMA TypeNext == BooksTypeOK /\ [LooseNext]_books => BooksTypeOK'
  <1> SUFFICES ASSUME BooksTypeOK, [LooseNext]_books PROVE BooksTypeOK'
    OBVIOUS
  <1>1. ASSUME NEW p \in Pid, NEW u \in User, NEW o \in Order, NEW m \in Price,
               NEW free \in Int, OpenFrom(p, u, o, m, free)
        PROVE  BooksTypeOK'
    <2> DEFINE r == OpenRow(u, o, m)
    <2>1. /\ r \in Row
          /\ pos' = [pos EXCEPT ![p] = r]
          /\ Debit(r) \in Nat
          /\ Book(u, "position_open", p, -Debit(r), free - Debit(r))
      BY <1>1, OpenEffect
    <2> HIDE DEF r
    <2>2. pos' \in [Pid -> Row \cup {None}]
      BY <2>1 DEF BooksTypeOK
    <2>4. -Debit(r) \in Int /\ free - Debit(r) \in Int
      BY <2>1
    <2>5. cash' \in [User -> Int] /\ ledger' \in [User -> Seq(Entry)]
      BY <2>1, <2>4, BookType
    <2> QED BY <2>2, <2>5 DEF BooksTypeOK
  <1>2. ASSUME NEW p \in Pid, NEW m \in Price,
               NEW reason \in {"user", "liquidation"}, Close(p, m, reason)
        PROVE  BooksTypeOK'
    <2> DEFINE u    == pos[p].user
               back == Back(pos[p], m)
               type == IF reason = "liquidation" THEN "liquidation"
                                                 ELSE "position_close"
    <2>1. /\ u \in User
          /\ ClosedRow(pos[p], m, reason) \in Row
          /\ pos' = [pos EXCEPT ![p] = ClosedRow(pos[p], m, reason)]
          /\ back \in Nat
          /\ Book(u, type, p, back, cash[u] + back)
      BY <1>2, CloseEffect
    <2>2. pos' \in [Pid -> Row \cup {None}]
      BY <2>1 DEF BooksTypeOK
    <2>3. type \in {"position_open", "position_close", "liquidation",
                    "bankruptcy_reset"}
      OBVIOUS
    <2> HIDE DEF u, back, type
    <2>4. back \in Int /\ cash[u] + back \in Int
      BY <2>1 DEF BooksTypeOK
    <2>5. cash' \in [User -> Int] /\ ledger' \in [User -> Seq(Entry)]
      BY <2>1, <2>3, <2>4, BookType
    <2> QED BY <2>2, <2>5 DEF BooksTypeOK
  <1>3. ASSUME NEW u \in User, NEW marks \in [OpenPids(u) -> Price], Reset(u, marks)
        PROVE  BooksTypeOK'
    <2>1. pos' \in [Pid -> Row \cup {None}]
      BY <1>3, ResetEffect DEF BooksTypeOK
    <2>2. cash[u] \in Int /\ StartingCash \in Int
      BY AccountAssumption DEF BooksTypeOK
    <2>3. cash' \in [User -> Int] /\ ledger' \in [User -> Seq(Entry)]
      BY <1>3, <2>2, ResetEffect, BookType
    <2> QED BY <2>1, <2>3 DEF BooksTypeOK
  <1>4. CASE UNCHANGED books
    BY <1>4 DEF books, BooksTypeOK
  <1> QED BY <1>1, <1>2, <1>3, <1>4 DEF LooseNext

THEOREM BooksTyped == AccountSpec => []BooksTypeOK
  BY TypeInit, TypeNext, AccountIsLoose, PTL DEF AccountSpec

-----------------------------------------------------------------------------
(* Free cash: an open takes no more than there is, a close pays back at    *)
(* least nothing, a reset pays out the starting cash.                      *)
LEMMA FreeCashNext ==
  BooksTypeOK /\ FreeCashNonNegative /\ [LooseNext]_books => FreeCashNonNegative'
  <1> SUFFICES ASSUME BooksTypeOK, FreeCashNonNegative, [LooseNext]_books
               PROVE  FreeCashNonNegative'
    OBVIOUS
  <1>0. \A u \in User : cash[u] \in Int /\ cash[u] >= 0
    BY DEF BooksTypeOK, FreeCashNonNegative
  <1>1. ASSUME NEW u \in User, NEW type, NEW p, NEW delta, NEW after \in Int,
               after >= 0, Book(u, type, p, delta, after)
        PROVE  FreeCashNonNegative'
    BY <1>0, <1>1 DEF Book, FreeCashNonNegative, BooksTypeOK
  <1>2. ASSUME NEW p \in Pid, NEW u \in User, NEW o \in Order, NEW m \in Price,
               NEW free \in Int, OpenFrom(p, u, o, m, free)
        PROVE  FreeCashNonNegative'
    <2> DEFINE d == Debit(OpenRow(u, o, m))
    <2>1. /\ d \in Nat
          /\ d <= free
          /\ Book(u, "position_open", p, -d, free - d)
      BY <1>2, OpenEffect
    <2> HIDE DEF d
    <2>2. free - d \in Int /\ free - d >= 0
      BY <2>1
    <2> QED BY <1>1, <2>1, <2>2
  <1>3. ASSUME NEW p \in Pid, NEW m \in Price,
               NEW reason \in {"user", "liquidation"}, Close(p, m, reason)
        PROVE  FreeCashNonNegative'
    <2> DEFINE u    == pos[p].user
               back == Back(pos[p], m)
               type == IF reason = "liquidation" THEN "liquidation"
                                                 ELSE "position_close"
    <2>1. /\ u \in User
          /\ back \in Nat
          /\ Book(u, type, p, back, cash[u] + back)
      BY <1>3, CloseEffect
    <2> HIDE DEF u, back, type
    <2>2. cash[u] + back \in Int /\ cash[u] + back >= 0
      BY <1>0, <2>1
    <2> QED BY <1>1, <2>1, <2>2
  <1>4. ASSUME NEW u \in User, NEW marks \in [OpenPids(u) -> Price], Reset(u, marks)
        PROVE  FreeCashNonNegative'
    BY <1>1, <1>4, ResetEffect, AccountAssumption
  <1>5. CASE UNCHANGED books
    BY <1>5 DEF books, FreeCashNonNegative
  <1> QED BY <1>2, <1>3, <1>4, <1>5 DEF LooseNext

(* SPEC.md invariant 1 for the atomic account. *)
THEOREM FreeCash == AccountSpec => []FreeCashNonNegative
  <1>1. AccountInit => FreeCashNonNegative
    BY AccountAssumption DEF AccountInit, FreeCashNonNegative
  <1> QED BY <1>1, FreeCashNext, AccountIsLoose, BooksTyped, PTL DEF AccountSpec

-----------------------------------------------------------------------------
(* An entry whose balance is the cash before it plus its delta extends the *)
(* chain of its account and leaves the others alone.                       *)
LEMMA BookChained ==
  ASSUME BooksTypeOK, LedgerChained, NEW u \in User, NEW type, NEW p,
         NEW delta \in Int, NEW after \in Int, after = cash[u] + delta,
         Book(u, type, p, delta, after)
  PROVE  LedgerChained'
  <1> DEFINE e == [type |-> type, position |-> p, delta |-> delta, after |-> after]
             n == Len(ledger[u])
  <1>1. /\ cash' = [cash EXCEPT ![u] = after]
        /\ ledger' = [ledger EXCEPT ![u] = Append(ledger[u], e)]
    BY DEF Book
  <1>2. /\ ledger \in [User -> Seq(Entry)]
        /\ cash \in [User -> Int]
        /\ ledger[u] \in Seq(Entry)
        /\ n \in Nat
    BY DEF BooksTypeOK
  <1>3. ASSUME NEW v \in User, v # u
        PROVE  /\ cash'[v] = BalanceAfter(v, Len(ledger[v]))'
               /\ \A i \in 1..Len(ledger'[v]) :
                    BalanceAfter(v, i)' = BalanceAfter(v, i - 1)' + ledger'[v][i].delta
    <2>1. cash'[v] = cash[v] /\ ledger'[v] = ledger[v]
      BY <1>1, <1>2, <1>3
    <2> QED BY <2>1 DEF LedgerChained, BalanceAfter
  <1>4. /\ cash'[u] = BalanceAfter(u, Len(ledger[u]))'
        /\ \A i \in 1..Len(ledger'[u]) :
             BalanceAfter(u, i)' = BalanceAfter(u, i - 1)' + ledger'[u][i].delta
    <2> DEFINE s == ledger[u]
               t == ledger'[u]
    <2>1. t = Append(s, e)
      BY <1>1, <1>2
    <2>2. /\ Len(t) = n + 1
          /\ t[n + 1] = e
          /\ \A i \in 1..n : t[i] = s[i]
      BY <1>2, <2>1
    <2>3. e.after = after /\ e.delta = delta
      OBVIOUS
    <2> HIDE DEF e
    <2>4. /\ cash[u] = (IF n = 0 THEN StartingCash ELSE s[n].after)
          /\ \A i \in 1..n : s[i].after = (IF i - 1 = 0 THEN StartingCash
                                          ELSE s[i - 1].after) + s[i].delta
      BY <1>2 DEF LedgerChained, BalanceAfter
    <2>5. cash'[u] = after
      BY <1>1, <1>2
    <2>6. cash'[u] = (IF n + 1 = 0 THEN StartingCash ELSE t[n + 1].after)
      BY <1>2, <2>2, <2>3, <2>5
    <2>7. ASSUME NEW i \in 1..(n + 1)
          PROVE  t[i].after = (IF i - 1 = 0 THEN StartingCash ELSE t[i - 1].after)
                                + t[i].delta
      <3>1. CASE i = n + 1
        <4>1. (IF i - 1 = 0 THEN StartingCash ELSE t[i - 1].after) = cash[u]
          BY <1>2, <2>2, <2>4, <3>1
        <4> QED BY <2>2, <2>3, <3>1, <4>1
      <3>2. CASE i # n + 1
        <4>1. i \in 1..n /\ (i - 1 = 0 \/ i - 1 \in 1..n)
          BY <1>2, <3>2
        <4> QED BY <2>2, <2>4, <4>1
      <3> QED BY <3>1, <3>2
    <2>8. \A i \in 1..(n + 1) : i # 0
      BY <1>2
    <2> QED BY <2>2, <2>6, <2>7, <2>8 DEF BalanceAfter
  <1> QED BY <1>3, <1>4 DEF LedgerChained

LEMMA LedgerNext ==
  BooksTypeOK /\ LedgerChained /\ [AccountNext]_books => LedgerChained'
  <1> SUFFICES ASSUME BooksTypeOK, LedgerChained, [AccountNext]_books
               PROVE  LedgerChained'
    OBVIOUS
  <1>0. \A u \in User : cash[u] \in Int
    BY DEF BooksTypeOK
  <1>1. ASSUME NEW p \in Pid, NEW u \in User, NEW o \in Order, NEW m \in Price,
               Open(p, u, o, m)
        PROVE  LedgerChained'
    <2> DEFINE d == Debit(OpenRow(u, o, m))
    <2>1. d \in Nat /\ Book(u, "position_open", p, -d, cash[u] - d)
      BY <1>0, <1>1, OpenEffect DEF Open
    <2> HIDE DEF d
    <2>2. /\ -d \in Int
          /\ cash[u] - d \in Int
          /\ cash[u] - d = cash[u] + (-d)
      BY <1>0, <2>1
    <2> QED BY <2>1, <2>2, BookChained
  <1>2. ASSUME NEW p \in Pid, NEW m \in Price,
               NEW reason \in {"user", "liquidation"}, Close(p, m, reason)
        PROVE  LedgerChained'
    <2> DEFINE u    == pos[p].user
               back == Back(pos[p], m)
               type == IF reason = "liquidation" THEN "liquidation"
                                                 ELSE "position_close"
    <2>1. /\ u \in User
          /\ back \in Nat
          /\ Book(u, type, p, back, cash[u] + back)
      BY <1>2, CloseEffect
    <2> HIDE DEF u, back, type
    <2>2. back \in Int /\ cash[u] + back \in Int
      BY <1>0, <2>1
    <2> QED BY <2>1, <2>2, BookChained
  <1>3. ASSUME NEW u \in User, NEW marks \in [OpenPids(u) -> Price], Reset(u, marks)
        PROVE  LedgerChained'
    <2>1. Book(u, "bankruptcy_reset", None, StartingCash - cash[u], StartingCash)
      BY <1>3, ResetEffect
    <2>2. /\ StartingCash - cash[u] \in Int
          /\ StartingCash \in Int
          /\ StartingCash = cash[u] + (StartingCash - cash[u])
      BY <1>0, AccountAssumption
    <2> QED BY <2>1, <2>2, BookChained
  <1>4. CASE UNCHANGED books
    BY <1>4 DEF books, LedgerChained, BalanceAfter
  <1> QED BY <1>1, <1>2, <1>3, <1>4 DEF AccountNext

(* The ledger accounts for every cent of free cash, at every moment. *)
THEOREM LedgerIsChained == AccountSpec => []LedgerChained
  <1>1. AccountInit => LedgerChained
    BY DEF AccountInit, LedgerChained, BalanceAfter
  <1> QED BY <1>1, LedgerNext, BooksTyped, PTL DEF AccountSpec

(* total[i] is the starting balance and the first i movements since.       *)
RunningSum(u, total) ==
  /\ total[0] = StartingCash
  /\ \A i \in 1..Len(ledger[u]) : total[i] = total[i - 1] + ledger[u][i].delta

(* There is such a sum, and free cash is nothing else.                     *)
CashAddsUp ==
  \A u \in User :
    /\ \E total \in [0..Len(ledger[u]) -> Int] : RunningSum(u, total)
    /\ \A total \in [0..Len(ledger[u]) -> Int] :
         RunningSum(u, total) => cash[u] = total[Len(ledger[u])]

(* The balances are a sum.  Were there another, some entry would be the    *)
(* first whose balance is not the sum up to it.                            *)
LEMMA ChainAddsUp == BooksTypeOK /\ LedgerChained => CashAddsUp
  <1> SUFFICES ASSUME BooksTypeOK, LedgerChained, NEW u \in User
               PROVE  /\ \E total \in [0..Len(ledger[u]) -> Int] : RunningSum(u, total)
                      /\ \A total \in [0..Len(ledger[u]) -> Int] :
                           RunningSum(u, total) => cash[u] = total[Len(ledger[u])]
    BY DEF CashAddsUp
  <1> DEFINE n == Len(ledger[u])
             R == {ss \in Nat \X Nat : ss[1] < ss[2]}
  <1>1. n \in Nat /\ ledger[u] \in Seq(Entry)
    BY DEF BooksTypeOK
  <1>2. \E total \in [0..n -> Int] : RunningSum(u, total)
    <2> DEFINE balance == [i \in 0..n |-> BalanceAfter(u, i)]
    <2>1. \A i \in 0..n : BalanceAfter(u, i) \in Int
      <3>1. \A i \in 1..n : ledger[u][i] \in Entry
        BY <1>1
      <3>2. \A i \in 1..n : ledger[u][i].after \in Int
        BY <3>1 DEF Entry
      <3>3. StartingCash \in Int
        BY AccountAssumption
      <3>4. \A i \in 0..n : i = 0 \/ i \in 1..n
        BY <1>1
      <3> QED BY <3>2, <3>3, <3>4 DEF BalanceAfter
    <2>2. balance \in [0..n -> Int] /\ \A i \in 0..n : balance[i] = BalanceAfter(u, i)
      BY <2>1
    <2>3. 0 \in 0..n /\ \A i \in 1..n : i \in 0..n /\ i - 1 \in 0..n
      BY <1>1
    <2>4. BalanceAfter(u, 0) = StartingCash
      BY DEF BalanceAfter
    <2>5. \A i \in 1..n : BalanceAfter(u, i) = BalanceAfter(u, i - 1) + ledger[u][i].delta
      BY DEF LedgerChained
    <2> HIDE DEF balance
    <2>6. RunningSum(u, balance)
      BY <2>2, <2>3, <2>4, <2>5 DEF RunningSum
    <2> QED BY <2>2, <2>6
  <1>3. ASSUME NEW total \in [0..n -> Int], RunningSum(u, total)
        PROVE  cash[u] = total[n]
    <2> DEFINE Wrong == {i \in 0..n : BalanceAfter(u, i) # total[i]}
    <2>1. BalanceAfter(u, 0) = total[0]
      BY <1>3 DEF RunningSum, BalanceAfter
    <2>2. \A i \in 1..n : /\ BalanceAfter(u, i) = BalanceAfter(u, i - 1) + ledger[u][i].delta
                          /\ total[i] = total[i - 1] + ledger[u][i].delta
      BY <1>3 DEF LedgerChained, RunningSum
    <2>3. cash[u] = BalanceAfter(u, n)
      BY DEF LedgerChained
    <2> HIDE DEF n
    <2>4. Wrong = {}
      <3> SUFFICES ASSUME Wrong # {} PROVE FALSE
        OBVIOUS
      <3>1. Wrong \subseteq Nat
        BY <1>1
      <3>2. IsWellFoundedOn(R, Nat)
        BY NatLessThanWellFounded DEF OpToRel
      <3>3. PICK i \in Wrong : \A j \in Wrong : <<j, i>> \notin R
        <4> HIDE DEF R, Wrong
        <4> QED BY <3>1, <3>2, WFMin
      <3>4. i \in 1..n
        BY <1>1, <2>1, <3>3
      <3>5. i - 1 \in 0..n /\ <<i - 1, i>> \in R
        BY <1>1, <3>4
      <3>6. BalanceAfter(u, i - 1) = total[i - 1]
        BY <3>3, <3>5
      <3>7. BalanceAfter(u, i) = total[i]
        BY <2>2, <3>4, <3>6
      <3> QED BY <3>3, <3>7
    <2>5. n \in 0..n
      BY <1>1
    <2>6. BalanceAfter(u, n) = total[n]
      BY <2>4, <2>5
    <2> QED BY <2>3, <2>6
  <1> QED BY <1>2, <1>3

(* The sum of what open, settle and reset book is what the account has.    *)
THEOREM LedgerAddsUp == AccountSpec => []CashAddsUp
  BY ChainAddsUp, BooksTyped, LedgerIsChained, PTL

-----------------------------------------------------------------------------
(* ck_positions_close_reason_matches_status *)
ReasonMatchesStatus ==
  \A p \in Pid : pos[p] # None => (pos[p].status = "open" <=> pos[p].reason = "none")

(* What the transactions do to one row: nothing, insert it open, or close  *)
(* it with one of the reasons.                                             *)
LEMMA RowStep ==
  ASSUME BooksTypeOK, [LooseNext]_books, NEW p \in Pid
  PROVE  \/ pos'[p] = pos[p]
         \/ /\ pos[p] = None
            /\ \E u \in User, o \in Order, m \in Price :
                 /\ pos'[p] = OpenRow(u, o, m)
                 /\ ~KeyUsed(u, o.key)
                 /\ ~PairOpen(u, o.pair)
                 /\ \A q \in Pid \ {p} : pos'[q] = pos[q]
         \/ /\ IsOpen(p)
            /\ pos[p] \in Row
            /\ \E m \in Price, reason \in Reason : pos'[p] = ClosedRow(pos[p], m, reason)
  <1>0. pos \in [Pid -> Row \cup {None}]
    BY DEF BooksTypeOK
  <1>1. ASSUME NEW q \in Pid, NEW u \in User, NEW o \in Order, NEW m \in Price,
               NEW free \in Int, OpenFrom(q, u, o, m, free)
        PROVE  \/ pos'[p] = pos[p]
               \/ /\ pos[p] = None
                  /\ pos'[p] = OpenRow(u, o, m)
                  /\ ~KeyUsed(u, o.key)
                  /\ ~PairOpen(u, o.pair)
                  /\ \A r \in Pid \ {p} : pos'[r] = pos[r]
    <2>1. /\ pos[q] = None
          /\ pos' = [pos EXCEPT ![q] = OpenRow(u, o, m)]
      BY <1>1, OpenEffect
    <2>2. ~KeyUsed(u, o.key) /\ ~PairOpen(u, o.pair)
      BY <1>1 DEF OpenFrom
    <2> QED BY <1>0, <2>1, <2>2
  <1>2. ASSUME NEW q \in Pid, NEW m \in Price,
               NEW reason \in {"user", "liquidation"}, Close(q, m, reason)
        PROVE  \/ pos'[p] = pos[p]
               \/ /\ IsOpen(p)
                  /\ pos[p] \in Row
                  /\ pos'[p] = ClosedRow(pos[p], m, reason)
    <2>1. /\ pos[q] \in Row
          /\ pos' = [pos EXCEPT ![q] = ClosedRow(pos[q], m, reason)]
      BY <1>2, CloseEffect
    <2>2. IsOpen(q)
      BY <1>2 DEF Close
    <2> QED BY <1>0, <2>1, <2>2
  <1>3. ASSUME NEW u \in User, NEW marks \in [OpenPids(u) -> Price], Reset(u, marks)
        PROVE  \/ pos'[p] = pos[p]
               \/ /\ IsOpen(p)
                  /\ pos[p] \in Row
                  /\ \E m \in Price : pos'[p] = ClosedRow(pos[p], m, "bankruptcy")
    <2>1. CASE p \in OpenPids(u)
      <3>1. /\ pos'[p] = ClosedRow(pos[p], marks[p], "bankruptcy")
            /\ pos[p] \in Row
            /\ marks[p] \in Price
        BY <1>3, <2>1, ResetEffect
      <3>2. IsOpen(p)
        BY <2>1 DEF OpenPids
      <3> QED BY <3>1, <3>2
    <2>2. CASE p \notin OpenPids(u)
      BY <1>3, <2>2, ResetEffect
    <2> QED BY <2>1, <2>2
  <1>4. CASE UNCHANGED books
    BY <1>4 DEF books
  <1>5. {"user", "liquidation", "bankruptcy"} = Reason
    BY DEF Reason
  <1>6. CASE LooseNext
    <2>1. CASE \E q \in Pid, u \in User, o \in Order, m \in Price, free \in Int :
                 OpenFrom(q, u, o, m, free)
      BY <1>1, <2>1
    <2>2. CASE \E q \in Pid, m \in Price, reason \in {"user", "liquidation"} :
                 Close(q, m, reason)
      BY <1>2, <1>5, <2>2
    <2>3. CASE \E u \in User : \E marks \in [OpenPids(u) -> Price] : Reset(u, marks)
      BY <1>3, <1>5, <2>3
    <2> QED BY <1>6, <2>1, <2>2, <2>3 DEF LooseNext
  <1> QED BY <1>4, <1>6

LEMMA ClosedRowFields ==
  ASSUME NEW r \in Row, NEW m \in Price, NEW reason \in Reason
  PROVE  /\ ClosedRow(r, m, reason).user = r.user
         /\ ClosedRow(r, m, reason).key = r.key
         /\ ClosedRow(r, m, reason).pair = r.pair
         /\ ClosedRow(r, m, reason).reason = reason
         /\ ClosedRow(r, m, reason).status # "open"
         /\ ClosedRow(r, m, reason) # None
  <1>1. ClosedRow(r, m, reason) # None
    BY ClosedRowType, NullAssumption
  <1> QED BY <1>1 DEF ClosedRow, Row, Reason

LEMMA OpenRowFields ==
  ASSUME NEW u \in User, NEW o \in Order, NEW m \in Price
  PROVE  /\ OpenRow(u, o, m).user = u
         /\ OpenRow(u, o, m).key = o.key
         /\ OpenRow(u, o, m).pair = o.pair
         /\ OpenRow(u, o, m).reason = "none"
         /\ OpenRow(u, o, m).status = "open"
         /\ OpenRow(u, o, m) # None
  <1>1. OpenRow(u, o, m) # None
    BY OpenRowType, NullAssumption
  <1> QED BY <1>1 DEF OpenRow

LEMMA ReasonNext ==
  BooksTypeOK /\ ReasonMatchesStatus /\ [LooseNext]_books => ReasonMatchesStatus'
  <1> SUFFICES ASSUME BooksTypeOK, ReasonMatchesStatus, [LooseNext]_books,
                      NEW p \in Pid, pos'[p] # None
               PROVE  pos'[p].status = "open" <=> pos'[p].reason = "none"
    BY DEF ReasonMatchesStatus
  <1>1. CASE pos'[p] = pos[p]
    BY <1>1 DEF ReasonMatchesStatus
  <1>2. CASE \E u \in User, o \in Order, m \in Price : pos'[p] = OpenRow(u, o, m)
    BY <1>2, OpenRowFields
  <1>3. ASSUME pos[p] \in Row, NEW m \in Price, NEW reason \in Reason,
               pos'[p] = ClosedRow(pos[p], m, reason)
        PROVE  pos'[p].status # "open" /\ pos'[p].reason # "none"
    <2>1. reason # "none"
      BY DEF Reason
    <2> QED BY <1>3, <2>1, ClosedRowFields
  <1> QED BY <1>1, <1>2, <1>3, RowStep

LEMMA ReasonIsStatus == AccountSpec => []ReasonMatchesStatus
  <1>1. AccountInit => ReasonMatchesStatus
    BY DEF AccountInit, ReasonMatchesStatus
  <1> QED BY <1>1, ReasonNext, AccountIsLoose, BooksTyped, PTL DEF AccountSpec

(* The step formula of ClosesOnce. *)
CloseStep ==
  \A p \in Pid :
    pos'[p] # pos[p] =>
      \/ pos[p] = None /\ pos'[p].status = "open"
      \/ IsOpen(p) /\ \E m \in Price, reason \in Reason :
                        pos'[p] = ClosedRow(pos[p], m, reason)

LEMMA CloseStepNext == BooksTypeOK /\ [LooseNext]_books => [CloseStep]_books
  <1> SUFFICES ASSUME BooksTypeOK, [LooseNext]_books, NEW p \in Pid, pos'[p] # pos[p]
               PROVE  \/ pos[p] = None /\ pos'[p].status = "open"
                      \/ IsOpen(p) /\ \E m \in Price, reason \in Reason :
                                        pos'[p] = ClosedRow(pos[p], m, reason)
    BY DEF CloseStep
  <1>1. ASSUME NEW u \in User, NEW o \in Order, NEW m \in Price,
               pos'[p] = OpenRow(u, o, m)
        PROVE  pos'[p].status = "open"
    BY <1>1, OpenRowFields
  <1> QED BY <1>1, RowStep

(* SPEC.md invariant 3 for the atomic account. *)
THEOREM RowsCloseOnce == AccountSpec => ClosesOnce
  <1>1. BooksTypeOK /\ [LooseNext]_books =>
          [\A p \in Pid :
             pos'[p] # pos[p] =>
               \/ pos[p] = None /\ pos'[p].status = "open"
               \/ IsOpen(p) /\ \E m \in Price, reason \in Reason :
                                 pos'[p] = ClosedRow(pos[p], m, reason)]_books
    BY CloseStepNext DEF CloseStep
  <1> QED BY <1>1, AccountIsLoose, BooksTyped, PTL DEF AccountSpec, ClosesOnce

-----------------------------------------------------------------------------
(* A row keeps its owner, key and pair, and is open only if it was.  A new *)
(* one found neither its key used nor its pair open, and is the only new   *)
(* one of its step.                                                        *)
LEMMA IdentityStep ==
  ASSUME BooksTypeOK, [LooseNext]_books, NEW p \in Pid, pos'[p] # None
  PROVE  \/ /\ pos[p] # None
            /\ pos'[p].user = pos[p].user
            /\ pos'[p].key = pos[p].key
            /\ pos'[p].pair = pos[p].pair
            /\ pos'[p].status = "open" => pos[p].status = "open"
         \/ /\ pos[p] = None
            /\ \A q \in Pid \ {p} : pos'[q] = pos[q]
            /\ ~KeyUsed(pos'[p].user, pos'[p].key)
            /\ ~PairOpen(pos'[p].user, pos'[p].pair)
  <1>1. ASSUME NEW u \in User, NEW o \in Order, NEW m \in Price,
               pos'[p] = OpenRow(u, o, m), ~KeyUsed(u, o.key), ~PairOpen(u, o.pair)
        PROVE  /\ ~KeyUsed(pos'[p].user, pos'[p].key)
               /\ ~PairOpen(pos'[p].user, pos'[p].pair)
    BY <1>1, OpenRowFields
  <1>2. ASSUME IsOpen(p), pos[p] \in Row, NEW m \in Price, NEW reason \in Reason,
               pos'[p] = ClosedRow(pos[p], m, reason)
        PROVE  /\ pos[p] # None
               /\ pos'[p].user = pos[p].user
               /\ pos'[p].key = pos[p].key
               /\ pos'[p].pair = pos[p].pair
               /\ pos'[p].status = "open" => pos[p].status = "open"
    BY <1>2, ClosedRowFields DEF IsOpen
  <1> QED BY <1>1, <1>2, RowStep

LEMMA NoDoubleNext ==
  BooksTypeOK /\ NoDoubleOpen /\ [LooseNext]_books => NoDoubleOpen'
  <1> SUFFICES ASSUME BooksTypeOK, NoDoubleOpen, [LooseNext]_books,
                      NEW p \in Pid, NEW q \in Pid,
                      p # q, pos'[p] # None, pos'[q] # None, pos'[p].user = pos'[q].user
               PROVE  /\ pos'[p].key # pos'[q].key
                      /\ IsOpen(p)' /\ IsOpen(q)' => pos'[p].pair # pos'[q].pair
    BY DEF NoDoubleOpen
  <1> DEFINE Old(r) == /\ pos[r] # None
                       /\ pos'[r].user = pos[r].user
                       /\ pos'[r].key = pos[r].key
                       /\ pos'[r].pair = pos[r].pair
                       /\ pos'[r].status = "open" => pos[r].status = "open"
             New(r) == /\ pos[r] = None
                       /\ \A s \in Pid \ {r} : pos'[s] = pos[s]
                       /\ ~KeyUsed(pos'[r].user, pos'[r].key)
                       /\ ~PairOpen(pos'[r].user, pos'[r].pair)
  <1>1. (Old(p) \/ New(p)) /\ (Old(q) \/ New(q))
    BY IdentityStep
  <1>2. CASE Old(p) /\ Old(q)
    BY <1>2 DEF NoDoubleOpen, IsOpen
  <1>3. ASSUME NEW r \in Pid, NEW s \in Pid, r # s, New(r), pos'[s] # None,
               pos'[r].user = pos'[s].user
        PROVE  /\ pos'[r].key # pos'[s].key
               /\ pos'[s].status = "open" => pos'[r].pair # pos'[s].pair
    <2>1. pos[s] = pos'[s]
      BY <1>3
    <2>2. pos[s].key # pos'[r].key
      BY <1>3, <2>1 DEF KeyUsed
    <2>3. ~(pos[s].status = "open" /\ pos[s].pair = pos'[r].pair)
      BY <1>3, <2>1 DEF PairOpen, OpenPids, IsOpen
    <2> QED BY <2>1, <2>2, <2>3
  <1>4. CASE New(p)
    BY <1>3, <1>4 DEF IsOpen
  <1>5. CASE New(q)
    <2>1. /\ pos'[q].key # pos'[p].key
          /\ pos'[p].status = "open" => pos'[q].pair # pos'[p].pair
      BY <1>3, <1>5
    <2> QED BY <2>1 DEF IsOpen
  <1> QED BY <1>1, <1>2, <1>4, <1>5

(* SPEC.md invariant 7 and "one position per pair" for the atomic account. *)
THEOREM NoneOpenedTwice == AccountSpec => []NoDoubleOpen
  <1>1. AccountInit => NoDoubleOpen
    BY DEF AccountInit, NoDoubleOpen
  <1> QED BY <1>1, NoDoubleNext, AccountIsLoose, BooksTyped, PTL DEF AccountSpec

-----------------------------------------------------------------------------
(* What a booking does to the ledgers: one entry more for its account.     *)
LEMMA BookLedger ==
  ASSUME BooksTypeOK, NEW u \in User, NEW type, NEW p, NEW delta, NEW after,
         Book(u, type, p, delta, after), NEW v \in User,
         Len(ledger'[v]) > Len(ledger[v])
  PROVE  v = u /\ ledger'[v][Len(ledger'[v])].type = type
  <1> DEFINE e == [type |-> type, position |-> p, delta |-> delta, after |-> after]
  <1>1. ledger' = [ledger EXCEPT ![u] = Append(ledger[u], e)]
    BY DEF Book
  <1>2. e.type = type
    OBVIOUS
  <1> HIDE DEF e
  <1>3. /\ ledger \in [User -> Seq(Entry)]
        /\ ledger[u] \in Seq(Entry)
        /\ Len(ledger[v]) \in Nat
    BY DEF BooksTypeOK
  <1>4. v = u
    BY <1>1, <1>3
  <1>5. ledger'[v] = Append(ledger[u], e)
    BY <1>1, <1>3, <1>4
  <1>6. ledger'[v][Len(ledger'[v])] = e
    BY <1>3, <1>5
  <1> QED BY <1>2, <1>4, <1>6

(* The step formula of ResetIsTotal. *)
TotalReset ==
  \A u \in User :
    /\ Len(ledger'[u]) > Len(ledger[u])
    /\ ledger'[u][Len(ledger'[u])].type = "bankruptcy_reset"
    => cash'[u] = StartingCash /\ OpenPids(u)' = {}

LEMMA TotalResetNext == BooksTypeOK /\ [LooseNext]_books => [TotalReset]_books
  <1> SUFFICES ASSUME BooksTypeOK, LooseNext, NEW v \in User,
                      Len(ledger'[v]) > Len(ledger[v]),
                      ledger'[v][Len(ledger'[v])].type = "bankruptcy_reset"
               PROVE  cash'[v] = StartingCash /\ OpenPids(v)' = {}
    BY DEF TotalReset
  <1>1. ASSUME NEW p \in Pid, NEW u \in User, NEW o \in Order, NEW m \in Price,
               NEW free \in Int, OpenFrom(p, u, o, m, free)
        PROVE  FALSE
    <2>1. Book(u, "position_open", p, -Debit(OpenRow(u, o, m)),
               free - Debit(OpenRow(u, o, m)))
      BY <1>1, OpenEffect
    <2>2. ledger'[v][Len(ledger'[v])].type = "position_open"
      BY <2>1, BookLedger
    <2> QED BY <2>2
  <1>2. ASSUME NEW p \in Pid, NEW m \in Price,
               NEW reason \in {"user", "liquidation"}, Close(p, m, reason)
        PROVE  FALSE
    <2> DEFINE type == IF reason = "liquidation" THEN "liquidation"
                                                 ELSE "position_close"
    <2>1. /\ pos[p].user \in User
          /\ Book(pos[p].user, type, p, Back(pos[p], m),
                  cash[pos[p].user] + Back(pos[p], m))
      BY <1>2, CloseEffect
    <2>2. type # "bankruptcy_reset"
      OBVIOUS
    <2> HIDE DEF type
    <2>3. ledger'[v][Len(ledger'[v])].type = type
      BY <2>1, BookLedger
    <2> QED BY <2>2, <2>3
  <1>3. ASSUME NEW u \in User, NEW marks \in [OpenPids(u) -> Price], Reset(u, marks)
        PROVE  cash'[v] = StartingCash /\ OpenPids(v)' = {}
    <2>1. Book(u, "bankruptcy_reset", None, StartingCash - cash[u], StartingCash)
      BY <1>3, ResetEffect
    <2>2. v = u
      BY <2>1, BookLedger
    <2>3. cash'[v] = StartingCash
      BY <2>1, <2>2 DEF Book, BooksTypeOK
    <2>4. ASSUME NEW p \in Pid, IsOpen(p)', pos'[p].user = u
          PROVE  FALSE
      <3>1. CASE p \in OpenPids(u)
        <4>1. "bankruptcy" \in Reason
          BY DEF Reason
        <4>2. /\ pos'[p] = ClosedRow(pos[p], marks[p], "bankruptcy")
              /\ pos[p] \in Row
              /\ marks[p] \in Price
          BY <1>3, <3>1, ResetEffect
        <4>3. pos'[p].status # "open"
          BY <4>1, <4>2, ClosedRowFields
        <4> QED BY <2>4, <4>3 DEF IsOpen
      <3>2. CASE p \notin OpenPids(u)
        <4>1. pos'[p] = pos[p]
          BY <1>3, <3>2, ResetEffect
        <4> QED BY <2>4, <3>2, <4>1 DEF OpenPids, IsOpen
      <3> QED BY <3>1, <3>2
    <2> QED BY <2>2, <2>3, <2>4 DEF OpenPids
  <1> QED BY <1>1, <1>2, <1>3 DEF LooseNext

-----------------------------------------------------------------------------
(* A transaction of account u leaves the cash and the open positions of    *)
(* every other account alone, and no row ever loses its owner, side or     *)
(* liquidation price.                                                      *)
Touches(u) ==
  /\ \A v \in User \ {u} : cash'[v] = cash[v] /\ OpenPids(v)' = OpenPids(v)
  /\ \A p \in Pid : pos[p] # None =>
       /\ pos'[p] # None
       /\ pos'[p].user = pos[p].user
       /\ pos'[p].side = pos[p].side
       /\ pos'[p].liquidation = pos[p].liquidation

LEMMA ClosedRowKeeps ==
  ASSUME NEW r \in Row, NEW m \in Price, NEW reason \in Reason
  PROVE  /\ ClosedRow(r, m, reason) # None
         /\ ClosedRow(r, m, reason).user = r.user
         /\ ClosedRow(r, m, reason).side = r.side
         /\ ClosedRow(r, m, reason).liquidation = r.liquidation
  <1>1. ClosedRow(r, m, reason) # None
    BY ClosedRowFields
  <1> QED BY <1>1 DEF ClosedRow, Row

LEMMA OpenTouches ==
  ASSUME BooksTypeOK, NEW p \in Pid, NEW u \in User, NEW o \in Order,
         NEW m \in Price, NEW free \in Int, OpenFrom(p, u, o, m, free)
  PROVE  Touches(u)
  <1>1. /\ pos[p] = None
        /\ OpenRow(u, o, m).user = u
        /\ pos' = [pos EXCEPT ![p] = OpenRow(u, o, m)]
        /\ Book(u, "position_open", p, -Debit(OpenRow(u, o, m)),
                free - Debit(OpenRow(u, o, m)))
    BY OpenEffect
  <1>2. \A v \in User \ {u} : cash'[v] = cash[v]
    BY <1>1 DEF Book, BooksTypeOK
  <1>3. \A q \in Pid : q # p => pos'[q] = pos[q]
    BY <1>1 DEF BooksTypeOK
  <1>4. pos'[p].user = u
    BY <1>1 DEF BooksTypeOK
  <1>5. ASSUME NEW v \in User \ {u} PROVE OpenPids(v)' = OpenPids(v)
    BY <1>1, <1>3, <1>4 DEF OpenPids, IsOpen
  <1> QED BY <1>1, <1>2, <1>3, <1>5 DEF Touches

LEMMA CloseTouches ==
  ASSUME BooksTypeOK, NEW p \in Pid, NEW m \in Price,
         NEW reason \in {"user", "liquidation"}, Close(p, m, reason)
  PROVE  Touches(pos[p].user)
  <1> DEFINE u == pos[p].user
             type == IF reason = "liquidation" THEN "liquidation"
                                               ELSE "position_close"
  <1>1. /\ pos[p] \in Row
        /\ u \in User
        /\ pos' = [pos EXCEPT ![p] = ClosedRow(pos[p], m, reason)]
        /\ Book(u, type, p, Back(pos[p], m), cash[u] + Back(pos[p], m))
    BY CloseEffect
  <1>2. \A v \in User \ {u} : cash'[v] = cash[v]
    BY <1>1 DEF Book, BooksTypeOK
  <1>3. \A q \in Pid : q # p => pos'[q] = pos[q]
    BY <1>1 DEF BooksTypeOK
  <1>4. /\ pos'[p] # None
        /\ pos'[p].user = pos[p].user
        /\ pos'[p].side = pos[p].side
        /\ pos'[p].liquidation = pos[p].liquidation
    <2>1. pos'[p] = ClosedRow(pos[p], m, reason)
      BY <1>1 DEF BooksTypeOK
    <2>2. reason \in Reason
      BY DEF Reason
    <2> QED BY <1>1, <2>1, <2>2, ClosedRowKeeps
  <1>5. ASSUME NEW v \in User \ {u} PROVE OpenPids(v)' = OpenPids(v)
    BY <1>3, <1>4 DEF OpenPids, IsOpen
  <1> QED BY <1>2, <1>3, <1>4, <1>5 DEF Touches

LEMMA ResetTouches ==
  ASSUME BooksTypeOK, NEW u \in User, NEW marks \in [OpenPids(u) -> Price],
         Reset(u, marks)
  PROVE  Touches(u)
  <1>1. /\ \A p \in Pid \ OpenPids(u) : pos'[p] = pos[p]
        /\ \A p \in OpenPids(u) : /\ pos'[p] = ClosedRow(pos[p], marks[p], "bankruptcy")
                                  /\ pos[p] \in Row
                                  /\ marks[p] \in Price
        /\ Book(u, "bankruptcy_reset", None, StartingCash - cash[u], StartingCash)
    BY ResetEffect DEF OpenPids
  <1>2. \A v \in User \ {u} : cash'[v] = cash[v]
    BY <1>1 DEF Book, BooksTypeOK
  <1>3. "bankruptcy" \in Reason
    BY DEF Reason
  <1>4. ASSUME NEW p \in OpenPids(u)
        PROVE  /\ pos'[p] # None
               /\ pos'[p].user = pos[p].user
               /\ pos'[p].side = pos[p].side
               /\ pos'[p].liquidation = pos[p].liquidation
    BY <1>1, <1>3, ClosedRowKeeps
  <1>5. ASSUME NEW v \in User \ {u} PROVE OpenPids(v)' = OpenPids(v)
    <2>1. \A p \in OpenPids(u) : p \notin OpenPids(v) /\ p \notin OpenPids(v)'
      BY <1>4 DEF OpenPids
    <2>2. \A p \in Pid \ OpenPids(u) : p \in OpenPids(v)' <=> p \in OpenPids(v)
      BY <1>1 DEF OpenPids, IsOpen
    <2> QED BY <2>1, <2>2 DEF OpenPids
  <1> QED BY <1>1, <1>2, <1>4, <1>5 DEF Touches

-----------------------------------------------------------------------------
(* BookedOnce for one position and one account. *)
Paid(u, p)    == EntriesOf(u, p, {"position_open"})
Settled(u, p) == EntriesOf(u, p, {"position_close", "liquidation"})

Booked(u, p) ==
  IF pos[p] = None \/ pos[p].user # u
  THEN Paid(u, p) = {} /\ Settled(u, p) = {}
  ELSE \E i \in 1..Len(ledger[u]) :
         /\ Paid(u, p) = {i}
         /\ IF pos[p].reason \in {"user", "liquidation"}
            THEN \E j \in i + 1 .. Len(ledger[u]) : Settled(u, p) = {j}
            ELSE Settled(u, p) = {}

LEMMA BookedParts == BookedOnce <=> \A p \in Pid, u \in User : Booked(u, p)
  BY DEF BookedOnce, Booked, Paid, Settled

(* One more entry, about position p and of this type: the sets it belongs  *)
(* to gain its index, all others stay.                                     *)
LEMMA BookEntries ==
  ASSUME BooksTypeOK, NEW u \in User, NEW type, NEW p, NEW delta, NEW after,
         Book(u, type, p, delta, after)
  PROVE  /\ \A v \in User : Len(ledger[v]) \in Nat
         /\ \A v \in User \ {u} : Len(ledger'[v]) = Len(ledger[v])
         /\ Len(ledger'[u]) = Len(ledger[u]) + 1
         /\ \A v \in User : \A q, T :
              EntriesOf(v, q, T)' =
                IF v = u /\ q = p /\ type \in T
                THEN EntriesOf(v, q, T) \cup {Len(ledger[u]) + 1}
                ELSE EntriesOf(v, q, T)
  <1> DEFINE e == [type |-> type, position |-> p, delta |-> delta, after |-> after]
  <1>1. ledger' = [ledger EXCEPT ![u] = Append(ledger[u], e)]
    BY DEF Book
  <1>2. e.type = type /\ e.position = p
    OBVIOUS
  <1> HIDE DEF e
  <1>3. /\ ledger \in [User -> Seq(Entry)]
        /\ \A v \in User : ledger[v] \in Seq(Entry) /\ Len(ledger[v]) \in Nat
    BY DEF BooksTypeOK
  <1>4. \A v \in User \ {u} : ledger'[v] = ledger[v]
    BY <1>1, <1>3
  <1>5. ledger'[u] = Append(ledger[u], e)
    BY <1>1, <1>3
  <1>6. /\ Len(ledger'[u]) = Len(ledger[u]) + 1
        /\ ledger'[u][Len(ledger[u]) + 1] = e
        /\ \A i \in 1..Len(ledger[u]) : ledger'[u][i] = ledger[u][i]
    BY <1>3, <1>5
  <1>7. ASSUME NEW v \in User \ {u}, NEW q, NEW T
        PROVE  EntriesOf(v, q, T)' = EntriesOf(v, q, T)
    BY <1>4 DEF EntriesOf
  <1>8. ASSUME NEW q, NEW T
        PROVE  EntriesOf(u, q, T)' = IF q = p /\ type \in T
                                     THEN EntriesOf(u, q, T) \cup {Len(ledger[u]) + 1}
                                     ELSE EntriesOf(u, q, T)
    <2> DEFINE n == Len(ledger[u])
    <2>1. n \in Nat /\ 1..(n + 1) = 1..n \cup {n + 1}
      BY <1>3
    <2> QED BY <1>2, <1>6, <2>1 DEF EntriesOf
  <1> QED BY <1>3, <1>4, <1>6, <1>7, <1>8

(* A booking that concerns no position of these sets, or one of another    *)
(* account, keeps what Booked says.                                        *)
LEMMA BookedKept ==
  ASSUME BooksTypeOK, NEW u \in User, NEW type, NEW p, NEW delta, NEW after,
         Book(u, type, p, delta, after),
         NEW v \in User, NEW q \in Pid, Booked(v, q), v # u \/ q # p,
         \/ pos'[q] = pos[q]
         \/ /\ pos[q] # None /\ pos'[q] # None
            /\ pos'[q].user = pos[q].user
            /\ pos[q].reason \notin {"user", "liquidation"}
            /\ pos'[q].reason \notin {"user", "liquidation"}
  PROVE  Booked(v, q)'
  <1>1. Paid(v, q)' = Paid(v, q) /\ Settled(v, q)' = Settled(v, q)
    BY BookEntries DEF Paid, Settled
  <1>2. /\ Len(ledger[v]) \in Nat
        /\ Len(ledger'[v]) \in {Len(ledger[v]), Len(ledger[v]) + 1}
    BY BookEntries
  <1>3. 1..Len(ledger[v]) \subseteq 1..Len(ledger'[v])
    BY <1>2
  <1>4. \A i \in 1..Len(ledger[v]) : i + 1 .. Len(ledger[v]) \subseteq i + 1 .. Len(ledger'[v])
    BY <1>2
  <1> QED BY <1>1, <1>3, <1>4 DEF Booked

LEMMA BookedNext ==
  BooksTypeOK /\ ReasonMatchesStatus /\ BookedOnce /\ [LooseNext]_books => BookedOnce'
  <1> SUFFICES ASSUME BooksTypeOK, ReasonMatchesStatus, BookedOnce, [LooseNext]_books,
                      NEW q \in Pid, NEW v \in User
               PROVE  Booked(v, q)'
    BY DEF BookedOnce, Booked, Paid, Settled
  <1>0. Booked(v, q) /\ pos \in [Pid -> Row \cup {None}]
    BY BookedParts DEF BooksTypeOK
  <1>1. ASSUME NEW p \in Pid, NEW u \in User, NEW o \in Order, NEW m \in Price,
               NEW free \in Int, OpenFrom(p, u, o, m, free)
        PROVE  Booked(v, q)'
    <2> DEFINE d == Debit(OpenRow(u, o, m))
    <2>1. /\ pos[p] = None
          /\ pos' = [pos EXCEPT ![p] = OpenRow(u, o, m)]
          /\ Book(u, "position_open", p, -d, free - d)
      BY <1>1, OpenEffect
    <2> HIDE DEF d
    <2>2. /\ OpenRow(u, o, m) # None
          /\ OpenRow(u, o, m).user = u
          /\ OpenRow(u, o, m).reason = "none"
      BY OpenRowFields
    <2>3. CASE q # p
      <3>1. pos'[q] = pos[q]
        BY <1>0, <2>1, <2>3
      <3> QED BY <1>0, <2>1, <2>3, <3>1, BookedKept
    <2>4. CASE q = p
      <3>1. pos'[q] = OpenRow(u, o, m)
        BY <1>0, <2>1, <2>4
      <3>2. Paid(v, q) = {} /\ Settled(v, q) = {}
        BY <1>0, <2>1, <2>4 DEF Booked
      <3>3. /\ Paid(v, q)' = IF v = u THEN {Len(ledger[u]) + 1} ELSE {}
            /\ Settled(v, q)' = {}
        <4>1. \A T : EntriesOf(v, q, T)' = IF v = u /\ "position_open" \in T
                                           THEN EntriesOf(v, q, T) \cup {Len(ledger[u]) + 1}
                                           ELSE EntriesOf(v, q, T)
          BY <2>1, <2>4, BookEntries
        <4>2. /\ "position_open" \in {"position_open"}
              /\ "position_open" \notin {"position_close", "liquidation"}
          OBVIOUS
        <4> QED BY <3>2, <4>1, <4>2 DEF Paid, Settled
      <3>4. v = u => Len(ledger[u]) + 1 \in 1..Len(ledger'[v])
        BY <2>1, BookEntries
      <3> QED BY <2>2, <3>1, <3>3, <3>4 DEF Booked
    <2> QED BY <2>3, <2>4
  <1>2. ASSUME NEW p \in Pid, NEW m \in Price,
               NEW reason \in {"user", "liquidation"}, Close(p, m, reason)
        PROVE  Booked(v, q)'
    <2> DEFINE u    == pos[p].user
               back == Back(pos[p], m)
               type == IF reason = "liquidation" THEN "liquidation"
                                                 ELSE "position_close"
    <2>1. /\ pos[p] \in Row
          /\ pos[p].status = "open"
          /\ u \in User
          /\ pos' = [pos EXCEPT ![p] = ClosedRow(pos[p], m, reason)]
          /\ Book(u, type, p, back, cash[u] + back)
      BY <1>2, CloseEffect
    <2>2. /\ ClosedRow(pos[p], m, reason) # None
          /\ ClosedRow(pos[p], m, reason).user = u
          /\ ClosedRow(pos[p], m, reason).reason = reason
      BY <2>1, ClosedRowFields DEF Reason
    <2>3. pos[p] # None /\ pos[p].reason = "none"
      BY <2>1, NullAssumption DEF ReasonMatchesStatus
    <2>4. type \in {"position_close", "liquidation"} /\ type # "position_open"
      OBVIOUS
    <2> HIDE DEF back, type
    <2>5. CASE q # p
      <3>1. pos'[q] = pos[q]
        BY <1>0, <2>1, <2>5
      <3> QED BY <1>0, <2>1, <2>5, <3>1, BookedKept
    <2>6. CASE q = p
      <3>1. pos'[q] = ClosedRow(pos[p], m, reason)
        BY <1>0, <2>1, <2>6
      <3>2. CASE v # u
        <4>1. Paid(v, q)' = {} /\ Settled(v, q)' = {}
          BY <1>0, <2>1, <2>6, <3>2, BookEntries DEF Booked, Paid, Settled
        <4> QED BY <2>2, <3>1, <3>2, <4>1 DEF Booked
      <3>3. CASE v = u
        <4>1. PICK i \in 1..Len(ledger[u]) : Paid(u, q) = {i} /\ Settled(u, q) = {}
          BY <1>0, <2>3, <2>6, <3>3 DEF Booked
        <4>2. Paid(v, q)' = {i}
          BY <2>1, <2>4, <2>6, <3>3, <4>1, BookEntries DEF Paid
        <4>3. Settled(v, q)' = {Len(ledger[u]) + 1}
          BY <2>1, <2>4, <2>6, <3>3, <4>1, BookEntries DEF Settled
        <4>4. /\ Len(ledger[u]) \in Nat
              /\ Len(ledger'[v]) = Len(ledger[u]) + 1
          BY <2>1, <3>3, BookEntries
        <4>5. /\ i \in 1..Len(ledger'[v])
              /\ Len(ledger[u]) + 1 \in i + 1 .. Len(ledger'[v])
          BY <4>4
        <4> QED BY <2>2, <3>1, <3>3, <4>2, <4>3, <4>5 DEF Booked
      <3> QED BY <3>2, <3>3
    <2> QED BY <2>5, <2>6
  <1>3. ASSUME NEW u \in User, NEW marks \in [OpenPids(u) -> Price], Reset(u, marks)
        PROVE  Booked(v, q)'
    <2>1. Book(u, "bankruptcy_reset", None, StartingCash - cash[u], StartingCash)
      BY <1>3, ResetEffect
    <2>2. q # None
      BY AccountAssumption
    <2>3. CASE q \notin OpenPids(u)
      <3>1. pos'[q] = pos[q]
        BY <1>3, <2>3, ResetEffect
      <3> QED BY <1>0, <2>1, <2>2, <3>1, BookedKept
    <2>4. CASE q \in OpenPids(u)
      <3>1. /\ pos'[q] = ClosedRow(pos[q], marks[q], "bankruptcy")
            /\ pos[q] \in Row
            /\ marks[q] \in Price
        BY <1>3, <2>4, ResetEffect
      <3>2. /\ pos'[q] # None
            /\ pos'[q].user = pos[q].user
            /\ pos'[q].reason = "bankruptcy"
        BY <3>1, ClosedRowFields DEF Reason
      <3>3. pos[q] # None /\ pos[q].reason = "none"
        BY <2>4 DEF OpenPids, IsOpen, ReasonMatchesStatus
      <3> QED BY <1>0, <2>1, <2>2, <3>2, <3>3, BookedKept
    <2> QED BY <2>3, <2>4
  <1>4. CASE UNCHANGED books
    <2>1. /\ UNCHANGED <<pos, ledger>>
          /\ Paid(v, q)' = Paid(v, q)
          /\ Settled(v, q)' = Settled(v, q)
      BY <1>4 DEF books, Paid, Settled, EntriesOf
    <2> QED BY <1>0, <2>1 DEF Booked
  <1> QED BY <1>1, <1>2, <1>3, <1>4 DEF LooseNext

(* SPEC.md invariants 3, 5 and 12 for the atomic account. *)
THEOREM PositionsBookedOnce == AccountSpec => []BookedOnce
  <1>1. AccountInit => BookedOnce
    BY DEF AccountInit, BookedOnce, EntriesOf
  <1> QED BY <1>1, BookedNext, ReasonIsStatus, AccountIsLoose, BooksTyped, PTL DEF AccountSpec

-----------------------------------------------------------------------------
(* The tasks.                                                              *)


(* What a task knows at each of its awaits.  The last two groups are what  *)
(* its row locks give: the balance it read is the one in the table, and a  *)
(* reset has every open position of its account.                           *)
TaskInv(t) ==
  /\ pc[t] # "new" => owner[t] \in User
  /\ pc[t] \in OpenPc => op[t] = "open" /\ order[t] \in Order
  /\ pc[t] \in {"price", "lock_user", "insert"} =>
       order[t].leverage \in Presets /\ order[t].collateral >= MinCollateral
  /\ pc[t] \in {"lock_user", "insert"} => mark[t] \in Price /\ NewRow(t).size > 0
  /\ pc[t] \in {"lookup", "price", "lock_user"} /\ ~AuthLoadsUser => seen[t] = None
  /\ pc[t] = "mark" => op[t] = "user"
  /\ pc[t] \in ClosePc =>
       /\ op[t] \in {"user", "liquidation"}
       /\ \A p, q \in target[t] : p = q
       /\ \A p \in target[t] : pos[p] # None /\ pos[p].user = owner[t]
  /\ pc[t] \in ClosePc \ {"mark"} =>
       /\ mark[t] \in Price
       /\ op[t] = "liquidation" =>
            \A p \in target[t] : IsLiquidatable(pos[p].side, mark[t], pos[p].liquidation)
  /\ pc[t] = "insert" => seen[t] \in Int
  /\ HoldsUserRow(t) /\ (pc[t] # "insert" \/ ~AuthLoadsUser) => seen[t] = cash[owner[t]]
  /\ pc[t] = "decide" => target[t] = OpenPids(owner[t])

(* No two tasks hold the users row of one account. *)
Exclusive ==
  \A s, t \in Task :
    HoldsUserRow(s) /\ HoldsUserRow(t) /\ owner[s] = owner[t] => s = t

Inv == TypeOK /\ Exclusive /\ \A t \in Task : TaskInv(t)

(* The columns of TypeOK that are the tasks' own. *)
TaskTypeOK ==
  /\ index \subseteq Pid
  /\ pc \in [Task -> Pc]
  /\ op \in [Task -> {"none", "open"} \cup Reason]
  /\ owner \in [Task -> User \cup {None}]
  /\ order \in [Task -> Order \cup {None}]
  /\ mark \in [Task -> Price \cup {None}]
  /\ target \in [Task -> SUBSET Pid]
  /\ seen \in [Task -> Int \cup {None}]
  /\ outcome \in [Task -> Outcome]

(* A step of another task. *)
SameTask(s) ==
  /\ pc'[s] = pc[s]
  /\ op'[s] = op[s]
  /\ owner'[s] = owner[s]
  /\ order'[s] = order[s]
  /\ mark'[s] = mark[s]
  /\ target'[s] = target[s]
  /\ seen'[s] = seen[s]

OthersWait(t) == \A s \in Task \ {t} : SameTask(s)

(* A lock is kept, or taken when it was free. *)
LocksFairly(t) ==
  HoldsUserRow(t)' =>
    owner'[t] = owner[t] /\ (HoldsUserRow(t) \/ UserRowFree(owner[t]))

(* What each action has to establish about its own task. *)
Good(t) == TaskTypeOK' /\ OthersWait(t) /\ LocksFairly(t) /\ TaskInv(t)'

-----------------------------------------------------------------------------
(* Steps that leave the books alone. *)
(* A row belongs to an account. *)
LEMMA OwnerOfRow ==
  ASSUME BooksTypeOK, NEW p \in Pid, pos[p] # None
  PROVE  pos[p].user \in User
  BY DEF BooksTypeOK, Row

(* The four ways a task starts. *)
LEMMA ArriveGood ==
  ASSUME Inv, NEW t \in Task, Arrive(t)
  PROVE  UNCHANGED books /\ Good(t)
  <1> USE DEF Inv, TypeOK, BooksTypeOK, Good, TaskTypeOK, OthersWait, SameTask,
              LocksFairly, HoldsUserRow, TaskInv, Goto, Pc, OpenPc, ClosePc,
              ResetPc, Reason, Outcome, books
  <1>1. CASE OpenRequest(t)
    BY <1>1 DEF OpenRequest
  <1>2. CASE CloseRequest(t)
    <2>1. PICK p \in Pid :
            /\ pos[p] # None
            /\ owner' = [owner EXCEPT ![t] = pos[p].user]
            /\ target' = [target EXCEPT ![t] = {p}]
      BY <1>2 DEF CloseRequest
    <2>2. pos[p].user \in User
      BY <2>1, OwnerOfRow
    <2>3. UNCHANGED books /\ TaskTypeOK' /\ OthersWait(t) /\ LocksFairly(t)
      BY <1>2, <2>1, <2>2 DEF CloseRequest
    <2>4. TaskInv(t)'
      BY <1>2, <2>1, <2>2 DEF CloseRequest
    <2> QED BY <2>3, <2>4
  <1>3. CASE LiquidationRequest(t)
    <2>0. PICK p \in Pid, m \in Price :
            /\ IsOpen(p)
            /\ IsLiquidatable(pos[p].side, m, pos[p].liquidation)
            /\ owner' = [owner EXCEPT ![t] = pos[p].user]
            /\ target' = [target EXCEPT ![t] = {p}]
            /\ mark' = [mark EXCEPT ![t] = m]
      BY <1>3 DEF LiquidationRequest
    <2>1. p \in Pid /\ pos[p] # None
      BY <2>0 DEF IsOpen
    <2>2. pos[p].user \in User
      BY <2>1, OwnerOfRow
    <2>3. UNCHANGED books /\ TaskTypeOK' /\ OthersWait(t) /\ LocksFairly(t)
      BY <1>3, <2>0, <2>1, <2>2 DEF LiquidationRequest
    <2>4. /\ pc'[t] = "close_lock_user"
          /\ op'[t] = "liquidation"
          /\ owner'[t] = pos[p].user
          /\ target'[t] = {p}
          /\ mark'[t] = m
          /\ pos' = pos
      BY <1>3, <2>0, <2>1 DEF LiquidationRequest
    <2>5. TaskInv(t)'
      BY <2>0, <2>1, <2>2, <2>4
    <2> QED BY <2>3, <2>5
  <1>4. CASE ResetCheck(t)
    BY <1>4 DEF ResetCheck
  <1> QED BY <1>1, <1>2, <1>3, <1>4 DEF Arrive

(* open_position without its commit. *)
LEMMA OpenGood ==
  ASSUME Inv, NEW t \in Task,
         \/ OpenLookup(t) \/ OpenPrice(t) \/ OpenLockUser(t) \/ OpenReject(t)
         \/ OpenConflict(t) \/ IndexAdd(t)
  PROVE  UNCHANGED books /\ Good(t)
  <1> USE DEF Inv, TypeOK, BooksTypeOK, Good, TaskTypeOK, OthersWait, SameTask,
              LocksFairly, HoldsUserRow, TaskInv, Goto, Finish, Pc, OpenPc, ClosePc,
              ResetPc, Reason, Outcome, books
  <1>1. CASE OpenLookup(t)
    <2>1. order[t].leverage \in Nat /\ order[t].collateral \in Nat /\ MinCollateral \in Nat
      BY <1>1, OrderFacts, AccountAssumption DEF OpenLookup
    <2>2. CASE \E result \in {"replayed", "rejected"} : Finish(t, result)
      BY <1>1, <2>2 DEF OpenLookup
    <2>3. CASE /\ order[t].leverage \in Presets
               /\ order[t].collateral >= MinCollateral
               /\ Goto(t, "price")
               /\ UNCHANGED outcome
      BY <1>1, <2>3 DEF OpenLookup
    <2> QED BY <1>1, <2>1, <2>2, <2>3 DEF OpenLookup
  <1>2. CASE OpenPrice(t)
    <2>1. CASE \E result \in {"rejected", "unavailable"} : Finish(t, result) /\ UNCHANGED mark
      BY <1>2, <2>1 DEF OpenPrice
    <2>2. ASSUME NEW m \in Price, OpenRow(owner[t], order[t], m).size <= 0,
                 Finish(t, "rejected"), UNCHANGED mark
          PROVE  UNCHANGED books /\ Good(t)
      BY <1>2, <2>2 DEF OpenPrice
    <2>3. ASSUME NEW m \in Price, OpenRow(owner[t], order[t], m).size > 0,
                 mark' = [mark EXCEPT ![t] = m], Goto(t, "lock_user"), UNCHANGED outcome
          PROVE  UNCHANGED books /\ Good(t)
      <3>1. UNCHANGED books /\ TaskTypeOK' /\ OthersWait(t) /\ LocksFairly(t)
        BY <1>2, <2>3 DEF OpenPrice
      <3>2. /\ pc[t] = "price"
            /\ pc'[t] = "lock_user"
            /\ mark'[t] = m
            /\ UNCHANGED <<op, owner, order, target, seen, pos, cash>>
        BY <1>2, <2>3 DEF OpenPrice
      <3>3. NewRow(t)'.size > 0
        BY <2>3, <3>2 DEF NewRow
      <3>4. TaskInv(t)'
        BY <3>2, <3>3
      <3> QED BY <3>1, <3>4
    <2> QED BY <1>2, <2>1, <2>2, <2>3 DEF OpenPrice
  <1>3. CASE OpenLockUser(t)
    <2>1. owner[t] \in User
      BY <1>3 DEF OpenLockUser
    <2>2. cash[owner[t]] \in Int
      BY <2>1
    <2>3. UNCHANGED books /\ TaskTypeOK' /\ OthersWait(t) /\ LocksFairly(t)
      BY <1>3, <2>2 DEF OpenLockUser
    <2>4. /\ pc[t] = "lock_user"
          /\ pc'[t] = "insert"
          /\ seen'[t] = IF seen[t] = None THEN cash[owner[t]] ELSE seen[t]
          /\ UNCHANGED <<op, owner, order, mark, target, pos, cash>>
      BY <1>3 DEF OpenLockUser
    <2>5. NewRow(t)' = NewRow(t)
      BY <2>4 DEF NewRow
    <2>6. seen'[t] \in Int
      BY <2>2, <2>4
    <2>7. TaskInv(t)'
      BY <2>4, <2>5, <2>6
    <2> QED BY <2>3, <2>7
  <1>4. CASE OpenReject(t)
    BY <1>4 DEF OpenReject
  <1>5. CASE OpenConflict(t)
    BY <1>5 DEF OpenConflict
  <1>6. CASE IndexAdd(t)
    BY <1>6 DEF IndexAdd
  <1> QED BY <1>1, <1>2, <1>3, <1>4, <1>5, <1>6

(* close_position without its commit, the index removal and failures. *)
LEMMA CloseGood ==
  ASSUME Inv, NEW t \in Task,
         \/ CloseMark(t) \/ CloseLockUser(t) \/ CloseLockPosition(t)
         \/ AlreadyClosed(t) \/ IndexRemove(t) \/ Fail(t)
  PROVE  UNCHANGED books /\ Good(t)
  <1> USE DEF Inv, TypeOK, BooksTypeOK, Good, TaskTypeOK, OthersWait, SameTask,
              LocksFairly, HoldsUserRow, TaskInv, Goto, Finish, Pc, OpenPc, ClosePc,
              ResetPc, Reason, Outcome, books
  <1>1. CASE CloseMark(t)
    <2>1. CASE Finish(t, "unavailable") /\ UNCHANGED mark
      BY <1>1, <2>1 DEF CloseMark
    <2>2. ASSUME NEW m \in Price, mark' = [mark EXCEPT ![t] = m],
                 Goto(t, "close_lock_user"), UNCHANGED outcome
          PROVE  UNCHANGED books /\ Good(t)
      <3>1. UNCHANGED books /\ TaskTypeOK' /\ OthersWait(t) /\ LocksFairly(t)
        BY <1>1, <2>2 DEF CloseMark
      <3>2. /\ pc[t] = "mark"
            /\ pc'[t] = "close_lock_user"
            /\ mark'[t] = m
            /\ UNCHANGED <<op, owner, order, target, seen, pos, cash>>
        BY <1>1, <2>2 DEF CloseMark
      <3>3. TaskInv(t)'
        BY <3>2
      <3> QED BY <3>1, <3>3
    <2> QED BY <1>1, <2>1, <2>2 DEF CloseMark
  <1>2. CASE CloseLockUser(t)
    BY <1>2 DEF CloseLockUser
  <1>3. CASE CloseLockPosition(t)
    BY <1>3 DEF CloseLockPosition
  <1>4. CASE AlreadyClosed(t)
    BY <1>4 DEF AlreadyClosed
  <1>5. CASE IndexRemove(t)
    <2>1. ASSUME NEW p \in target[t],
                 index' = index \ {p} \/ UNCHANGED index,
                 target' = [target EXCEPT ![t] = @ \ {p}],
                 UNCHANGED <<pc, outcome>>
          PROVE  UNCHANGED books /\ Good(t)
      BY <1>5, <2>1 DEF IndexRemove
    <2>2. ASSUME NEW result \in {"reset", "closed"}, Finish(t, result),
                 UNCHANGED <<index, target>>
          PROVE  UNCHANGED books /\ Good(t)
      BY <1>5, <2>2 DEF IndexRemove
    <2> QED BY <1>5, <2>1, <2>2 DEF IndexRemove
  <1>6. CASE Fail(t)
    BY <1>6 DEF Fail
  <1> QED BY <1>1, <1>2, <1>3, <1>4, <1>5, <1>6

(* maybe_reset_bankrupt_account without its commit. *)
LEMMA ResetGood ==
  ASSUME Inv, NEW t \in Task,
         \/ ResetGate(t) \/ ResetLockUser(t) \/ ResetLockPositions(t) \/ ResetDefer(t)
  PROVE  UNCHANGED books /\ Good(t)
  <1> USE DEF Inv, TypeOK, BooksTypeOK, Good, TaskTypeOK, OthersWait, SameTask,
              LocksFairly, HoldsUserRow, TaskInv, Goto, Finish, Pc, OpenPc, ClosePc,
              ResetPc, Reason, Outcome, books
  <1>1. CASE ResetGate(t)
    <2>1. CASE Finish(t, "no_reset")
      BY <1>1, <2>1 DEF ResetGate
    <2>2. CASE Goto(t, "reset_lock_user") /\ UNCHANGED outcome
      BY <1>1, <2>2 DEF ResetGate
    <2> QED BY <1>1, <2>1, <2>2 DEF ResetGate
  <1>2. CASE ResetLockUser(t)
    BY <1>2 DEF ResetLockUser
  <1>3. CASE ResetLockPositions(t)
    BY <1>3 DEF ResetLockPositions, OpenPids, IsOpen
  <1>4. CASE ResetDefer(t)
    BY <1>4 DEF ResetDefer
  <1> QED BY <1>1, <1>2, <1>3, <1>4

-----------------------------------------------------------------------------
(* The three commits are transactions of the account, and end the hold on  *)
(* the users row.                                                          *)
LEMMA OpenCommits ==
  ASSUME Inv, NEW t \in Task, OpenCommit(t)
  PROVE  /\ HoldsUserRow(t)
         /\ owner[t] \in User
         /\ \E p \in Pid, o \in Order, m \in Price :
              /\ seen[t] \in Int
              /\ ~AuthLoadsUser => seen[t] = cash[owner[t]]
              /\ OpenFrom(p, owner[t], o, m, seen[t])
  <1>1. /\ pc[t] = "insert"
        /\ Affordable(t)
        /\ ~PairOpen(owner[t], order[t].pair)
        /\ ~KeyUsed(owner[t], order[t].key)
    BY DEF OpenCommit, Insertable
  <1>2. /\ owner[t] \in User
        /\ order[t] \in Order
        /\ mark[t] \in Price
        /\ order[t].leverage \in Presets
        /\ order[t].collateral >= MinCollateral
        /\ NewRow(t).size > 0
        /\ seen[t] \in Int
        /\ ~AuthLoadsUser => seen[t] = cash[owner[t]]
    BY <1>1 DEF Inv, TaskInv, OpenPc, HoldsUserRow
  <1>3. PICK p \in Pid : pos[p] = None /\ RecordOpen(p, NewRow(t), seen[t])
    BY DEF OpenCommit
  <1>4. OpenFrom(p, owner[t], order[t], mark[t], seen[t])
    BY <1>1, <1>2, <1>3 DEF OpenFrom, Affordable, NewRow
  <1> QED BY <1>1, <1>2, <1>4 DEF HoldsUserRow

(* close_position: the settlement. *)
LEMMA CloseCommits ==
  ASSUME Inv, NEW t \in Task, CloseCommit(t)
  PROVE  /\ HoldsUserRow(t)
         /\ owner[t] \in User
         /\ \E p \in Pid, m \in Price, reason \in {"user", "liquidation"} :
              pos[p].user = owner[t] /\ Close(p, m, reason)
  <1>1. PICK p \in target[t] : IsOpen(p) /\ RecordClose(p, mark[t], op[t], seen[t])
    BY DEF CloseCommit
  <1>2. pc[t] = "settle"
    BY DEF CloseCommit
  <1>3. /\ owner[t] \in User
        /\ mark[t] \in Price
        /\ op[t] \in {"user", "liquidation"}
        /\ pos[p].user = owner[t]
        /\ op[t] = "liquidation" =>
             IsLiquidatable(pos[p].side, mark[t], pos[p].liquidation)
        /\ seen[t] = cash[owner[t]]
    BY <1>1, <1>2 DEF Inv, TaskInv, ClosePc, HoldsUserRow
  <1>4. p \in Pid
    BY <1>1 DEF Inv, TypeOK
  <1>5. Close(p, mark[t], op[t])
    BY <1>1, <1>3 DEF Close
  <1> QED BY <1>2, <1>3, <1>4, <1>5 DEF HoldsUserRow

(* maybe_reset_bankrupt_account: the reset. *)
LEMMA ResetCommits ==
  ASSUME Inv, NEW t \in Task, ResetCommit(t)
  PROVE  /\ HoldsUserRow(t)
         /\ owner[t] \in User
         /\ \E marks \in [OpenPids(owner[t]) -> Price] : Reset(owner[t], marks)
  <1>1. pc[t] = "decide"
    BY DEF ResetCommit
  <1>2. /\ owner[t] \in User
        /\ seen[t] = cash[owner[t]]
        /\ target[t] = OpenPids(owner[t])
    BY <1>1 DEF Inv, TaskInv, HoldsUserRow
  <1>3. PICK marks \in [target[t] -> Price] :
          /\ Equity(seen[t], target[t], marks) <= Floor
          /\ RecordReset(owner[t], target[t], marks, seen[t])
    BY DEF ResetCommit
  <1>4. Reset(owner[t], marks)
    BY <1>2, <1>3 DEF Reset
  <1> QED BY <1>1, <1>2, <1>3, <1>4 DEF HoldsUserRow

CommitStep(t) == OpenCommit(t) \/ CloseCommit(t) \/ ResetCommit(t)

(* All three: a step of the account, on the rows of the locked user. *)
LEMMA CommitTouches ==
  ASSUME Inv, NEW t \in Task, CommitStep(t)
  PROVE  /\ HoldsUserRow(t)
         /\ owner[t] \in User
         /\ Touches(owner[t])
         /\ LooseNext
  <1>0. BooksTypeOK
    BY DEF Inv, TypeOK
  <1>1. CASE OpenCommit(t)
    <2>1. PICK p \in Pid, o \in Order, m \in Price :
            seen[t] \in Int /\ OpenFrom(p, owner[t], o, m, seen[t])
      BY <1>1, OpenCommits
    <2>2. HoldsUserRow(t) /\ owner[t] \in User
      BY <1>1, OpenCommits
    <2>3. Touches(owner[t])
      BY <1>0, <2>1, <2>2, OpenTouches
    <2>4. LooseNext
      BY <2>1, <2>2 DEF LooseNext
    <2> QED BY <2>2, <2>3, <2>4
  <1>2. CASE CloseCommit(t)
    <2>1. PICK p \in Pid, m \in Price, reason \in {"user", "liquidation"} :
            pos[p].user = owner[t] /\ Close(p, m, reason)
      BY <1>2, CloseCommits
    <2>2. Touches(owner[t])
      BY <1>0, <2>1, CloseTouches
    <2>3. LooseNext
      BY <2>1 DEF LooseNext
    <2> QED BY <1>2, <2>2, <2>3, CloseCommits
  <1>3. CASE ResetCommit(t)
    <2>1. owner[t] \in User
      BY <1>3, ResetCommits
    <2>2. PICK marks \in [OpenPids(owner[t]) -> Price] : Reset(owner[t], marks)
      BY <1>3, ResetCommits
    <2>3. Touches(owner[t])
      BY <1>0, <2>1, <2>2, ResetTouches
    <2>4. LooseNext
      BY <2>1, <2>2 DEF LooseNext
    <2> QED BY <1>3, <2>1, <2>3, <2>4, ResetCommits
  <1> QED BY <1>1, <1>2, <1>3 DEF CommitStep

(* All three, as steps of their task. *)
LEMMA CommitGood == ASSUME Inv, NEW t \in Task, CommitStep(t) PROVE Good(t)
  <1> USE DEF Inv, TypeOK, Good, TaskTypeOK, OthersWait, SameTask,
              LocksFairly, HoldsUserRow, TaskInv, Goto, Pc, OpenPc, ClosePc,
              ResetPc, Reason, Outcome
  <1>1. CASE OpenCommit(t)
    <2>1. PICK p \in Pid : target' = [target EXCEPT ![t] = {p}]
      BY <1>1 DEF OpenCommit
    <2>2. /\ pc[t] = "insert"
          /\ pc' = [pc EXCEPT ![t] = "index_add"]
          /\ UNCHANGED <<index, op, owner, order, mark, seen, outcome>>
      BY <1>1 DEF OpenCommit
    <2> QED BY <2>1, <2>2
  <1>2. CASE CloseCommit(t)
    <2>1. /\ pc[t] = "settle"
          /\ pc' = [pc EXCEPT ![t] = "index_remove"]
          /\ UNCHANGED <<index, op, owner, order, mark, target, seen, outcome>>
      BY <1>2 DEF CloseCommit
    <2> QED BY <2>1
  <1>3. CASE ResetCommit(t)
    <2>1. /\ pc[t] = "decide"
          /\ pc' = [pc EXCEPT ![t] = "index_remove"]
          /\ UNCHANGED <<index, op, owner, order, mark, target, seen, outcome>>
      BY <1>3 DEF ResetCommit
    <2> QED BY <2>1
  <1> QED BY <1>1, <1>2, <1>3 DEF CommitStep

-----------------------------------------------------------------------------
(* What the waiting tasks know stays true: only the holder of an account's *)
(* row changes its cash and its open positions.                            *)
LEMMA OthersKeep ==
  ASSUME Inv, NEW t \in Task,
         UNCHANGED books \/ (HoldsUserRow(t) /\ Touches(owner[t])),
         NEW s \in Task \ {t}, SameTask(s)
  PROVE  TaskInv(s)'
  <1>1. NewRow(s)' = NewRow(s) /\ (HoldsUserRow(s)' <=> HoldsUserRow(s))
    BY DEF SameTask, NewRow, HoldsUserRow
  <1>2. \A p \in Pid : pos[p] # None =>
          /\ pos'[p] # None
          /\ pos'[p].user = pos[p].user
          /\ pos'[p].side = pos[p].side
          /\ pos'[p].liquidation = pos[p].liquidation
    BY DEF Touches, books
  <1>3. target[s] \subseteq Pid
    BY DEF Inv, TypeOK
  <1>4. ASSUME NEW v \in User, HoldsUserRow(s), owner[s] = v
        PROVE  cash'[v] = cash[v] /\ OpenPids(v)' = OpenPids(v)
    <2>1. CASE UNCHANGED books
      BY <2>1 DEF books, OpenPids, IsOpen
    <2>2. CASE HoldsUserRow(t) /\ Touches(owner[t])
      <3>1. v # owner[t]
        BY <1>4, <2>2 DEF Inv, Exclusive
      <3> QED BY <2>2, <3>1 DEF Touches
    <2> QED BY <2>1, <2>2
  <1>5. TaskInv(s)
    BY DEF Inv
  <1>6. /\ pc'[s] \in ClosePc => \A p \in target'[s] : pos'[p] # None /\ pos'[p].user = owner'[s]
        /\ pc'[s] \in ClosePc \ {"mark"} /\ op'[s] = "liquidation" =>
             \A p \in target'[s] : IsLiquidatable(pos'[p].side, mark'[s], pos'[p].liquidation)
    BY <1>2, <1>3, <1>5 DEF SameTask, TaskInv
  <1>7. ASSUME HoldsUserRow(s)
        PROVE  /\ pc[s] # "insert" \/ ~AuthLoadsUser => seen'[s] = cash'[owner'[s]]
               /\ pc[s] = "decide" => target'[s] = OpenPids(owner[s])'
    <2>1. owner[s] \in User
      BY <1>5, <1>7 DEF TaskInv, HoldsUserRow
    <2>2. PICK v \in User : owner[s] = v
      BY <2>1
    <2>3. /\ cash'[v] = cash[v]
          /\ OpenPids(v)' = OpenPids(v)
          /\ owner'[s] = v
      BY <1>4, <1>7, <2>2 DEF SameTask
    <2>4. OpenPids(owner[s])' = OpenPids(v)' /\ OpenPids(owner[s]) = OpenPids(v)
      BY <2>2, <2>3 DEF OpenPids
    <2> QED BY <1>5, <1>7, <2>2, <2>3, <2>4 DEF SameTask, TaskInv
  <1>8. pc[s] = "decide" => HoldsUserRow(s)
    BY DEF HoldsUserRow
  <1> QED BY <1>1, <1>5, <1>6, <1>7, <1>8 DEF SameTask, TaskInv

(* One good step of one task keeps the whole invariant. *)
LEMMA StepKeeps ==
  ASSUME Inv, NEW t \in Task, BooksTypeOK', Good(t),
         UNCHANGED books \/ (HoldsUserRow(t) /\ Touches(owner[t]))
  PROVE  Inv'
  <1>1. \A s \in Task : TaskInv(s)'
    BY OthersKeep DEF Good, OthersWait
  <1>2. Exclusive'
    <2>1. ASSUME NEW s \in Task \ {t}, HoldsUserRow(s)', HoldsUserRow(t)',
                 owner'[s] = owner'[t]
          PROVE  FALSE
      <3>1. HoldsUserRow(s) /\ owner'[s] = owner[s]
        BY <2>1 DEF Good, OthersWait, SameTask, HoldsUserRow
      <3>2. owner'[t] = owner[t] /\ (HoldsUserRow(t) \/ UserRowFree(owner[t]))
        BY <2>1 DEF Good, LocksFairly
      <3> QED BY <2>1, <3>1, <3>2 DEF Inv, Exclusive, UserRowFree
    <2>2. ASSUME NEW r \in Task \ {t}, NEW s \in Task \ {t}, HoldsUserRow(r)',
                 HoldsUserRow(s)', owner'[r] = owner'[s]
          PROVE  r = s
      <3>1. /\ HoldsUserRow(r) /\ owner'[r] = owner[r]
            /\ HoldsUserRow(s) /\ owner'[s] = owner[s]
        BY <2>2 DEF Good, OthersWait, SameTask, HoldsUserRow
      <3> QED BY <2>2, <3>1 DEF Inv, Exclusive
    <2> QED BY <2>1, <2>2 DEF Exclusive
  <1>3. TypeOK'
    BY DEF Good, TypeOK, TaskTypeOK
  <1> QED BY <1>1, <1>2, <1>3 DEF Inv

(* And so does a stutter. *)
LEMMA QuietKeeps == Inv /\ UNCHANGED vars => Inv'
  <1> SUFFICES ASSUME Inv, UNCHANGED vars PROVE Inv'
    OBVIOUS
  <1>1. BooksTypeOK' /\ TaskTypeOK'
    BY DEF Inv, vars, TypeOK, BooksTypeOK, TaskTypeOK
  <1>2. ASSUME NEW t \in Task PROVE TaskInv(t)' /\ (HoldsUserRow(t)' <=> HoldsUserRow(t))
    BY DEF Inv, vars, TaskInv, NewRow, HoldsUserRow, OpenPids, IsOpen
  <1>3. Exclusive'
    BY <1>2 DEF Inv, vars, Exclusive
  <1> QED BY <1>1, <1>2, <1>3 DEF Inv, TypeOK, TaskTypeOK

(* The invariant is inductive, and every step is one of the account's or   *)
(* leaves the books alone.                                                 *)
LEMMA InvInit == TradingInit => Inv
  <1> SUFFICES ASSUME TradingInit PROVE Inv
    OBVIOUS
  <1>1. BooksTypeOK
    BY TypeInit DEF TradingInit
  <1>2. TaskTypeOK
    BY DEF TradingInit, TaskTypeOK, Pc, Outcome
  <1>3. \A t \in Task : pc[t] = "new"
    BY DEF TradingInit
  <1>4. \A t \in Task : TaskInv(t) /\ ~HoldsUserRow(t)
    BY <1>3 DEF TaskInv, HoldsUserRow, OpenPc, ClosePc
  <1> QED BY <1>1, <1>2, <1>4 DEF Inv, TypeOK, TaskTypeOK, Exclusive

LEMMA InvNext == Inv /\ [Next]_vars => Inv' /\ [LooseNext]_books
  <1> SUFFICES ASSUME Inv, [Next]_vars
               PROVE  Inv' /\ [LooseNext]_books
    OBVIOUS
  <1>0. BooksTypeOK
    BY DEF Inv, TypeOK
  <1>1. ASSUME NEW t \in Task, UNCHANGED books, Good(t)
        PROVE  Inv'
    <2>1. BooksTypeOK'
      BY <1>0, <1>1 DEF books, BooksTypeOK
    <2> QED BY <1>1, <2>1, StepKeeps
  <1>2. ASSUME NEW t \in Task, CommitStep(t)
        PROVE  Inv' /\ LooseNext
    <2>1. HoldsUserRow(t) /\ owner[t] \in User /\ Touches(owner[t]) /\ LooseNext
      BY <1>2, CommitTouches
    <2>2. BooksTypeOK'
      BY <1>0, <2>1, TypeNext
    <2>3. Good(t)
      BY <1>2, CommitGood
    <2> QED BY <2>1, <2>2, <2>3, StepKeeps
  <1>3. CASE UNCHANGED vars
    <2>1. UNCHANGED books
      BY <1>3 DEF vars, books
    <2> QED BY <1>3, <2>1, QuietKeeps
  <1>4. ASSUME NEW t \in Task, Arrive(t) \/ Proceed(t) \/ Fail(t)
        PROVE  CommitStep(t) \/ (UNCHANGED books /\ Good(t))
    BY <1>4, ArriveGood, OpenGood, CloseGood, ResetGood DEF Proceed, CommitStep
  <1> QED BY <1>1, <1>2, <1>3, <1>4 DEF Next, Quiet

LEMMA InvAlways == Spec => []Inv
  BY InvInit, InvNext, PTL DEF Spec

-----------------------------------------------------------------------------
(* Rows, ledger entries and the tasks' own variables stay in their sets,   *)
(* whatever the interleaving, failures included.                           *)
THEOREM TradingTyped == Spec => []TypeOK
  <1>1. Inv => TypeOK
    BY DEF Inv
  <1> QED BY <1>1, InvAlways, PTL

-----------------------------------------------------------------------------
(* The balances.  No step rewrites one, and the last is the free cash.     *)
CashIsLast == \A u \in User : cash[u] = BalanceAfter(u, Len(ledger[u]))

Balances(u) == {BalanceAfter(u, i) : i \in 0..Len(ledger[u])}

Extends == \A u \in User : Balances(u) \subseteq Balances(u)'

LEMMA BookExtends ==
  ASSUME BooksTypeOK, CashIsLast, NEW u \in User, NEW type, NEW p, NEW delta,
         NEW after, Book(u, type, p, delta, after)
  PROVE  CashIsLast' /\ Extends
  <1> DEFINE e == [type |-> type, position |-> p, delta |-> delta, after |-> after]
             n == Len(ledger[u])
  <1>1. /\ cash' = [cash EXCEPT ![u] = after]
        /\ ledger' = [ledger EXCEPT ![u] = Append(ledger[u], e)]
    BY DEF Book
  <1>2. /\ ledger \in [User -> Seq(Entry)]
        /\ cash \in [User -> Int]
        /\ \A v \in User : ledger[v] \in Seq(Entry) /\ Len(ledger[v]) \in Nat
    BY DEF BooksTypeOK
  <1>3. e.after = after
    OBVIOUS
  <1> HIDE DEF e
  <1>4. ASSUME NEW v \in User, v # u
        PROVE  cash'[v] = cash[v] /\ ledger'[v] = ledger[v]
    BY <1>1, <1>2, <1>4
  <1>5. /\ cash'[u] = after
        /\ ledger'[u] = Append(ledger[u], e)
    BY <1>1, <1>2
  <1>6. /\ Len(ledger'[u]) = n + 1
        /\ ledger'[u][n + 1] = e
        /\ \A i \in 1..n : ledger'[u][i] = ledger[u][i]
    BY <1>2, <1>5
  <1>7. CashIsLast'
    <2> SUFFICES ASSUME NEW v \in User
                 PROVE  cash'[v] = (IF Len(ledger'[v]) = 0 THEN StartingCash
                                    ELSE ledger'[v][Len(ledger'[v])].after)
      BY DEF CashIsLast, BalanceAfter
    <2>1. CASE v = u
      BY <1>2, <1>3, <1>5, <1>6, <2>1
    <2>2. CASE v # u
      BY <1>4, <2>2 DEF CashIsLast, BalanceAfter
    <2> QED BY <2>1, <2>2
  <1>8. Extends
    <2> SUFFICES ASSUME NEW v \in User, NEW i \in 0..Len(ledger[v])
                 PROVE  \E k \in 0..Len(ledger'[v]) :
                          (IF i = 0 THEN StartingCash ELSE ledger[v][i].after)
                            = (IF k = 0 THEN StartingCash ELSE ledger'[v][k].after)
      <3>1. ASSUME NEW w \in User, NEW b \in Balances(w) PROVE b \in Balances(w)'
        <4>1. PICK i \in 0..Len(ledger[w]) :
                b = IF i = 0 THEN StartingCash ELSE ledger[w][i].after
          BY <3>1 DEF Balances, BalanceAfter
        <4>2. \E k \in 0..Len(ledger'[w]) :
                b = IF k = 0 THEN StartingCash ELSE ledger'[w][k].after
          BY <4>1
        <4> QED BY <4>2 DEF Balances, BalanceAfter
      <3> QED BY <3>1 DEF Extends
    <2>1. CASE v = u
      <3>1. i \in 0..(n + 1) /\ (i = 0 \/ i \in 1..n)
        BY <1>2, <2>1
      <3> QED BY <1>6, <2>1, <3>1
    <2>2. CASE v # u
      BY <1>4, <2>2
    <2> QED BY <2>1, <2>2
  <1> QED BY <1>7, <1>8

LEMMA LooseExtends ==
  BooksTypeOK /\ CashIsLast /\ [LooseNext]_books => CashIsLast' /\ Extends
  <1> SUFFICES ASSUME BooksTypeOK, CashIsLast, [LooseNext]_books
               PROVE  CashIsLast' /\ Extends
    OBVIOUS
  <1>1. ASSUME NEW p \in Pid, NEW u \in User, NEW o \in Order, NEW m \in Price,
               NEW free \in Int, OpenFrom(p, u, o, m, free)
        PROVE  CashIsLast' /\ Extends
    BY <1>1, OpenEffect, BookExtends
  <1>2. ASSUME NEW p \in Pid, NEW m \in Price,
               NEW reason \in {"user", "liquidation"}, Close(p, m, reason)
        PROVE  CashIsLast' /\ Extends
    BY <1>2, CloseEffect, BookExtends
  <1>3. ASSUME NEW u \in User, NEW marks \in [OpenPids(u) -> Price], Reset(u, marks)
        PROVE  CashIsLast' /\ Extends
    BY <1>3, ResetEffect, BookExtends
  <1>4. CASE UNCHANGED books
    BY <1>4 DEF books, CashIsLast, Extends, Balances, BalanceAfter
  <1> QED BY <1>1, <1>2, <1>3, <1>4 DEF LooseNext

(* What an open holds: no balance yet, or one its account has had. *)
Opening == {"lookup", "price", "lock_user", "insert"}

HeldInv ==
  /\ CashIsLast
  /\ \A t \in Task, u \in User :
       pc[t] \in Opening /\ seen[t] # None /\ owner[t] = u => seen[t] \in Balances(u)

(* An account's latest balance is one of them. *)
LEMMA LatestHeld ==
  ASSUME BooksTypeOK, CashIsLast, NEW u \in User
  PROVE  cash[u] \in Balances(u)
  <1>1. Len(ledger[u]) \in 0..Len(ledger[u])
    BY DEF BooksTypeOK
  <1> QED BY <1>1 DEF CashIsLast, Balances

(* Every step of a task is good for it, and leaves the books alone or is   *)
(* one of the three commits.                                               *)
LEMMA StepGood ==
  ASSUME Inv, NEW t \in Task, Arrive(t) \/ Proceed(t) \/ Fail(t)
  PROVE  Good(t) /\ (CommitStep(t) \/ UNCHANGED books)
  BY ArriveGood, OpenGood, CloseGood, ResetGood, CommitGood DEF Proceed, CommitStep

(* A task that opens after a step was opening before it with the balance   *)
(* it has now, or has just read the latest.                                *)
LEMMA HeldOrRead ==
  ASSUME Inv, NEW t \in Task, Arrive(t) \/ Proceed(t) \/ Fail(t),
         pc'[t] \in Opening, seen'[t] # None
  PROVE  \/ pc[t] \in Opening /\ seen'[t] = seen[t] /\ owner'[t] = owner[t]
         \/ /\ owner'[t] \in User
            /\ seen'[t] = cash[owner'[t]]
            /\ UNCHANGED books
  <1> USE DEF Inv, TypeOK, BooksTypeOK, Goto, Finish, Opening
  <1>1. CASE OpenRequest(t)
    BY <1>1 DEF OpenRequest
  <1>2. CASE OpenLockUser(t)
    BY <1>2 DEF OpenLockUser, TaskInv
  <1>3. CASE OpenLookup(t) \/ OpenPrice(t)
    BY <1>3 DEF OpenLookup, OpenPrice
  <1>4. CASE CloseRequest(t) \/ LiquidationRequest(t) \/ ResetCheck(t)
    BY <1>4 DEF CloseRequest, LiquidationRequest, ResetCheck
  <1>5. CASE OpenReject(t) \/ OpenConflict(t) \/ OpenCommit(t) \/ IndexAdd(t) \/ Fail(t)
    BY <1>5 DEF OpenReject, OpenConflict, OpenCommit, IndexAdd, Fail
  <1>6. CASE CloseMark(t) \/ CloseLockUser(t) \/ CloseLockPosition(t)
             \/ AlreadyClosed(t) \/ CloseCommit(t)
    BY <1>6 DEF CloseMark, CloseLockUser, CloseLockPosition, AlreadyClosed, CloseCommit
  <1>7. CASE IndexRemove(t)
    BY <1>7 DEF IndexRemove
  <1>8. CASE ResetGate(t) \/ ResetLockUser(t) \/ ResetLockPositions(t)
             \/ ResetDefer(t) \/ ResetCommit(t)
    BY <1>8 DEF ResetGate, ResetLockUser, ResetLockPositions, ResetDefer, ResetCommit
  <1> QED BY <1>1, <1>2, <1>3, <1>4, <1>5, <1>6, <1>7, <1>8 DEF Arrive, Proceed

LEMMA HeldNext == Inv /\ HeldInv /\ [Next]_vars => HeldInv'
  <1> SUFFICES ASSUME Inv, HeldInv, [Next]_vars PROVE HeldInv'
    OBVIOUS
  <1>0. BooksTypeOK /\ [LooseNext]_books
    BY InvNext DEF Inv, TypeOK
  <1>1. CashIsLast' /\ Extends
    BY <1>0, LooseExtends DEF HeldInv
  <1>2. ASSUME NEW t \in Task, NEW u \in User, pc'[t] \in Opening, seen'[t] # None,
               owner'[t] = u
        PROVE  seen'[t] \in Balances(u)'
    <2>1. CASE pc[t] \in Opening /\ seen'[t] = seen[t] /\ owner'[t] = owner[t]
      <3>1. seen[t] \in Balances(u)
        BY <1>2, <2>1 DEF HeldInv
      <3> QED BY <1>1, <2>1, <3>1 DEF Extends
    <2>2. CASE seen'[t] = cash[u]
      <3>1. cash[u] \in Balances(u)
        BY <1>0, LatestHeld DEF HeldInv
      <3> QED BY <1>1, <2>2, <3>1 DEF Extends
    <2>3. CASE UNCHANGED vars
      BY <1>2, <2>1, <2>3 DEF vars
    <2>4. ASSUME NEW s \in Task, Arrive(s) \/ Proceed(s) \/ Fail(s)
          PROVE  seen'[t] \in Balances(u)'
      <3>1. CASE s = t
        BY <1>2, <2>1, <2>2, <2>4, <3>1, HeldOrRead
      <3>2. CASE s # t
        <4>1. SameTask(t)
          BY <2>4, <3>2, StepGood DEF Good, OthersWait
        <4> QED BY <1>2, <2>1, <4>1 DEF SameTask
      <3> QED BY <3>1, <3>2
    <2> QED BY <2>3, <2>4 DEF Next, Quiet
  <1> QED BY <1>1, <1>2 DEF HeldInv

LEMMA HeldAlways == Spec => []HeldInv
  <1>1. TradingInit => HeldInv
    <2> SUFFICES ASSUME TradingInit PROVE HeldInv
      OBVIOUS
    <2>1. CashIsLast
      BY DEF TradingInit, AccountInit, CashIsLast, BalanceAfter
    <2>2. \A t \in Task : seen[t] = None
      BY DEF TradingInit
    <2> QED BY <2>1, <2>2 DEF HeldInv
  <1> QED BY <1>1, HeldNext, InvAlways, PTL DEF Spec

(* A commit is a transaction of the account in which an open computes from *)
(* a balance the account has had, the latest if its session was empty.     *)
LEMMA CommitServes ==
  ASSUME Inv, HeldInv, NEW t \in Task, CommitStep(t)
  PROVE  ServiceNext
  <1>1. CASE OpenCommit(t)
    <2>1. PICK p \in Pid, o \in Order, m \in Price :
            /\ seen[t] \in Int
            /\ ~AuthLoadsUser => seen[t] = cash[owner[t]]
            /\ OpenFrom(p, owner[t], o, m, seen[t])
      BY <1>1, OpenCommits
    <2>2. PICK u \in User : owner[t] = u
      BY <1>1, OpenCommits
    <2>3. pc[t] \in Opening /\ seen[t] # None
      BY <1>1, <2>1, AccountAssumption DEF OpenCommit, Opening
    <2>4. PICK i \in 0..Len(ledger[u]) :
            /\ AuthLoadsUser \/ i = Len(ledger[u])
            /\ seen[t] = BalanceAfter(u, i)
      <3>1. CASE AuthLoadsUser
        BY <2>2, <2>3, <3>1 DEF HeldInv, Balances
      <3>2. CASE ~AuthLoadsUser
        <4>1. Len(ledger[u]) \in 0..Len(ledger[u])
          BY DEF Inv, TypeOK, BooksTypeOK
        <4> QED BY <2>1, <2>2, <3>2, <4>1 DEF HeldInv, CashIsLast
      <3> QED BY <3>1, <3>2
    <2> QED BY <2>1, <2>2, <2>4 DEF ServiceNext
  <1>2. CASE CloseCommit(t)
    BY <1>2, CloseCommits DEF ServiceNext
  <1>3. CASE ResetCommit(t)
    BY <1>3, ResetCommits DEF ServiceNext
  <1> QED BY <1>1, <1>2, <1>3 DEF CommitStep

LEMMA ServiceStep == Inv /\ HeldInv /\ [Next]_vars => [ServiceNext]_books
  <1> SUFFICES ASSUME Inv, HeldInv, [Next]_vars PROVE [ServiceNext]_books
    OBVIOUS
  <1>1. CASE UNCHANGED vars
    BY <1>1 DEF vars, books
  <1>2. ASSUME NEW t \in Task, Arrive(t) \/ Proceed(t) \/ Fail(t)
        PROVE  [ServiceNext]_books
    BY <1>2, StepGood, CommitServes
  <1> QED BY <1>1, <1>2 DEF Next, Quiet

(* The tasks of open_position, close_position and                          *)
(* maybe_reset_bankrupt_account run as whole transactions of the account,  *)
(* in the deployed setting too: SELECT ... FOR UPDATE, user first, makes   *)
(* closes and resets atomic, and leaves of an open's atomicity all but the *)
(* moment of its balance.  Without a loaded session ServiceSpec is         *)
(* AccountSpec.                                                            *)
THEOREM TasksServeAccount == Spec => ServiceSpec
  <1>1. TradingInit => AccountInit
    BY DEF TradingInit
  <1> QED BY <1>1, ServiceStep, InvAlways, HeldAlways, PTL DEF Spec, ServiceSpec

-----------------------------------------------------------------------------
(* What the ledger says then.  A booking that starts from an earlier       *)
(* balance, the latest unless it is an open's, is traceable.               *)
LEMMA BookTraceable ==
  ASSUME BooksTypeOK, LedgerTraceable, NEW u \in User, NEW type, NEW p,
         NEW delta \in Int, NEW after \in Int, NEW k \in 0..Len(ledger[u]),
         k = Len(ledger[u]) \/ (AuthLoadsUser /\ type = "position_open"),
         after = BalanceAfter(u, k) + delta,
         Book(u, type, p, delta, after)
  PROVE  LedgerTraceable'
  <1> DEFINE e == [type |-> type, position |-> p, delta |-> delta, after |-> after]
             n == Len(ledger[u])
             At(l, i) == IF i = 0 THEN StartingCash ELSE l[i].after
             Traced(l, i) == \E j \in 0..i - 1 :
                               /\ j = i - 1 \/ (AuthLoadsUser /\ l[i].type = "position_open")
                               /\ At(l, i) = At(l, j) + l[i].delta
  <1>0. LedgerTraceable <=> \A v \in User : /\ cash[v] = At(ledger[v], Len(ledger[v]))
                                             /\ \A i \in 1..Len(ledger[v]) : Traced(ledger[v], i)
    BY DEF LedgerTraceable, BalanceAfter
  <1>1. /\ cash' = [cash EXCEPT ![u] = after]
        /\ ledger' = [ledger EXCEPT ![u] = Append(ledger[u], e)]
    BY DEF Book
  <1>2. /\ ledger \in [User -> Seq(Entry)]
        /\ cash \in [User -> Int]
        /\ ledger[u] \in Seq(Entry)
        /\ n \in Nat
    BY DEF BooksTypeOK
  <1>3. ASSUME NEW v \in User
        PROVE  /\ cash'[v] = At(ledger'[v], Len(ledger'[v]))
               /\ \A i \in 1..Len(ledger'[v]) : Traced(ledger'[v], i)
    <2>1. CASE v # u
      <3>1. cash'[v] = cash[v] /\ ledger'[v] = ledger[v]
        BY <1>1, <1>2, <2>1
      <3> HIDE DEF Traced, At
      <3> QED BY <1>0, <3>1
    <2>2. CASE v = u
      <3> DEFINE s == ledger[u]
                 t == ledger'[u]
      <3>1. cash'[u] = after /\ t = Append(s, e)
        BY <1>1, <1>2
      <3>2. /\ Len(t) = n + 1
            /\ t[n + 1] = e
            /\ \A i \in 1..n : t[i] = s[i]
        BY <1>2, <3>1
      <3>3. e.after = after /\ e.delta = delta /\ e.type = type
        OBVIOUS
      <3>4. after = At(s, k) + delta
        BY DEF BalanceAfter
      <3>5. \A i \in 1..n : Traced(s, i)
        BY <1>0
      <3> HIDE DEF e, s, t
      <3>6. \A i \in 0..n : At(t, i) = At(s, i)
        BY <1>2, <3>2
      <3>7. At(t, n + 1) = after
        BY <1>2, <3>2, <3>3
      <3>8. ASSUME NEW i \in 1..(n + 1) PROVE Traced(t, i)
        <4>1. CASE i = n + 1
          <5>1. k \in 0..i - 1 /\ At(t, i) = At(t, k) + t[i].delta
            BY <1>2, <3>2, <3>3, <3>4, <3>6, <3>7, <4>1
          <5>2. k = i - 1 \/ (AuthLoadsUser /\ t[i].type = "position_open")
            BY <1>2, <3>2, <3>3, <4>1
          <5> QED BY <5>1, <5>2
        <4>2. CASE i # n + 1
          <5>1. i \in 1..n
            BY <1>2, <4>2
          <5>2. t[i] = s[i] /\ At(t, i) = At(s, i)
            BY <1>2, <3>2, <3>6, <5>1
          <5>3. PICK j \in 0..i - 1 :
                  /\ j = i - 1 \/ (AuthLoadsUser /\ s[i].type = "position_open")
                  /\ At(s, i) = At(s, j) + s[i].delta
            BY <3>5, <5>1
          <5>4. j \in 0..n
            BY <1>2, <5>1
          <5>5. At(t, j) = At(s, j)
            BY <3>6, <5>4
          <5> HIDE DEF At
          <5> QED BY <5>2, <5>3, <5>5
        <4> QED BY <4>1, <4>2
      <3> HIDE DEF At, Traced
      <3> QED BY <2>2, <3>1, <3>2, <3>7, <3>8 DEF t
    <2> QED BY <2>1, <2>2
  <1> QED BY <1>3 DEF LedgerTraceable, BalanceAfter

LEMMA TraceableNext ==
  BooksTypeOK /\ LedgerTraceable /\ [ServiceNext]_books => LedgerTraceable'
  <1> SUFFICES ASSUME BooksTypeOK, LedgerTraceable, [ServiceNext]_books
               PROVE  LedgerTraceable'
    OBVIOUS
  <1>0. \A u \in User : /\ cash[u] \in Int
                         /\ Len(ledger[u]) \in 0..Len(ledger[u])
                         /\ cash[u] = BalanceAfter(u, Len(ledger[u]))
    BY DEF BooksTypeOK, LedgerTraceable
  <1>1. ASSUME NEW p \in Pid, NEW u \in User, NEW o \in Order, NEW m \in Price,
               NEW i \in 0..Len(ledger[u]), AuthLoadsUser \/ i = Len(ledger[u]),
               OpenFrom(p, u, o, m, BalanceAfter(u, i))
        PROVE  LedgerTraceable'
    <2> DEFINE d == Debit(OpenRow(u, o, m))
               b == BalanceAfter(u, i)
    <2>1. b \in Int
      <3>1. \A j \in 1..Len(ledger[u]) : ledger[u][j].after \in Int
        <4>1. \A j \in 1..Len(ledger[u]) : ledger[u][j] \in Entry
          BY DEF BooksTypeOK
        <4> QED BY <4>1 DEF Entry
      <3>2. StartingCash \in Int
        BY AccountAssumption
      <3>3. i = 0 \/ i \in 1..Len(ledger[u])
        OBVIOUS
      <3> QED BY <3>1, <3>2, <3>3 DEF BalanceAfter
    <2> HIDE DEF b
    <2>2. d \in Nat /\ Book(u, "position_open", p, -d, b - d)
      BY <1>1, <2>1, OpenEffect DEF b
    <2> HIDE DEF d
    <2>3. -d \in Int /\ b - d \in Int /\ b - d = BalanceAfter(u, i) + (-d)
      BY <2>1, <2>2 DEF b
    <2> QED BY <1>1, <2>2, <2>3, BookTraceable
  <1>2. ASSUME NEW p \in Pid, NEW m \in Price,
               NEW reason \in {"user", "liquidation"}, Close(p, m, reason)
        PROVE  LedgerTraceable'
    <2> DEFINE u    == pos[p].user
               back == Back(pos[p], m)
               type == IF reason = "liquidation" THEN "liquidation"
                                                 ELSE "position_close"
    <2>1. /\ u \in User
          /\ back \in Nat
          /\ Book(u, type, p, back, cash[u] + back)
      BY <1>2, CloseEffect
    <2> HIDE DEF u, back, type
    <2>2. back \in Int /\ cash[u] + back \in Int
      BY <1>0, <2>1
    <2> QED BY <1>0, <2>1, <2>2, BookTraceable
  <1>3. ASSUME NEW u \in User, NEW marks \in [OpenPids(u) -> Price], Reset(u, marks)
        PROVE  LedgerTraceable'
    <2>1. Book(u, "bankruptcy_reset", None, StartingCash - cash[u], StartingCash)
      BY <1>3, ResetEffect
    <2>2. /\ StartingCash - cash[u] \in Int
          /\ StartingCash \in Int
          /\ StartingCash = cash[u] + (StartingCash - cash[u])
      BY <1>0, AccountAssumption
    <2> QED BY <1>0, <2>1, <2>2, BookTraceable
  <1>4. CASE UNCHANGED books
    BY <1>4 DEF books, LedgerTraceable, BalanceAfter
  <1> QED BY <1>1, <1>2, <1>3, <1>4 DEF ServiceNext

(* SPEC.md invariant 5 of the deployed service: settle_position and the    *)
(* reset book from the balance in the table, open_position from one the    *)
(* account has had; no other movement of cash is lost or made up.          *)
THEOREM TradingLedger == Spec => []LedgerTraceable
  <1>1. TradingInit => LedgerTraceable
    BY DEF TradingInit, AccountInit, LedgerTraceable, BalanceAfter
  <1>2. Inv => BooksTypeOK
    BY DEF Inv, TypeOK
  <1> QED BY <1>1, <1>2, TraceableNext, ServiceStep, InvAlways, HeldAlways, PTL DEF Spec

-----------------------------------------------------------------------------
(* What opens at an old balance do not spoil.                              *)

(* SPEC.md invariant 1: free cash is never negative, even when             *)
(* open_position debits a balance it read before its lock.                 *)
THEOREM TradingFreeCash == Spec => []FreeCashNonNegative
  <1>1. TradingInit => FreeCashNonNegative
    BY AccountAssumption DEF TradingInit, AccountInit, FreeCashNonNegative
  <1>2. Inv => BooksTypeOK
    BY DEF Inv, TypeOK
  <1> QED BY <1>1, <1>2, InvAlways, InvNext, FreeCashNext, PTL DEF Spec

(* SPEC.md invariant 7 and "one position per pair": concurrent and retried *)
(* open_position calls never leave two rows with one key, or two open ones *)
(* on one pair.                                                            *)
THEOREM TradingNoDoubleOpen == Spec => []NoDoubleOpen
  <1>1. TradingInit => NoDoubleOpen
    BY DEF TradingInit, AccountInit, NoDoubleOpen
  <1>2. Inv => BooksTypeOK
    BY DEF Inv, TypeOK
  <1> QED BY <1>1, <1>2, InvAlways, InvNext, NoDoubleNext, PTL DEF Spec

(* SPEC.md invariant 3: of any racing closes, liquidations and resets one  *)
(* closes the row, and nothing writes it afterwards.                       *)
THEOREM TradingClosesOnce == Spec => ClosesOnce
  <1>1. Inv /\ [Next]_vars =>
          [\A p \in Pid :
             pos'[p] # pos[p] =>
               \/ pos[p] = None /\ pos'[p].status = "open"
               \/ IsOpen(p) /\ \E m \in Price, reason \in Reason :
                                 pos'[p] = ClosedRow(pos[p], m, reason)]_books
    <2>1. Inv => BooksTypeOK
      BY DEF Inv, TypeOK
    <2> QED BY <2>1, InvNext, CloseStepNext DEF CloseStep
  <1> QED BY <1>1, InvAlways, PTL DEF Spec, ClosesOnce

(* SPEC.md invariant 12: maybe_reset_bankrupt_account leaves the starting  *)
(* cash and no open position, whatever was opened while it decided.        *)
THEOREM TradingResets == Spec => ResetIsTotal
  <1>1. Inv /\ [Next]_vars =>
          [\A u \in User :
             /\ Len(ledger'[u]) > Len(ledger[u])
             /\ ledger'[u][Len(ledger'[u])].type = "bankruptcy_reset"
             => cash'[u] = StartingCash /\ OpenPids(u)' = {}]_books
    <2>1. Inv => BooksTypeOK
      BY DEF Inv, TypeOK
    <2> QED BY <2>1, InvNext, TotalResetNext DEF TotalReset
  <1> QED BY <1>1, InvAlways, PTL DEF Spec, ResetIsTotal

(* SPEC.md invariants 3, 5 and 12: each position is paid for once, and     *)
(* settled to cash once if close_position closed it, never otherwise.      *)
THEOREM TradingBookedOnce == Spec => []BookedOnce
  <1>1. TradingInit => BookedOnce /\ ReasonMatchesStatus
    BY DEF TradingInit, AccountInit, BookedOnce, EntriesOf, ReasonMatchesStatus
  <1>2. Inv => BooksTypeOK
    BY DEF Inv, TypeOK
  <1> QED BY <1>1, <1>2, InvAlways, InvNext, BookedNext, ReasonNext, PTL DEF Spec

-----------------------------------------------------------------------------
(* The index.  A task about to remove positions from it has closed them,   *)
(* and rows do not open again.                                             *)
Removes ==
  \A t \in Task : pc[t] = "index_remove" =>
    \A p \in target[t] : pos[p] # None /\ pos[p].status # "open"

(* Rows that are closed stay closed. *)
LEMMA ClosedStays ==
  ASSUME BooksTypeOK, [LooseNext]_books, NEW p \in Pid,
         pos[p] # None, pos[p].status # "open"
  PROVE  pos'[p] # None /\ pos'[p].status # "open"
  BY RowStep DEF IsOpen

(* Whoever removes after a commit removes what that commit closed.         *)
LEMMA CommitCloses ==
  ASSUME Inv, NEW t \in Task, CommitStep(t), pc'[t] = "index_remove"
  PROVE  \A p \in target'[t] : pos'[p] # None /\ pos'[p].status # "open"
  <1>0. BooksTypeOK
    BY DEF Inv, TypeOK
  <1>1. CASE OpenCommit(t)
    BY <1>1 DEF OpenCommit, Goto, Inv, TypeOK
  <1>2. CASE CloseCommit(t)
    <2>1. PICK p \in target[t] : IsOpen(p) /\ RecordClose(p, mark[t], op[t], seen[t])
      BY <1>2 DEF CloseCommit
    <2>2. /\ pc[t] = "settle"
          /\ pc'[t] = "index_remove"
          /\ target'[t] = target[t]
      BY <1>2 DEF CloseCommit, Goto, Inv, TypeOK
    <2>3. /\ \A q \in target[t] : q = p
          /\ p \in Pid
          /\ mark[t] \in Price
          /\ op[t] \in Reason
      BY <2>1, <2>2 DEF Inv, TypeOK, TaskInv, ClosePc, Reason
    <2>4. pos[p] \in Row /\ pos' = [pos EXCEPT ![p] = ClosedRow(pos[p], mark[t], op[t])]
      BY <1>0, <2>1, <2>3 DEF IsOpen, BooksTypeOK, RecordClose
    <2>5. pos'[p] = ClosedRow(pos[p], mark[t], op[t])
      BY <1>0, <2>3, <2>4 DEF BooksTypeOK
    <2>6. pos'[p] # None /\ pos'[p].status # "open"
      BY <2>3, <2>4, <2>5, ClosedRowFields
    <2> QED BY <2>2, <2>3, <2>6
  <1>3. CASE ResetCommit(t)
    <2>1. /\ pc[t] = "decide"
          /\ pc'[t] = "index_remove"
          /\ target'[t] = target[t]
      BY <1>3 DEF ResetCommit, Goto, Inv, TypeOK
    <2>2. target[t] = OpenPids(owner[t])
      BY <2>1 DEF Inv, TaskInv
    <2>3. PICK marks \in [OpenPids(owner[t]) -> Price] : Reset(owner[t], marks)
      BY <1>3, ResetCommits
    <2>4. owner[t] \in User
      BY <1>3, ResetCommits
    <2>5. \A p \in OpenPids(owner[t]) :
            /\ pos'[p] = ClosedRow(pos[p], marks[p], "bankruptcy")
            /\ pos[p] \in Row
            /\ marks[p] \in Price
      BY <1>0, <2>3, <2>4, ResetEffect DEF OpenPids
    <2>6. \A p \in OpenPids(owner[t]) : pos'[p] # None /\ pos'[p].status # "open"
      BY <2>5, ClosedRowFields DEF Reason
    <2> QED BY <2>1, <2>2, <2>6
  <1> QED BY <1>1, <1>2, <1>3 DEF CommitStep

(* A task that has nothing to remove yet, or removes on.                   *)
LEMMA RemovesOn ==
  ASSUME Inv, NEW t \in Task, Arrive(t) \/ Proceed(t) \/ Fail(t), ~CommitStep(t),
         pc'[t] = "index_remove"
  PROVE  pc[t] = "index_remove" /\ target'[t] \subseteq target[t]
  <1> USE DEF Inv, TypeOK, Goto, Finish
  <1>1. CASE Arrive(t)
    BY <1>1 DEF Arrive, OpenRequest, CloseRequest, LiquidationRequest, ResetCheck
  <1>2. CASE OpenLookup(t) \/ OpenPrice(t) \/ OpenLockUser(t) \/ OpenReject(t)
             \/ OpenConflict(t) \/ IndexAdd(t) \/ Fail(t)
    BY <1>2 DEF OpenLookup, OpenPrice, OpenLockUser, OpenReject, OpenConflict, IndexAdd, Fail
  <1>3. CASE CloseMark(t) \/ CloseLockUser(t) \/ CloseLockPosition(t) \/ AlreadyClosed(t)
    BY <1>3 DEF CloseMark, CloseLockUser, CloseLockPosition, AlreadyClosed
  <1>4. CASE ResetGate(t) \/ ResetLockUser(t) \/ ResetLockPositions(t) \/ ResetDefer(t)
    BY <1>4 DEF ResetGate, ResetLockUser, ResetLockPositions, ResetDefer
  <1>5. CASE IndexRemove(t)
    BY <1>5 DEF IndexRemove
  <1> QED BY <1>1, <1>2, <1>3, <1>4, <1>5 DEF Proceed, CommitStep

LEMMA RemovesNext == Inv /\ Removes /\ [Next]_vars => Removes'
  <1> SUFFICES ASSUME Inv, Removes, [Next]_vars PROVE Removes'
    OBVIOUS
  <1>0. BooksTypeOK /\ [LooseNext]_books
    BY InvNext DEF Inv, TypeOK
  <1>1. ASSUME NEW s \in Task, pc[s] = "index_remove", target'[s] \subseteq target[s],
               NEW p \in target'[s]
        PROVE  pos'[p] # None /\ pos'[p].status # "open"
    <2>1. p \in Pid /\ pos[p] # None /\ pos[p].status # "open"
      BY <1>1 DEF Removes, Inv, TypeOK
    <2> QED BY <1>0, <2>1, ClosedStays
  <1>2. CASE UNCHANGED vars
    BY <1>2 DEF Removes, vars
  <1>3. ASSUME NEW t \in Task, Arrive(t) \/ Proceed(t) \/ Fail(t),
               NEW s \in Task, pc'[s] = "index_remove", NEW p \in target'[s]
        PROVE  pos'[p] # None /\ pos'[p].status # "open"
    <2>1. CASE s # t
      <3>1. SameTask(s)
        BY <1>3, <2>1, StepGood DEF Good, OthersWait
      <3> QED BY <1>1, <1>3, <3>1 DEF SameTask
    <2>2. CASE s = t /\ CommitStep(t)
      BY <1>3, <2>2, CommitCloses
    <2>3. CASE s = t /\ ~CommitStep(t)
      BY <1>1, <1>3, <2>3, RemovesOn
    <2> QED BY <2>1, <2>2, <2>3
  <1> QED BY <1>2, <1>3 DEF Next, Quiet, Removes

(* Only a task that removes takes anything out of the index.               *)
LEMMA IndexShrinks ==
  ASSUME Inv, NEW t \in Task, Arrive(t) \/ Proceed(t) \/ Fail(t),
         NEW p \in Pid, p \in index, p \notin index'
  PROVE  pc[t] = "index_remove" /\ p \in target[t] /\ UNCHANGED books
  <1>1. CASE IndexRemove(t)
    BY <1>1 DEF IndexRemove
  <1>2. CASE IndexAdd(t)
    BY <1>2 DEF IndexAdd
  <1>3. CASE ~IndexRemove(t) /\ ~IndexAdd(t)
    BY <1>3 DEF Arrive, Proceed, OpenRequest, CloseRequest, LiquidationRequest,
                ResetCheck, OpenLookup, OpenPrice, OpenLockUser, OpenReject,
                OpenConflict, OpenCommit, CloseMark, CloseLockUser,
                CloseLockPosition, AlreadyClosed, CloseCommit, ResetGate,
                ResetLockUser, ResetLockPositions, ResetDefer, ResetCommit, Fail
  <1> QED BY <1>1, <1>2, <1>3

(* remove_open_position after a close or a reset never takes an open       *)
(* position out of the liquidation engine's sight, however late it runs.   *)
THEOREM TradingIndexed == Spec => OpenStaysIndexed
  <1>1. TradingInit => Removes
    BY DEF TradingInit, Removes
  <1>2. Inv /\ Removes /\ [Next]_vars =>
          [\A p \in Pid : p \in index /\ p \notin index' => ~IsOpen(p)']_vars
    <2> SUFFICES ASSUME Inv, Removes, Next, NEW p \in Pid, p \in index, p \notin index'
                 PROVE  ~IsOpen(p)'
      OBVIOUS
    <2>1. PICK t \in Task : Arrive(t) \/ Proceed(t) \/ Fail(t)
      BY DEF Next, Quiet, vars
    <2>2. pc[t] = "index_remove" /\ p \in target[t] /\ UNCHANGED books
      BY <2>1, IndexShrinks
    <2> QED BY <2>2 DEF Removes, IsOpen, books
  <1> QED BY <1>1, <1>2, InvAlways, RemovesNext, PTL DEF Spec, OpenStaysIndexed

-----------------------------------------------------------------------------
(* Waiting for locks.                                                      *)

(* Task t asks for a row that s holds: the users row of its account, the   *)
(* position it closes, or an open position of the account it resets.       *)
WaitsFor(t, s) ==
  \/ /\ pc[t] \in {"lock_user", "close_lock_user", "reset_lock_user"}
     /\ HoldsUserRow(s) /\ owner[s] = owner[t]
  \/ /\ pc[t] = "close_lock_position"
     /\ \E p \in target[t] : HoldsPositionRow(s, p)
  \/ /\ pc[t] = "reset_lock_positions"
     /\ \E p \in OpenPids(owner[t]) : HoldsPositionRow(s, p)

(* Whoever is waited for waits for nobody.                                 *)
NoWaitsInChain == \A t, s \in Task : WaitsFor(t, s) => \A q \in Task : ~WaitsFor(s, q)

(* close_position and maybe_reset_bankrupt_account lock a position only    *)
(* with its owner's users row in hand, and open_position none: nobody ever *)
(* waits for a position, and who holds a users row runs on to its commit.  *)
(* There is no deadlock, with any number of tasks, accounts and positions. *)
THEOREM TradingDeadlockFree == Spec => []NoWaitsInChain
  <1>1. Inv => NoWaitsInChain
    <2> SUFFICES ASSUME Inv, NEW t \in Task, NEW s \in Task, WaitsFor(t, s),
                        NEW q \in Task, WaitsFor(s, q)
                 PROVE  FALSE
      BY DEF NoWaitsInChain
    <2>1. \A r \in Task, p \in Pid :
            HoldsPositionRow(r, p) => /\ HoldsUserRow(r) /\ pc[r] \in {"settle", "decide"}
                                      /\ pos[p] # None /\ pos[p].user = owner[r]
      <3> SUFFICES ASSUME NEW r \in Task, NEW p \in Pid, HoldsPositionRow(r, p)
                   PROVE  /\ HoldsUserRow(r) /\ pc[r] \in {"settle", "decide"}
                          /\ pos[p] # None /\ pos[p].user = owner[r]
        OBVIOUS
      <3>1. pc[r] \in {"settle", "decide"} /\ p \in target[r] /\ HoldsUserRow(r)
        BY DEF HoldsPositionRow, HoldsUserRow
      <3>2. CASE pc[r] = "settle"
        BY <3>1, <3>2 DEF Inv, TaskInv, ClosePc
      <3>3. CASE pc[r] = "decide"
        BY <3>1, <3>3 DEF Inv, TaskInv, OpenPids, IsOpen
      <3> QED BY <3>1, <3>2, <3>3
    <2>2. ASSUME NEW r \in Task, NEW h \in Task, WaitsFor(r, h)
          PROVE  ~HoldsUserRow(r) /\ HoldsUserRow(h)
      <3>1. CASE /\ pc[r] \in {"lock_user", "close_lock_user", "reset_lock_user"}
                 /\ HoldsUserRow(h)
        BY <3>1 DEF HoldsUserRow
      <3>2. ASSUME NEW p \in Pid, HoldsPositionRow(h, p), pos[p].user = owner[r],
                   pc[r] \in {"close_lock_position", "reset_lock_positions"}
            PROVE  FALSE
        <4>1. HoldsUserRow(r) /\ HoldsUserRow(h) /\ owner[h] = owner[r]
          BY <2>1, <3>2 DEF HoldsUserRow
        <4>2. r = h
          BY <4>1 DEF Inv, Exclusive
        <4> QED BY <2>1, <3>2, <4>2
      <3>3. ASSUME pc[r] = "close_lock_position", NEW p \in target[r]
            PROVE  p \in Pid /\ pos[p].user = owner[r]
        BY <3>3 DEF Inv, TypeOK, TaskInv, ClosePc
      <3>4. \A p \in OpenPids(owner[r]) : p \in Pid /\ pos[p].user = owner[r]
        BY DEF OpenPids
      <3> QED BY <2>2, <3>1, <3>2, <3>3, <3>4 DEF WaitsFor
    <2>3. HoldsUserRow(s) /\ ~HoldsUserRow(s)
      BY <2>2
    <2> QED BY <2>3
  <1> QED BY <1>1, InvAlways, PTL
=============================================================================
