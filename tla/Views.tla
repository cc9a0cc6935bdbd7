--------------------------------- MODULE Views ---------------------------------
(***************************************************************************)
(* What is shown of the accounts: the leaderboard in Redis and the account *)
(* view of each /ws client.  Neither is computed where an account changes; *)
(* tasks read it piece by piece and deliver what they made of it later:    *)
(*                                                                         *)
(*   tick     (targets -> take) -> value -> send -> score (-> check)       *)
(*   request                       value -> send -> score (-> check)       *)
(*   connect  register          -> value -> send          (-> check)       *)
(*   rebuild  users -> value of each user -> delete -> zadd                *)
(*                                                                         *)
(* The cash is the User row a session loaded before; the positions and     *)
(* their price are read at `value`.  A reset starts a task over at value.  *)
(* Accounts change by whole transactions (module Account), with one pair,  *)
(* one position and one socket to a user, a unit of cash to a position,    *)
(* and a position liquidated when its price is 0.                          *)
(***************************************************************************)
EXTENDS Integers, FiniteSets

CONSTANTS
  User,
  Start,       \* starting_cash_balance
  Price,       \* what the position can be worth
  MaxChanges,  \* bound: opens, closes and price moves
  MaxFaults,   \* bound: failures of Redis, of the provider and of tasks
  None

ASSUME ViewsAssumption ==
  /\ Start \in Nat \ {0} /\ Price \subseteq Nat
  /\ MaxChanges \in Nat /\ MaxFaults \in Nat
  /\ None \notin Int

VARIABLES
  account,   \* users: cash, and whether the position is open
  price,     \* the latest of the stream
  verified,  \* users with email_verified_at
  board,     \* leaderboard:equity, None for no member
  socket,    \* users in ws_manager
  view,      \* the account_update last shown over it
  task,      \* tick, request and connect: where each stands and its locals
  rebuild,   \* the same of rebuild
  changes, faults

vars == <<account, price, verified, board, socket, view, task, rebuild, changes, faults>>

Task == {"tick", "request", "connect"}
Idle == [pc |-> "idle", on |-> "none", user |-> None, cash |-> 0, equity |-> 0, left |-> {}]
Resting == [pc |-> "idle", left |-> {}, cash |-> [u \in User |-> 0],
            scores |-> [u \in User |-> None]]

Worth(u, p) == IF account[u].open THEN p ELSE 0
Equity(u, p) == account[u].cash + Worth(u, p)

Init ==
  /\ account = [u \in User |-> [cash |-> Start, open |-> FALSE]]
  /\ price \in Price \ {0}
  /\ verified = {}
  /\ board = [u \in User |-> None]
  /\ socket = {} /\ view = [u \in User |-> None]
  /\ task = [w \in Task |-> Idle]
  /\ rebuild = Resting
  /\ changes = 0 /\ faults = 0

Change == changes < MaxChanges /\ changes' = changes + 1
Fault == faults < MaxFaults /\ faults' = faults + 1
Run(w, local) == task' = [task EXCEPT ![w] = local]
Goto(w, pc) == Run(w, [task[w] EXCEPT !.pc = pc])

-----------------------------------------------------------------------------
(* Prices.                                                                 *)

(* What a fetch may find in Redis: the latest price, or an older one that  *)
(* a fetch which began before the last tick has put back; or no price, and *)
(* then a valuation counts a position as its collateral.                   *)
Found == Price \cup {1}
Priced(u, p) == IF Worth(u, p) = Worth(u, price) THEN UNCHANGED faults ELSE Fault

-----------------------------------------------------------------------------
(* Transactions, and the task each sets off.                               *)

Request(u, on, cash) ==
  /\ task["request"].pc = "idle"
  /\ Run("request", [Idle EXCEPT !.pc = "value", !.on = on, !.user = u, !.cash = cash])

(* confirm_verification: the token is redeemed, then the board seeded. *)
Verify(u) ==
  /\ u \notin verified
  /\ verified' = verified \cup {u}
  /\ Request(u, "confirm", account[u].cash)
  /\ UNCHANGED <<account, price, board, socket, view, rebuild, changes, faults>>

(* Slip: without the 403 for an unverified e-mail. *)
OpenUnverified(u) ==
  /\ Change
  /\ ~account[u].open /\ account[u].cash > 0
  /\ account' = [account EXCEPT ![u] = [cash |-> @.cash - 1, open |-> TRUE]]
  /\ Request(u, "open", account[u].cash - 1)
  /\ UNCHANGED <<price, verified, board, socket, view, rebuild, faults>>

Open(u) ==
  /\ Change
  /\ u \in verified /\ ~account[u].open /\ account[u].cash > 0
  /\ account' = [account EXCEPT ![u] = [cash |-> @.cash - 1, open |-> TRUE]]
  /\ Request(u, "open", account[u].cash - 1)
  /\ UNCHANGED <<price, verified, board, socket, view, rebuild, faults>>

Close(u) ==
  /\ Change
  /\ account[u].open
  /\ \E p \in Price :
       /\ Priced(u, p)
       /\ account' = [account EXCEPT ![u] = [cash |-> Equity(u, p), open |-> FALSE]]
       /\ Request(u, "close", Equity(u, p))
  /\ UNCHANGED <<price, verified, board, socket, view, rebuild>>

(* A tick sets the price and liquidates; the users of those positions are  *)
(* pushed to, connected or not.                                            *)
Tick(p) ==
  /\ task["tick"].pc = "idle"
  /\ IF p = price THEN UNCHANGED changes ELSE Change
  /\ price' = p
  /\ account' = [u \in User |->
       IF p = 0 THEN [account[u] EXCEPT !.open = FALSE] ELSE account[u]]
  /\ Run("tick", [Idle EXCEPT !.pc = "targets", !.on = "tick",
                    !.left = {u \in User : p = 0 /\ account[u].open}])
  /\ UNCHANGED <<verified, board, socket, view, rebuild, faults>>

(* The user is loaded from the cookie's session, in a session that is      *)
(* closed before the socket is accepted.                                   *)
Connect(u) ==
  /\ task["connect"].pc = "idle" /\ u \notin socket
  /\ Run("connect", [Idle EXCEPT !.pc = "register", !.on = "connect",
                       !.user = u, !.cash = account[u].cash])
  /\ UNCHANGED <<account, price, verified, board, socket, view, rebuild, changes, faults>>

(* Slip: the registry forgets the connection, the client is not told. *)
DisconnectQuietly(u) ==
  /\ u \in socket \/ task["connect"].user = u
  /\ socket' = socket \ {u}
  /\ Run("connect", IF task["connect"].user = u THEN Idle ELSE task["connect"])
  /\ UNCHANGED <<account, price, verified, board, view, rebuild, changes, faults>>

Disconnect(u) ==
  /\ u \in socket \/ task["connect"].user = u
  /\ socket' = socket \ {u}
  /\ view' = [view EXCEPT ![u] = None]
  /\ Run("connect", IF task["connect"].user = u THEN Idle ELSE task["connect"])
  /\ UNCHANGED <<account, price, verified, board, rebuild, changes, faults>>

-----------------------------------------------------------------------------
(* The steps of a task.                                                    *)

(* The open positions' owners who are connected, and the liquidated. *)
Targets ==
  LET t == task["tick"]
  IN  /\ t.pc = "targets"
      /\ Run("tick", [t EXCEPT !.pc = "take",
                        !.left = @ \cup {u \in socket : account[u].open}])
  /\ UNCHANGED <<account, price, verified, board, socket, view, rebuild, changes, faults>>

Take ==
  LET t == task["tick"]
  IN  /\ t.pc = "take"
      /\ \/ t.left = {} /\ Run("tick", Idle)
         \/ \E u \in t.left :
              Run("tick", [t EXCEPT !.pc = "value", !.user = u,
                             !.cash = account[u].cash, !.left = @ \ {u}])
  /\ UNCHANGED <<account, price, verified, board, socket, view, rebuild, changes, faults>>

(* After accept(); what is pushed from now on reaches the client. *)
Register ==
  /\ task["connect"].pc = "register"
  /\ socket' = socket \cup {task["connect"].user}
  /\ Goto("connect", "value")
  /\ UNCHANGED <<account, price, verified, board, view, rebuild, changes, faults>>

(* get_account_snapshot. *)
Value(w) ==
  LET t == task[w]
  IN  /\ t.pc = "value"
      /\ \E p \in Found :
           /\ Priced(t.user, p)
           /\ Run(w, [t EXCEPT !.equity = t.cash + Worth(t.user, p),
                               !.pc = IF t.on = "confirm" THEN "score" ELSE "send"])
      /\ UNCHANGED <<account, price, verified, board, socket, view, rebuild, changes>>

(* Only the first snapshot of a connection is not scored. *)
AfterSend(w) ==
  IF w # "connect" THEN Goto(w, "score")
  ELSE IF task[w].equity <= 0 THEN Goto(w, "check") ELSE Run(w, Idle)

(* Slip: an update is sent to a client only once. *)
SendFirstOnly(w) ==
  LET t == task[w]
  IN  /\ t.pc = "send"
      /\ view' = IF t.user \in socket /\ view[t.user] = None
                 THEN [view EXCEPT ![t.user] = t.equity] ELSE view
      /\ AfterSend(w)
      /\ UNCHANGED <<account, price, verified, board, socket, rebuild, changes, faults>>

Send(w) ==
  LET t == task[w]
  IN  /\ t.pc = "send"
      /\ view' = IF t.user \in socket THEN [view EXCEPT ![t.user] = t.equity] ELSE view
      /\ AfterSend(w)
      /\ UNCHANGED <<account, price, verified, board, socket, rebuild, changes, faults>>

Done(w) ==
  IF w = "tick" THEN [Idle EXCEPT !.pc = "take", !.on = "tick", !.left = task[w].left]
  ELSE Idle

(* update_score, whose Redis errors are swallowed; a close is always       *)
(* checked for bankruptcy, a tick's update if it looks like one.           *)
Score(w) ==
  LET t == task[w]
  IN  /\ t.pc = "score"
      /\ \/ board' = [board EXCEPT ![t.user] = t.equity] /\ UNCHANGED faults
         \/ Fault /\ UNCHANGED board
      /\ IF t.on = "close" \/ (t.on = "tick" /\ t.equity <= 0)
         THEN Goto(w, "check") ELSE Run(w, Done(w))
      /\ UNCHANGED <<account, price, verified, socket, view, rebuild, changes>>

(* check_and_broadcast: gate and, under the locks, reset; then the fresh   *)
(* snapshot is sent and scored.  On the connect path the User is of a      *)
(* closed session: the refresh raises after the commit, and the socket     *)
(* goes down.  Without a price the check is put off.                       *)
Reset(w, u) ==
  /\ account' = [account EXCEPT ![u] = [cash |-> Start, open |-> FALSE]]
  /\ IF w = "connect"
     THEN /\ socket' = socket \ {u}
          /\ view' = [view EXCEPT ![u] = None]
          /\ Run(w, Idle)
     ELSE /\ Run(w, [task[w] EXCEPT !.pc = "value", !.on = "reset", !.cash = Start])
          /\ UNCHANGED <<socket, view>>

Check(w) ==
  LET t == task[w]
      u == t.user
  IN  /\ t.pc = "check"
      /\ \E p \in Found :
           LET gate == IF w = "connect" THEN Equity(u, p) ELSE t.cash + Worth(u, p)
           IN  /\ Priced(u, p)
               /\ IF gate <= 0 /\ Equity(u, p) <= 0 THEN Reset(w, u)
                  ELSE Run(w, Done(w)) /\ UNCHANGED <<account, socket, view>>
      /\ UNCHANGED <<price, verified, board, rebuild, changes>>

(* An exception ends the task; one of a connect ends with the socket, as   *)
(* Disconnect does.                                                        *)
Abort(w) ==
  /\ w # "connect" /\ task[w].pc # "idle"
  /\ Fault
  /\ Run(w, Idle)
  /\ UNCHANGED <<account, price, verified, board, socket, view, rebuild, changes>>

-----------------------------------------------------------------------------
(* rebuild.                                                                *)

RebuildUsers ==
  /\ rebuild.pc = "idle" /\ verified # {}
  /\ rebuild' = [Resting EXCEPT !.pc = "value", !.left = verified,
                                !.cash = [u \in User |-> account[u].cash]]
  /\ UNCHANGED <<account, price, verified, board, socket, view, task, changes, faults>>

RebuildValue ==
  /\ rebuild.pc = "value"
  /\ \E u \in rebuild.left : \E p \in Found :
       /\ Priced(u, p)
       /\ rebuild' = [rebuild EXCEPT !.left = @ \ {u}, !.cash[u] = 0,
                                     !.scores[u] = rebuild.cash[u] + Worth(u, p)]
  /\ UNCHANGED <<account, price, verified, board, socket, view, task, changes>>

RebuildDelete ==
  /\ rebuild.pc = "value" /\ rebuild.left = {}
  /\ board' = [u \in User |-> None]
  /\ rebuild' = [rebuild EXCEPT !.pc = "zadd"]
  /\ UNCHANGED <<account, price, verified, socket, view, task, changes, faults>>

(* Slip: only the members still there get their score. *)
RebuildZaddExisting ==
  /\ rebuild.pc = "zadd"
  /\ board' = [u \in User |-> IF board[u] = None THEN None ELSE rebuild.scores[u]]
  /\ rebuild' = Resting
  /\ UNCHANGED <<account, price, verified, socket, view, task, changes, faults>>

(* A score pushed since the delete stays unless the rebuild has one. *)
RebuildZadd ==
  /\ rebuild.pc = "zadd"
  /\ board' = [u \in User |->
       IF rebuild.scores[u] = None THEN board[u] ELSE rebuild.scores[u]]
  /\ rebuild' = Resting
  /\ UNCHANGED <<account, price, verified, socket, view, task, changes, faults>>

(* A cycle that fails is retried; Redis loses what it had. *)
RebuildFail ==
  /\ rebuild.pc # "idle"
  /\ Fault
  /\ rebuild' = Resting
  /\ UNCHANGED <<account, price, verified, board, socket, view, task, changes>>

LoseBoard ==
  /\ Fault
  /\ board' = [u \in User |-> None]
  /\ UNCHANGED <<account, price, verified, socket, view, task, rebuild, changes>>

Step(w) == Value(w) \/ Send(w) \/ Score(w) \/ Check(w)
TickStep == Targets \/ Take \/ Step("tick") \/ \E p \in Price : Tick(p)
ConnectStep == Register \/ Step("connect")
Rebuild == RebuildUsers \/ RebuildValue \/ RebuildDelete \/ RebuildZadd

Next ==
  \/ \E u \in User : Verify(u) \/ Open(u) \/ Close(u) \/ Connect(u) \/ Disconnect(u)
  \/ TickStep \/ ConnectStep \/ Step("request") \/ Rebuild
  \/ \E w \in Task : Abort(w)
  \/ RebuildFail \/ LoseBoard

(* asyncio runs every task that is ready; ticks keep coming and the        *)
(* refresh loop goes round.                                                *)
Fairness ==
  /\ WF_vars(TickStep) /\ WF_vars(ConnectStep) /\ WF_vars(Step("request"))
  /\ WF_vars(Rebuild)

Spec == Init /\ [][Next]_vars /\ Fairness

-----------------------------------------------------------------------------
(* Types. *)
TypeOK ==
  /\ account \in [User -> [cash : Nat, open : BOOLEAN]]
  /\ price \in Price /\ verified \subseteq User /\ socket \subseteq User
  /\ board \in [User -> Nat \cup {None}] /\ view \in [User -> Nat \cup {None}]
  /\ \A u \in User : view[u] # None => u \in socket
  /\ rebuild.left \subseteq verified

(* Only verified accounts rank: nothing scores an account whose address    *)
(* is not confirmed, whichever task it is and however late.                *)
OnlyVerifiedRank == \A u \in User : board[u] # None => u \in verified

(* Whatever late, torn or lost scores and old prices there were, once the  *)
(* accounts stay as they are the board comes to hold each verified         *)
(* account's equity, but for the moments between a rebuild's DEL and ZADD. *)
BoardHeals ==
  <>[](rebuild.pc # "zadd" =>
         \A u \in User : board[u] = IF u \in verified THEN Equity(u, price) ELSE None)

(* A client that stays connected comes to see its account as it is while   *)
(* it has an open position, even if its first snapshot overwrote a newer   *)
(* push.                                                                   *)
HolderViewHeals ==
  \A u \in User :
    <>[](u \in socket) => <>[](account[u].open => view[u] = Equity(u, price))

=============================================================================
