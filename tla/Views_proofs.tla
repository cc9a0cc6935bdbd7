------------------------------ MODULE Views_proofs ------------------------------
(***************************************************************************)
(* Proofs about Views: its types, and that only verified accounts rank.    *)
(*                                                                         *)
(* VInv is inductive.  What it adds is why no score can be anybody else's: *)
(* an open position needs a verified owner, and every task that will score *)
(* carries users who were verified when it took them.                      *)
(***************************************************************************)
EXTENDS Views, TLAPS

Acting == {"register", "value", "send", "score", "check"}

Locals == [pc : {"idle", "targets", "take"} \cup Acting,
           on : {"none", "tick", "connect", "confirm", "open", "close", "reset"},
           user : User \cup {None}, cash : Nat, equity : Nat, left : SUBSET User]

(* A task acts for a user, one that may score for a verified one.          *)
Sound(w, local, known) ==
  /\ local \in Locals
  /\ local.pc \in Acting => local.user \in User
  /\ w # "connect" /\ local.pc \in Acting => local.user \in known
  /\ local.left \subseteq known
  /\ w = "connect" => /\ local.pc \notin {"targets", "take", "score"}
                      /\ local.pc # "idle" => local.on = "connect"

AccountsSound ==
  /\ account \in [User -> [cash : Nat, open : BOOLEAN]]
  /\ price \in Price /\ verified \subseteq User
  /\ \A u \in User : account[u].open => u \in verified

ViewsSound ==
  /\ socket \subseteq User /\ view \in [User -> Nat \cup {None}]
  /\ \A u \in User : view[u] # None => u \in socket

BoardSound ==
  /\ board \in [User -> Nat \cup {None}]
  /\ OnlyVerifiedRank

TasksSound ==
  /\ task \in [Task -> Locals]
  /\ \A w \in Task : Sound(w, task[w], verified)

RebuildSound ==
  /\ rebuild \in [pc : {"idle", "value", "zadd"}, left : SUBSET User,
                  cash : [User -> Nat], scores : [User -> Nat \cup {None}]]
  /\ rebuild.left \subseteq verified
  /\ \A u \in User : rebuild.scores[u] # None => u \in verified

VInv == AccountsSound /\ ViewsSound /\ BoardSound /\ TasksSound /\ RebuildSound

(* A resting task is sound. *)
LEMMA IdleSound ==
  ASSUME NEW w \in Task, NEW known
  PROVE  Sound(w, Idle, known) /\ Idle.user = None
BY DEF Sound, Idle, Locals, Acting

(* So is a resting rebuild. *)
LEMMA RestingTyped ==
  /\ Resting \in [pc : {"idle", "value", "zadd"}, left : SUBSET User,
                  cash : [User -> Nat], scores : [User -> Nat \cup {None}]]
  /\ Resting.left = {} /\ \A u \in User : Resting.scores[u] = None
BY DEF Resting

(* A task that goes on soundly leaves the others sound: nobody loses a     *)
(* confirmation.                                                           *)
LEMMA RunSound ==
  ASSUME TasksSound, verified \subseteq verified',
         NEW w \in Task, NEW local, Sound(w, local, verified'), Run(w, local)
  PROVE  TasksSound'
<1>1. task' \in [Task -> Locals] /\ task'[w] = local /\ \A v \in Task \ {w} : task'[v] = task[v]
  BY DEF TasksSound, Run, Sound
<1>2. \A v \in Task \ {w} : Sound(v, task[v], verified')
  BY DEF TasksSound, Sound
<1> QED
  BY <1>1, <1>2 DEF TasksSound

(* Equity is a natural number. *)
LEMMA EquityTyped ==
  ASSUME AccountsSound, NEW u \in User, NEW p \in Found
  PROVE  Worth(u, p) \in Nat /\ Equity(u, p) \in Nat
BY ViewsAssumption DEF AccountsSound, Worth, Equity, Found

LEMMA CashTyped ==
  ASSUME AccountsSound, NEW u \in User
  PROVE  account[u].cash \in Nat
BY DEF AccountsSound

(* The initial states satisfy the invariant. *)
LEMMA InitVInv == Init => VInv
<1> SUFFICES ASSUME Init PROVE VInv
  OBVIOUS
<1>1. AccountsSound
  BY ViewsAssumption DEF Init, AccountsSound
<1>2. ViewsSound /\ BoardSound
  BY DEF Init, ViewsSound, BoardSound, OnlyVerifiedRank
<1>3. TasksSound
  BY IdleSound DEF Init, TasksSound, Sound
<1>4. RebuildSound
  BY RestingTyped DEF Init, RebuildSound
<1> QED
  BY <1>1, <1>2, <1>3, <1>4 DEF VInv

(* A request of a verified user is sound. *)
LEMMA RequestSound ==
  ASSUME TasksSound, verified \subseteq verified', NEW u \in User, u \in verified',
         NEW on \in {"confirm", "open", "close"}, NEW cash \in Nat, Request(u, on, cash)
  PROVE  TasksSound'
<1> DEFINE local == [Idle EXCEPT !.pc = "value", !.on = on, !.user = u, !.cash = cash]
<1>1. Sound("request", local, verified')
  BY DEF Sound, Locals, Acting, Idle
<1>2. Run("request", local) /\ "request" \in Task
  BY DEF Request, Task
<1> HIDE DEF local
<1> QED
  BY <1>1, <1>2, RunSound

(* A confirmation. *)
LEMMA VerifyStep ==
  ASSUME VInv, NEW u \in User, Verify(u)
  PROVE  VInv'
<1> USE DEF VInv
<1>1. AccountsSound'
  BY DEF Verify, AccountsSound
<1>2. ViewsSound'
  BY DEF Verify, ViewsSound
<1>3. BoardSound'
  BY DEF Verify, BoardSound, OnlyVerifiedRank
<1>4. TasksSound'
  <2>1. account[u].cash \in Nat /\ verified \subseteq verified' /\ u \in verified'
    BY CashTyped DEF Verify
  <2> QED
    BY <2>1, RequestSound DEF Verify
<1>5. RebuildSound'
  BY DEF Verify, RebuildSound
<1> QED
  BY <1>1, <1>2, <1>3, <1>4, <1>5

(* An open. *)
LEMMA OpenStep ==
  ASSUME VInv, NEW u \in User, Open(u)
  PROVE  VInv'
<1> USE DEF VInv
<1>1. AccountsSound'
  <2>1. account[u].cash - 1 \in Nat
    BY CashTyped DEF Open
  <2> QED
    BY <2>1 DEF Open, AccountsSound
<1>2. ViewsSound'
  BY DEF Open, ViewsSound
<1>3. BoardSound'
  BY DEF Open, BoardSound, OnlyVerifiedRank
<1>4. TasksSound'
  <2>1. account[u].cash - 1 \in Nat /\ verified' = verified /\ u \in verified
    BY CashTyped DEF Open
  <2> QED
    BY <2>1, RequestSound DEF Open
<1>5. RebuildSound'
  BY DEF Open, RebuildSound
<1> QED
  BY <1>1, <1>2, <1>3, <1>4, <1>5

(* A close. *)
LEMMA CloseStep ==
  ASSUME VInv, NEW u \in User, Close(u)
  PROVE  VInv'
<1> USE DEF VInv
<1>0. PICK p \in Price :
        /\ account' = [account EXCEPT ![u] = [cash |-> Equity(u, p), open |-> FALSE]]
        /\ Request(u, "close", Equity(u, p))
  BY DEF Close
<1> DEFINE paid == Equity(u, p)
<1>p. paid \in Nat
  BY EquityTyped DEF Found
<1>u. UNCHANGED <<price, verified, board, socket, view, rebuild>> /\ account[u].open
  BY DEF Close
<1> HIDE DEF paid
<1>q. /\ account' = [account EXCEPT ![u] = [cash |-> paid, open |-> FALSE]]
      /\ Request(u, "close", paid)
  BY <1>0 DEF paid
<1>1. AccountsSound'
  BY <1>p, <1>q, <1>u DEF AccountsSound
<1>2. ViewsSound'
  BY <1>u DEF ViewsSound
<1>3. BoardSound'
  BY <1>u DEF BoardSound, OnlyVerifiedRank
<1>4. TasksSound'
  <2>1. verified' = verified /\ u \in verified
    BY <1>u DEF AccountsSound
  <2> QED
    BY <1>p, <1>q, <2>1, RequestSound
<1>5. RebuildSound'
  BY <1>u DEF RebuildSound
<1> QED
  BY <1>1, <1>2, <1>3, <1>4, <1>5

(* A tick. *)
LEMMA PriceTickStep ==
  ASSUME VInv, NEW p \in Price, Tick(p)
  PROVE  VInv'
<1> USE DEF VInv
<1>1. AccountsSound'
  <2>1. \A u \in User : [account[u] EXCEPT !.open = FALSE] \in [cash : Nat, open : BOOLEAN]
                        /\ ~[account[u] EXCEPT !.open = FALSE].open
    BY DEF AccountsSound
  <2> QED
    BY <2>1 DEF Tick, AccountsSound
<1>2. ViewsSound'
  BY DEF Tick, ViewsSound
<1>3. BoardSound'
  BY DEF Tick, BoardSound, OnlyVerifiedRank
<1>4. TasksSound'
  <2> DEFINE local == [Idle EXCEPT !.pc = "targets", !.on = "tick",
                         !.left = {u \in User : p = 0 /\ account[u].open}]
  <2>1. {u \in User : p = 0 /\ account[u].open} \subseteq verified
    BY DEF AccountsSound
  <2>2. Sound("tick", local, verified)
    BY <2>1 DEF Sound, Locals, Acting, Idle, AccountsSound
  <2>3. Run("tick", local) /\ "tick" \in Task /\ verified' = verified
    BY DEF Tick, Task
  <2> HIDE DEF local
  <2> QED
    BY <2>2, <2>3, RunSound
<1>5. RebuildSound'
  BY DEF Tick, RebuildSound
<1> QED
  BY <1>1, <1>2, <1>3, <1>4, <1>5

(* The start of a connection. *)
LEMMA OpenConnection ==
  ASSUME VInv, NEW u \in User, Connect(u)
  PROVE  VInv'
<1> USE DEF VInv
<1>1. AccountsSound'
  BY DEF Connect, AccountsSound
<1>2. ViewsSound'
  BY DEF Connect, ViewsSound
<1>3. BoardSound'
  BY DEF Connect, BoardSound, OnlyVerifiedRank
<1>4. TasksSound'
  <2> DEFINE local == [Idle EXCEPT !.pc = "register", !.on = "connect",
                         !.user = u, !.cash = account[u].cash]
  <2>1. account[u].cash \in Nat
    BY CashTyped
  <2>2. Sound("connect", local, verified)
    BY <2>1 DEF Sound, Locals, Acting, Idle
  <2>3. Run("connect", local) /\ "connect" \in Task /\ verified' = verified
    BY DEF Connect, Task
  <2> HIDE DEF local
  <2> QED
    BY <2>2, <2>3, RunSound
<1>5. RebuildSound'
  BY DEF Connect, RebuildSound
<1> QED
  BY <1>1, <1>2, <1>3, <1>4, <1>5

(* Its end. *)
LEMMA DisconnectStep ==
  ASSUME VInv, NEW u \in User, Disconnect(u)
  PROVE  VInv'
<1> USE DEF VInv
<1>1. AccountsSound'
  BY DEF Disconnect, AccountsSound
<1>2. ViewsSound'
  BY DEF Disconnect, ViewsSound
<1>3. BoardSound'
  BY DEF Disconnect, BoardSound, OnlyVerifiedRank
<1>4. TasksSound'
  <2>1. "connect" \in Task /\ verified' = verified
    BY DEF Disconnect, Task
  <2>2. Sound("connect", task["connect"], verified) /\ Sound("connect", Idle, verified)
    BY <2>1, IdleSound DEF TasksSound
  <2> QED
    BY <2>1, <2>2, RunSound DEF Disconnect
<1>5. RebuildSound'
  BY DEF Disconnect, RebuildSound
<1> QED
  BY <1>1, <1>2, <1>3, <1>4, <1>5

(* The users a tick pushes to. *)
LEMMA TargetsStep ==
  ASSUME VInv, Targets
  PROVE  VInv'
<1> USE DEF VInv
<1>1. AccountsSound'
  BY DEF Targets, AccountsSound
<1>2. ViewsSound'
  BY DEF Targets, ViewsSound
<1>3. BoardSound'
  BY DEF Targets, BoardSound, OnlyVerifiedRank
<1>4. TasksSound'
  <2> DEFINE local == [task["tick"] EXCEPT !.pc = "take",
                         !.left = @ \cup {u \in socket : account[u].open}]
  <2>1. "tick" \in Task /\ verified' = verified /\ Sound("tick", task["tick"], verified)
    BY DEF Targets, Task, TasksSound
  <2>2. {u \in socket : account[u].open} \subseteq verified /\ verified \subseteq User
    BY DEF AccountsSound, ViewsSound
  <2>3. Sound("tick", local, verified)
    BY <2>1, <2>2 DEF Sound, Locals, Acting
  <2>4. Run("tick", local)
    BY DEF Targets
  <2> HIDE DEF local
  <2> QED
    BY <2>1, <2>3, <2>4, RunSound
<1>5. RebuildSound'
  BY DEF Targets, RebuildSound
<1> QED
  BY <1>1, <1>2, <1>3, <1>4, <1>5

(* The next of them. *)
LEMMA TakeStep ==
  ASSUME VInv, Take
  PROVE  VInv'
<1> USE DEF VInv
<1>1. AccountsSound'
  BY DEF Take, AccountsSound
<1>2. ViewsSound'
  BY DEF Take, ViewsSound
<1>3. BoardSound'
  BY DEF Take, BoardSound, OnlyVerifiedRank
<1>4. TasksSound'
  <2>1. /\ "tick" \in Task /\ verified' = verified /\ Sound("tick", task["tick"], verified)
        /\ Sound("tick", Idle, verified)
    BY IdleSound DEF Take, Task, TasksSound
  <2>2. CASE Run("tick", Idle)
    BY <2>1, <2>2, RunSound
  <2>3. ASSUME NEW u \in task["tick"].left,
               Run("tick", [task["tick"] EXCEPT !.pc = "value", !.user = u,
                              !.cash = account[u].cash, !.left = @ \ {u}])
        PROVE  TasksSound'
    <3> DEFINE local == [task["tick"] EXCEPT !.pc = "value", !.user = u,
                           !.cash = account[u].cash, !.left = @ \ {u}]
    <3>1. u \in verified /\ u \in User /\ verified \subseteq User
      BY <2>1, <2>3 DEF Sound, AccountsSound
    <3>2. account[u].cash \in Nat
      BY <3>1, CashTyped
    <3>3. Sound("tick", local, verified)
      BY <2>1, <3>1, <3>2 DEF Sound, Locals, Acting
    <3> HIDE DEF local
    <3> QED
      BY <2>1, <2>3, <3>3, RunSound DEF local
  <2> QED
    BY <2>2, <2>3 DEF Take
<1>5. RebuildSound'
  BY DEF Take, RebuildSound
<1> QED
  BY <1>1, <1>2, <1>3, <1>4, <1>5

(* A socket joins the registry. *)
LEMMA RegisterStep ==
  ASSUME VInv, Register
  PROVE  VInv'
<1> USE DEF VInv
<1>1. AccountsSound'
  BY DEF Register, AccountsSound
<1>2. ViewsSound'
  <2>1. task["connect"].user \in User
    BY DEF Register, TasksSound, Sound, Acting, Task
  <2> QED
    BY <2>1 DEF Register, ViewsSound
<1>3. BoardSound'
  BY DEF Register, BoardSound, OnlyVerifiedRank
<1>4. TasksSound'
  <2> DEFINE local == [task["connect"] EXCEPT !.pc = "value"]
  <2>1. "connect" \in Task /\ verified' = verified /\ Sound("connect", task["connect"], verified)
    BY DEF Register, Task, TasksSound
  <2>2. Sound("connect", local, verified)
    BY <2>1 DEF Register, Sound, Locals, Acting
  <2>3. Run("connect", local)
    BY DEF Register, Goto
  <2> HIDE DEF local
  <2> QED
    BY <2>1, <2>2, <2>3, RunSound
<1>5. RebuildSound'
  BY DEF Register, RebuildSound
<1> QED
  BY <1>1, <1>2, <1>3, <1>4, <1>5

(* What a task knows when it acts. *)
LEMMA Knows ==
  ASSUME VInv, NEW w \in Task, task[w].pc \in Acting
  PROVE  /\ Sound(w, task[w], verified)
         /\ task[w].user \in User /\ task[w].equity \in Nat /\ task[w].cash \in Nat
         /\ w # "connect" => task[w].user \in verified
BY DEF VInv, TasksSound, Sound, Locals

(* What follows a push or a score is sound. *)
LEMMA GotoSound ==
  ASSUME VInv, NEW w \in Task, task[w].pc \in Acting, verified' = verified,
         NEW pc \in Acting, w = "connect" => pc # "score", Goto(w, pc)
  PROVE  TasksSound'
<1> DEFINE local == [task[w] EXCEPT !.pc = pc]
<1>1. Sound(w, local, verified)
  BY Knows DEF Sound, Locals, Acting
<1>2. Run(w, local)
  BY DEF Goto
<1> HIDE DEF local
<1> QED
  BY <1>1, <1>2, RunSound DEF VInv

(* So is a task that is done. *)
LEMMA DoneSound ==
  ASSUME VInv, NEW w \in Task, task[w].pc \in Acting
  PROVE  Sound(w, Done(w), verified)
<1>1. Sound(w, task[w], verified) /\ task[w].left \in SUBSET User
  BY Knows DEF Sound, Locals
<1> QED
  BY <1>1, IdleSound DEF Done, Sound, Locals, Acting, Idle

(* A valuation. *)
LEMMA ValueStep ==
  ASSUME VInv, NEW w \in Task, Value(w)
  PROVE  VInv'
<1> USE DEF VInv
<1>1. AccountsSound'
  BY DEF Value, AccountsSound
<1>2. ViewsSound'
  BY DEF Value, ViewsSound
<1>3. BoardSound'
  BY DEF Value, BoardSound, OnlyVerifiedRank
<1>4. TasksSound'
  <2>1. task[w].pc \in Acting /\ verified' = verified
    BY DEF Value, Acting
  <2>2. PICK p \in Found :
          Run(w, [task[w] EXCEPT !.equity = task[w].cash + Worth(task[w].user, p),
                    !.pc = IF task[w].on = "confirm" THEN "score" ELSE "send"])
    BY DEF Value
  <2> DEFINE worth == Worth(task[w].user, p)
             local == [task[w] EXCEPT !.equity = task[w].cash + worth,
                    !.pc = IF task[w].on = "confirm" THEN "score" ELSE "send"]
  <2>3. task[w].cash + worth \in Nat
    BY <2>1, Knows, EquityTyped
  <2> HIDE DEF worth
  <2>4. w = "connect" => task[w].on = "connect"
    BY <2>1, Knows DEF Sound, Value
  <2>5. Sound(w, local, verified)
    BY <2>1, <2>3, <2>4, Knows DEF Sound, Locals, Acting
  <2> HIDE DEF local
  <2> QED
    BY <2>1, <2>2, <2>5, RunSound DEF local, worth
<1>5. RebuildSound'
  BY DEF Value, RebuildSound
<1> QED
  BY <1>1, <1>2, <1>3, <1>4, <1>5

(* A push. *)
LEMMA SendStep ==
  ASSUME VInv, NEW w \in Task, Send(w)
  PROVE  VInv'
<1> USE DEF VInv
<1>1. AccountsSound'
  BY DEF Send, AccountsSound
<1>2. ViewsSound'
  <2>1. task[w].user \in User /\ task[w].equity \in Nat
    BY Knows DEF Send, Acting
  <2> QED
    BY <2>1 DEF Send, ViewsSound
<1>3. BoardSound'
  BY DEF Send, BoardSound, OnlyVerifiedRank
<1>4. TasksSound'
  <2>1. task[w].pc \in Acting /\ verified' = verified /\ AfterSend(w)
        /\ "score" \in Acting /\ "check" \in Acting
    BY DEF Send, Acting
  <2> QED
    BY <2>1, GotoSound, RunSound, IdleSound DEF AfterSend
<1>5. RebuildSound'
  BY DEF Send, RebuildSound
<1> QED
  BY <1>1, <1>2, <1>3, <1>4, <1>5

(* A score. *)
LEMMA ScoreStep ==
  ASSUME VInv, NEW w \in Task, Score(w)
  PROVE  VInv'
<1> USE DEF VInv
<1>1. AccountsSound'
  BY DEF Score, AccountsSound
<1>2. ViewsSound'
  BY DEF Score, ViewsSound
<1>3. BoardSound'
  <2>1. /\ task[w].user \in User /\ task[w].equity \in Nat
        /\ w # "connect" /\ task[w].user \in verified
    BY Knows DEF Score, Acting, TasksSound, Sound
  <2> QED
    BY <2>1 DEF Score, BoardSound, OnlyVerifiedRank
<1>4. TasksSound'
  <2>1. task[w].pc \in Acting /\ verified' = verified /\ "check" \in Acting
        /\ (Goto(w, "check") \/ Run(w, Done(w)))
    BY DEF Score, Acting
  <2> QED
    BY <2>1, GotoSound, RunSound, DoneSound
<1>5. RebuildSound'
  BY DEF Score, RebuildSound
<1> QED
  BY <1>1, <1>2, <1>3, <1>4, <1>5

(* A bankruptcy check. *)
LEMMA CheckStep ==
  ASSUME VInv, NEW w \in Task, Check(w)
  PROVE  VInv'
<1> USE DEF VInv
<1>1. AccountsSound'
  <2>1. task[w].user \in User
    BY Knows DEF Check, Acting
  <2>2. [cash |-> Start, open |-> FALSE] \in [cash : Nat, open : BOOLEAN]
    BY ViewsAssumption
  <2>3. /\ \/ account' = [account EXCEPT ![task[w].user] = [cash |-> Start, open |-> FALSE]]
           \/ account' = account
        /\ price' = price /\ verified' = verified
    BY DEF Check, Reset
  <2> QED
    BY <2>1, <2>2, <2>3 DEF AccountsSound
<1>2. ViewsSound'
  <2>1. task[w].user \in User
    BY Knows DEF Check, Acting
  <2> QED
    BY <2>1 DEF Check, Reset, ViewsSound
<1>3. BoardSound'
  BY DEF Check, BoardSound, OnlyVerifiedRank
<1>4. TasksSound'
  <2> DEFINE local == [task[w] EXCEPT !.pc = "value", !.on = "reset", !.cash = Start]
  <2>1. task[w].pc \in Acting /\ verified' = verified
    BY DEF Check, Acting
  <2>2. w # "connect" => Sound(w, local, verified)
    BY <2>1, Knows, ViewsAssumption DEF Sound, Locals, Acting
  <2>3. Sound(w, Idle, verified) /\ Sound(w, Done(w), verified)
    BY <2>1, IdleSound, DoneSound
  <2>4. \/ w # "connect" /\ Run(w, local)
        \/ Run(w, Idle) \/ Run(w, Done(w))
    BY DEF Check, Reset
  <2> HIDE DEF local
  <2> QED
    BY <2>1, <2>2, <2>3, <2>4, RunSound
<1>5. RebuildSound'
  BY DEF Check, RebuildSound
<1> QED
  BY <1>1, <1>2, <1>3, <1>4, <1>5

(* An exception. *)
LEMMA AbortStep ==
  ASSUME VInv, NEW w \in Task, Abort(w)
  PROVE  VInv'
<1> USE DEF VInv
<1>1. AccountsSound'
  BY DEF Abort, AccountsSound
<1>2. ViewsSound'
  BY DEF Abort, ViewsSound
<1>3. BoardSound'
  BY DEF Abort, BoardSound, OnlyVerifiedRank
<1>4. TasksSound'
  BY IdleSound, RunSound DEF Abort
<1>5. RebuildSound'
  BY DEF Abort, RebuildSound
<1> QED
  BY <1>1, <1>2, <1>3, <1>4, <1>5

(* The start of a rebuild. *)
LEMMA RebuildUsersStep ==
  ASSUME VInv, RebuildUsers
  PROVE  VInv'
<1> USE DEF VInv
<1>1. AccountsSound'
  BY DEF RebuildUsers, AccountsSound
<1>2. ViewsSound'
  BY DEF RebuildUsers, ViewsSound
<1>3. BoardSound'
  BY DEF RebuildUsers, BoardSound, OnlyVerifiedRank
<1>4. TasksSound'
  BY DEF RebuildUsers, TasksSound
<1>5. RebuildSound'
  <2>1. [u \in User |-> account[u].cash] \in [User -> Nat]
    BY CashTyped
  <2>2. verified \subseteq User
    BY DEF AccountsSound
  <2> QED
    BY <2>1, <2>2, RestingTyped DEF RebuildUsers, RebuildSound, Resting
<1> QED
  BY <1>1, <1>2, <1>3, <1>4, <1>5

(* Its valuations. *)
LEMMA RebuildValueStep ==
  ASSUME VInv, RebuildValue
  PROVE  VInv'
<1> USE DEF VInv
<1>1. AccountsSound'
  BY DEF RebuildValue, AccountsSound
<1>2. ViewsSound'
  BY DEF RebuildValue, ViewsSound
<1>3. BoardSound'
  BY DEF RebuildValue, BoardSound, OnlyVerifiedRank
<1>4. TasksSound'
  BY DEF RebuildValue, TasksSound
<1>5. RebuildSound'
  <2>1. PICK u \in rebuild.left : \E p \in Found :
          rebuild' = [rebuild EXCEPT !.left = @ \ {u}, !.cash[u] = 0,
                                     !.scores[u] = rebuild.cash[u] + Worth(u, p)]
    BY DEF RebuildValue
  <2>2. u \in User /\ u \in verified
    BY DEF RebuildSound
  <2>3. PICK worth \in Nat :
          rebuild' = [rebuild EXCEPT !.left = @ \ {u}, !.cash[u] = 0,
                                     !.scores[u] = rebuild.cash[u] + worth]
    BY <2>1, <2>2, EquityTyped
  <2>4. rebuild.cash[u] + worth \in Nat /\ verified' = verified
    BY <2>2 DEF RebuildSound, RebuildValue
  <2> QED
    BY <2>2, <2>3, <2>4 DEF RebuildSound
<1> QED
  BY <1>1, <1>2, <1>3, <1>4, <1>5

(* The deletion. *)
LEMMA RebuildDeleteStep ==
  ASSUME VInv, RebuildDelete
  PROVE  VInv'
<1> USE DEF VInv
<1>1. AccountsSound'
  BY DEF RebuildDelete, AccountsSound
<1>2. ViewsSound'
  BY DEF RebuildDelete, ViewsSound
<1>3. BoardSound'
  BY DEF RebuildDelete, BoardSound, OnlyVerifiedRank
<1>4. TasksSound'
  BY DEF RebuildDelete, TasksSound
<1>5. RebuildSound'
  BY DEF RebuildDelete, RebuildSound
<1> QED
  BY <1>1, <1>2, <1>3, <1>4, <1>5

(* And the new board. *)
LEMMA RebuildZaddStep ==
  ASSUME VInv, RebuildZadd
  PROVE  VInv'
<1> USE DEF VInv
<1>1. AccountsSound'
  BY DEF RebuildZadd, AccountsSound
<1>2. ViewsSound'
  BY DEF RebuildZadd, ViewsSound
<1>3. BoardSound'
  BY DEF RebuildZadd, RebuildSound, BoardSound, OnlyVerifiedRank
<1>4. TasksSound'
  BY DEF RebuildZadd, TasksSound
<1>5. RebuildSound'
  BY RestingTyped DEF RebuildZadd, RebuildSound
<1> QED
  BY <1>1, <1>2, <1>3, <1>4, <1>5

(* Or its failure. *)
LEMMA RebuildFailStep ==
  ASSUME VInv, RebuildFail
  PROVE  VInv'
<1> USE DEF VInv
<1>1. AccountsSound'
  BY DEF RebuildFail, AccountsSound
<1>2. ViewsSound'
  BY DEF RebuildFail, ViewsSound
<1>3. BoardSound'
  BY DEF RebuildFail, BoardSound, OnlyVerifiedRank
<1>4. TasksSound'
  BY DEF RebuildFail, TasksSound
<1>5. RebuildSound'
  BY RestingTyped DEF RebuildFail, RebuildSound
<1> QED
  BY <1>1, <1>2, <1>3, <1>4, <1>5

(* Redis loses the board. *)
LEMMA LoseBoardStep ==
  ASSUME VInv, LoseBoard
  PROVE  VInv'
<1> USE DEF VInv
<1>1. AccountsSound'
  BY DEF LoseBoard, AccountsSound
<1>2. ViewsSound'
  BY DEF LoseBoard, ViewsSound
<1>3. BoardSound'
  BY DEF LoseBoard, BoardSound, OnlyVerifiedRank
<1>4. TasksSound'
  BY DEF LoseBoard, TasksSound
<1>5. RebuildSound'
  BY DEF LoseBoard, RebuildSound
<1> QED
  BY <1>1, <1>2, <1>3, <1>4, <1>5

(* Every step preserves the invariant. *)
LEMMA NextVInv ==
  ASSUME VInv, [Next]_vars
  PROVE  VInv'
<1>1. CASE UNCHANGED vars
  BY <1>1 DEF vars, VInv, AccountsSound, ViewsSound, BoardSound, OnlyVerifiedRank, TasksSound,
     RebuildSound
<1>2. ASSUME NEW w \in Task, Step(w)
      PROVE  VInv'
  BY <1>2, ValueStep, SendStep, ScoreStep, CheckStep DEF Step
<1>3. CASE TickStep
  BY <1>2, <1>3, TargetsStep, TakeStep, PriceTickStep DEF TickStep, Task
<1>4. CASE ConnectStep \/ Step("request")
  BY <1>2, <1>4, RegisterStep DEF ConnectStep, Task
<1>5. CASE Rebuild
  BY <1>5, RebuildUsersStep, RebuildValueStep, RebuildDeleteStep, RebuildZaddStep DEF Rebuild
<1> QED
  BY <1>1, <1>3, <1>4, <1>5, VerifyStep, OpenStep, CloseStep, OpenConnection, DisconnectStep,
     AbortStep, RebuildFailStep, LoseBoardStep DEF Next

(* Tasks, accounts and board agree about who is verified in every          *)
(* reachable state.                                                        *)
THEOREM ViewsInvariant == Spec => []VInv
  BY InitVInv, NextVInv, PTL DEF Spec

(* The variables keep their types. *)
THEOREM ViewsTypes == Spec => []TypeOK
<1>1. VInv => TypeOK
  BY DEF VInv, AccountsSound, ViewsSound, BoardSound, RebuildSound, TypeOK
<1> QED
  BY <1>1, ViewsInvariant, PTL

(* Nothing scores an account whose address is not confirmed. *)
THEOREM RankedAreVerified == Spec => []OnlyVerifiedRank
<1>1. VInv => OnlyVerifiedRank
  BY DEF VInv, BoardSound
<1> QED
  BY <1>1, ViewsInvariant, PTL

=============================================================================
