----------------------- MODULE LiquidationEngine_proofs -----------------------
(***************************************************************************)
(* Proofs about LiquidationEngine: its types, that a scan leaves nothing   *)
(* crossed behind, and that a tick which runs to its end checks every user *)
(* it liquidated, for any positions, marks, queue and number of faults.    *)
(*                                                                         *)
(* EInv is inductive.  Its parts follow one tick from the candidates to    *)
(* the end of the closes, while users, reconcile and outages go on beside. *)
(***************************************************************************)
EXTENDS LiquidationEngine, TLAPS

Begun == {p \in Pid : status[p] # "none"}

(* Whatever speaks of a position, the position was opened before; since no *)
(* position opens twice, one that is open was open then.                   *)
OnlyBegun ==
  /\ index \subseteq Begun /\ adding \subseteq Begun /\ refresh.rows \subseteq Begun
  /\ tick.held \subseteq Begun /\ tick.seen \subseteq Begun

(* While a tick runs, who is unchecked was so before it, is still to be    *)
(* revalued, or had their close raise.                                     *)
DueIsCovered ==
  tick.pc # "idle" => due \subseteq tick.owed \cup tick.failed \cup tick.affected

(* From PostgreSQL come all positions open since the tick began. *)
FallbackCovers ==
  tick.pc = "rows" /\ tick.fallback => tick.held \cap OpenPositions \subseteq tick.seen

(* Of the candidates, those crossed and open are still to be closed, or    *)
(* failed.                                                                 *)
Candidates == tick.seen \cup (IF tick.fallback THEN tick.held ELSE {})
ClosesCover ==
  tick.pc = "close" =>
    \A p \in Candidates :
      Crossed(p, tick.mark) /\ status[p] = "open" => p \in tick.todo \/ p \in tick.failed

EInv == TypeOK /\ OnlyBegun /\ DueIsCovered /\ FallbackCovers /\ ClosesCover

TickRow == [pc : {"idle", "candidates", "rows", "close", "revalue"},
            mark : Nat, fallback : BOOLEAN,
            held : SUBSET Pid, owed : SUBSET Pid, seen : SUBSET Pid, todo : SUBSET Pid, failed : SUBSET Pid,
            clearing : SUBSET Pid, affected : SUBSET Pid]

(* An idle handler has no locals. *)
LEMMA IdleIsTyped ==
  /\ IdleTick \in TickRow
  /\ IdleTick.pc = "idle" /\ IdleTick.held = {} /\ IdleTick.owed = {} /\ IdleTick.seen = {}
  /\ IdleTick.affected = {} /\ IdleTick.fallback = FALSE
BY DEF IdleTick, TickRow

(* The initial states satisfy the invariant. *)
LEMMA InitEInv == Init => EInv
<1> SUFFICES ASSUME Init PROVE EInv
  OBVIOUS
<1>1. TypeOK
  <2>1. queue \in Seq(Mark)
    BY DEF Init
  <2>2. faults \in 0 .. MaxFaults
    BY EngineAssumption DEF Init
  <2>3. tick \in TickRow /\ refresh \in [pc : {"sleep", "write"}, rows : SUBSET Pid]
    BY IdleIsTyped DEF Init, Asleep
  <2> QED
    BY <2>1, <2>2, <2>3 DEF Init, TypeOK, TickRow
<1> QED
  BY <1>1, IdleIsTyped DEF Init, EInv, OnlyBegun, Begun, DueIsCovered, FallbackCovers, ClosesCover, Asleep

(* A new position was no candidate. *)
LEMMA OpenPositionStep ==
  ASSUME EInv, NEW p \in Pid, OpenPosition(p)
  PROVE  EInv'
<1> USE EngineAssumption DEF EInv, OpenPosition
<1>1. TypeOK'
  BY DEF TypeOK, TickRow, positionVars, feedVars, OpenPositions
<1>2. OnlyBegun'
  BY DEF TypeOK, OnlyBegun, Begun, TickRow, positionVars, feedVars, OpenPositions
<1>3. DueIsCovered'
  BY DEF TypeOK, DueIsCovered, TickRow, positionVars, feedVars, OpenPositions
<1>4. FallbackCovers'
  BY DEF TypeOK, FallbackCovers, TickRow, positionVars, feedVars, OpenPositions, OnlyBegun, Begun
<1>5. ClosesCover'
  BY DEF TypeOK, ClosesCover, Candidates, FallbackCovers, TickRow, positionVars, feedVars, OpenPositions, OnlyBegun, Begun
<1> QED
  BY <1>1, <1>2, <1>3, <1>4, <1>5

(* A close by its user preserves the invariant. *)
LEMMA UserCloseStep ==
  ASSUME EInv, NEW p \in Pid, UserClose(p)
  PROVE  EInv'
<1> USE EngineAssumption DEF EInv, UserClose, Fault
<1>1. TypeOK'
  BY DEF TypeOK, TickRow, positionVars, feedVars, OpenPositions
<1>2. OnlyBegun'
  BY DEF TypeOK, OnlyBegun, Begun, TickRow, positionVars, feedVars, OpenPositions
<1>3. DueIsCovered'
  BY DEF TypeOK, DueIsCovered, TickRow, positionVars, feedVars, OpenPositions
<1>4. FallbackCovers'
  BY DEF TypeOK, FallbackCovers, TickRow, positionVars, feedVars, OpenPositions
<1>5. ClosesCover'
  BY DEF TypeOK, ClosesCover, Candidates, FallbackCovers, TickRow, positionVars, feedVars, OpenPositions
<1> QED
  BY <1>1, <1>2, <1>3, <1>4, <1>5

(* SADD. *)
LEMMA AddOpenPositionStep ==
  ASSUME EInv, NEW p \in Pid, AddOpenPosition(p)
  PROVE  EInv'
<1> USE EngineAssumption DEF EInv, AddOpenPosition
<1>1. TypeOK'
  BY DEF TypeOK, TickRow, positionVars, feedVars, OpenPositions
<1>2. OnlyBegun'
  BY DEF TypeOK, OnlyBegun, Begun, TickRow, positionVars, feedVars, OpenPositions
<1>3. DueIsCovered'
  BY DEF TypeOK, DueIsCovered, TickRow, positionVars, feedVars, OpenPositions
<1>4. FallbackCovers'
  BY DEF TypeOK, FallbackCovers, TickRow, positionVars, feedVars, OpenPositions
<1>5. ClosesCover'
  BY DEF TypeOK, ClosesCover, Candidates, FallbackCovers, TickRow, positionVars, feedVars, OpenPositions
<1> QED
  BY <1>1, <1>2, <1>3, <1>4, <1>5

(* SREM. *)
LEMMA RemoveOpenPositionStep ==
  ASSUME EInv, NEW p \in Pid, RemoveOpenPosition(p)
  PROVE  EInv'
<1> USE EngineAssumption DEF EInv, RemoveOpenPosition
<1>1. TypeOK'
  BY DEF TypeOK, TickRow, positionVars, feedVars, OpenPositions
<1>2. OnlyBegun'
  BY DEF TypeOK, OnlyBegun, Begun, TickRow, positionVars, feedVars, OpenPositions
<1>3. DueIsCovered'
  BY DEF TypeOK, DueIsCovered, TickRow, positionVars, feedVars, OpenPositions
<1>4. FallbackCovers'
  BY DEF TypeOK, FallbackCovers, TickRow, positionVars, feedVars, OpenPositions
<1>5. ClosesCover'
  BY DEF TypeOK, ClosesCover, Candidates, FallbackCovers, TickRow, positionVars, feedVars, OpenPositions
<1> QED
  BY <1>1, <1>2, <1>3, <1>4, <1>5

(* A frame. *)
LEMMA ReceiveTickStep ==
  ASSUME EInv, NEW m \in Mark, ReceiveTick(m)
  PROVE  EInv'
<1> USE EngineAssumption DEF EInv, ReceiveTick
<1>1. TypeOK'
  BY DEF TypeOK, TickRow, positionVars, feedVars, OpenPositions
<1>2. OnlyBegun'
  BY DEF TypeOK, OnlyBegun, Begun, TickRow, positionVars, feedVars, OpenPositions
<1>3. DueIsCovered'
  BY DEF TypeOK, DueIsCovered, TickRow, positionVars, feedVars, OpenPositions
<1>4. FallbackCovers'
  BY DEF TypeOK, FallbackCovers, TickRow, positionVars, feedVars, OpenPositions
<1>5. ClosesCover'
  BY DEF TypeOK, ClosesCover, Candidates, FallbackCovers, TickRow, positionVars, feedVars, OpenPositions
<1> QED
  BY <1>1, <1>2, <1>3, <1>4, <1>5

(* The snapshot of a new connection. *)
LEMMA ConnectStep ==
  ASSUME EInv, Connect
  PROVE  EInv'
<1> USE EngineAssumption DEF EInv, Connect
<1>1. TypeOK'
  BY DEF TypeOK, TickRow, positionVars, feedVars, OpenPositions
<1>2. OnlyBegun'
  BY DEF TypeOK, OnlyBegun, Begun, TickRow, positionVars, feedVars, OpenPositions
<1>3. DueIsCovered'
  BY DEF TypeOK, DueIsCovered, TickRow, positionVars, feedVars, OpenPositions
<1>4. FallbackCovers'
  BY DEF TypeOK, FallbackCovers, TickRow, positionVars, feedVars, OpenPositions
<1>5. ClosesCover'
  BY DEF TypeOK, ClosesCover, Candidates, FallbackCovers, TickRow, positionVars, feedVars, OpenPositions
<1> QED
  BY <1>1, <1>2, <1>3, <1>4, <1>5

(* A dropped connection. *)
LEMMA DisconnectStep ==
  ASSUME EInv, Disconnect
  PROVE  EInv'
<1> USE EngineAssumption DEF EInv, Disconnect, LoseFeed, Fault
<1>f. faults' \in 0 .. MaxFaults
  BY DEF TypeOK
<1>q. queue' \in Seq(Mark)
  BY DEF TypeOK, feedVars
<1>1. TypeOK'
  BY <1>f, <1>q DEF TypeOK, TickRow, positionVars, feedVars, OpenPositions
<1>2. OnlyBegun'
  BY <1>f, <1>q DEF TypeOK, OnlyBegun, Begun, TickRow, positionVars, feedVars, OpenPositions
<1>3. DueIsCovered'
  BY <1>f, <1>q DEF TypeOK, DueIsCovered, TickRow, positionVars, feedVars, OpenPositions
<1>4. FallbackCovers'
  BY <1>f, <1>q DEF TypeOK, FallbackCovers, TickRow, positionVars, feedVars, OpenPositions
<1>5. ClosesCover'
  BY <1>f, <1>q DEF TypeOK, ClosesCover, Candidates, FallbackCovers, TickRow, positionVars, feedVars, OpenPositions
<1> QED
  BY <1>1, <1>2, <1>3, <1>4, <1>5

(* The start of a tick, or its end if Redis is down. *)
LEMMA HandleTickStep ==
  ASSUME EInv, HandleTick
  PROVE  EInv'
<1> USE EngineAssumption DEF EInv, HandleTick, AbortTick, LoseFeed
<1>a. /\ IdleTick \in TickRow
      /\ IdleTick.pc = "idle" /\ IdleTick.held = {} /\ IdleTick.owed = {} /\ IdleTick.seen = {}
      /\ IdleTick.affected = {} /\ IdleTick.fallback = FALSE
  BY IdleIsTyped
<1>h. queue # <<>> => Head(queue) \in Nat /\ Tail(queue) \in Seq(Mark)
  BY DEF TypeOK
<1>o. due \subseteq Pid
  BY DEF TypeOK
<1>b. OpenPositions \subseteq Pid /\ OpenPositions \subseteq Begun
  BY DEF OpenPositions, Begun
<1>c. \/ /\ tick' = [pc |-> "candidates", mark |-> Head(queue), held |-> OpenPositions,
                    owed |-> due, seen |-> {}, fallback |-> FALSE, todo |-> {}, failed |-> {},
                    clearing |-> {}, affected |-> {}]
         /\ queue # <<>> /\ queue' = Tail(queue)
      \/ tick' = IdleTick /\ queue' = <<>>
  BY DEF IdleTick
<1>q. queue' \in Seq(Mark)
  <2>1. <<>> \in Seq(Mark)
    OBVIOUS
  <2> QED
    BY ONLY <1>c, <1>h, <2>1
<1>t. tick' \in TickRow
  <2>1. CASE tick' = IdleTick
    BY ONLY <1>a, <2>1
  <2>2. ASSUME NEW m \in Nat
        PROVE  [pc |-> "candidates", mark |-> m, held |-> OpenPositions, owed |-> due,
                seen |-> {}, fallback |-> FALSE, todo |-> {}, failed |-> {},
                clearing |-> {}, affected |-> {}] \in TickRow
    BY ONLY <1>b, <1>o, <2>2 DEF TickRow
  <2> QED
    BY ONLY <1>c, <1>h, <2>1, <2>2
<1>u. tick'.held \subseteq OpenPositions /\ tick'.seen = {}
  BY <1>a, <1>c
<1>1. TypeOK'
  BY <1>a, <1>b, <1>c, <1>h, <1>q, <1>t, <1>u DEF TypeOK, TickRow, positionVars, feedVars, OpenPositions, IdleTick
<1>2. OnlyBegun'
  BY <1>a, <1>b, <1>c, <1>h, <1>q, <1>t, <1>u DEF TypeOK, OnlyBegun, Begun, TickRow, positionVars, feedVars, OpenPositions, IdleTick
<1>3. DueIsCovered'
  BY <1>a, <1>b, <1>c, <1>h, <1>q, <1>t, <1>u DEF TypeOK, DueIsCovered, TickRow, positionVars, feedVars, OpenPositions, IdleTick
<1>4. FallbackCovers'
  BY <1>a, <1>b, <1>c, <1>h, <1>q, <1>t, <1>u DEF TypeOK, FallbackCovers, TickRow, positionVars, feedVars, OpenPositions, IdleTick
<1>5. ClosesCover'
  BY <1>a, <1>b, <1>c, <1>h, <1>q, <1>t, <1>u DEF TypeOK, ClosesCover, Candidates, FallbackCovers, TickRow, positionVars, feedVars, OpenPositions, IdleTick
<1> QED
  BY <1>1, <1>2, <1>3, <1>4, <1>5

(* The candidates. *)
LEMMA LiquidationCandidatesStep ==
  ASSUME EInv, LiquidationCandidates
  PROVE  EInv'
<1> USE EngineAssumption DEF EInv, LiquidationCandidates
<1>1. TypeOK'
  BY DEF TypeOK, TickRow, positionVars, feedVars, OpenPositions
<1>2. OnlyBegun'
  BY DEF TypeOK, OnlyBegun, Begun, TickRow, positionVars, feedVars, OpenPositions
<1>3. DueIsCovered'
  BY DEF TypeOK, DueIsCovered, TickRow, positionVars, feedVars, OpenPositions
<1>4. FallbackCovers'
  BY DEF TypeOK, FallbackCovers, TickRow, positionVars, feedVars, OpenPositions
<1>5. ClosesCover'
  BY DEF TypeOK, ClosesCover, Candidates, FallbackCovers, TickRow, positionVars, feedVars, OpenPositions
<1> QED
  BY <1>1, <1>2, <1>3, <1>4, <1>5

(* The scan: what is crossed is to be closed. *)
LEMMA ScanRowsStep ==
  ASSUME EInv, ScanRows
  PROVE  EInv'
<1> USE EngineAssumption DEF EInv, ScanRows
<1>1. TypeOK'
  BY DEF TypeOK, TickRow, positionVars, feedVars, OpenPositions
<1>2. OnlyBegun'
  BY DEF TypeOK, OnlyBegun, Begun, TickRow, positionVars, feedVars, OpenPositions
<1>3. DueIsCovered'
  BY DEF TypeOK, DueIsCovered, TickRow, positionVars, feedVars, OpenPositions
<1>4. FallbackCovers'
  BY DEF TypeOK, FallbackCovers, TickRow, positionVars, feedVars, OpenPositions
<1>5. ClosesCover'
  BY DEF TypeOK, ClosesCover, Candidates, FallbackCovers, TickRow, positionVars, feedVars, OpenPositions
<1> QED
  BY <1>1, <1>2, <1>3, <1>4, <1>5

(* One close. *)
LEMMA CloseCrossedStep ==
  ASSUME EInv, NEW p \in Pid, CloseCrossed(p)
  PROVE  EInv'
<1> USE EngineAssumption DEF EInv, CloseCrossed
<1>t. tick' \in TickRow
  <2>1. tick \in TickRow
    BY DEF TypeOK, TickRow
  <2>2. tick' = [tick EXCEPT !.todo = @ \ {p},
                             !.clearing = IF status[p] = "open" THEN {p} ELSE {},
                             !.affected = IF status[p] = "open" THEN @ \cup {p} ELSE @]
    BY DEF CloseCrossed
  <2> QED
    BY ONLY <2>1, <2>2, p \in Pid DEF TickRow
<1>s. status' \in [Pid -> {"none", "open", "terminal"}] /\ due' \subseteq Pid
  <2>1. status \in [Pid -> {"none", "open", "terminal"}] /\ due \subseteq Pid
    BY DEF TypeOK
  <2>2. /\ status' = [status EXCEPT ![p] = IF @ = "open" THEN "terminal" ELSE @]
        /\ due' = IF status[p] = "open" THEN due \cup {p} ELSE due
    BY DEF CloseCrossed
  <2> QED
    BY ONLY <2>1, <2>2, p \in Pid
<1>u. UNCHANGED <<adding, index, redis, market, queue, conn, refresh, faults>>
  BY DEF CloseCrossed, feedVars
<1>1. TypeOK'
  <2>1. TypeOK
    BY DEF EInv
  <2> QED
    BY ONLY <1>t, <1>s, <1>u, <2>1 DEF TypeOK, TickRow
<1>2. OnlyBegun'
  BY DEF TypeOK, OnlyBegun, Begun, TickRow, positionVars, feedVars, OpenPositions
<1>3. DueIsCovered'
  BY DEF TypeOK, DueIsCovered, TickRow, positionVars, feedVars, OpenPositions
<1>4. FallbackCovers'
  BY DEF TypeOK, FallbackCovers, TickRow, positionVars, feedVars, OpenPositions
<1>5. ClosesCover'
  BY DEF TypeOK, ClosesCover, Candidates, FallbackCovers, TickRow, positionVars, feedVars, OpenPositions
<1> QED
  BY <1>1, <1>2, <1>3, <1>4, <1>5

(* One that fails. *)
LEMMA CloseFailsStep ==
  ASSUME EInv, NEW p \in Pid, CloseFails(p)
  PROVE  EInv'
<1> USE EngineAssumption DEF EInv, CloseFails, Fault
<1>f. faults' \in 0 .. MaxFaults
  BY DEF TypeOK
<1>t. tick' \in TickRow
  BY DEF TypeOK, TickRow
<1>s. status' \in [Pid -> {"none", "open", "terminal"}] /\ due' \subseteq Pid
  <2>1. status \in [Pid -> {"none", "open", "terminal"}] /\ due \subseteq Pid
    BY DEF TypeOK
  <2>2. \/ status' = status /\ due' = due
        \/ status' = [status EXCEPT ![p] = "terminal"] /\ due' = due \cup {p}
    BY DEF CloseFails
  <2> QED
    BY ONLY <2>1, <2>2
<1>1. TypeOK'
  BY <1>f, <1>s, <1>t DEF TypeOK, TickRow, feedVars
<1>2. OnlyBegun'
  BY <1>f, <1>t DEF TypeOK, OnlyBegun, Begun, TickRow, positionVars, feedVars, OpenPositions
<1>3. DueIsCovered'
  BY <1>f, <1>t DEF TypeOK, DueIsCovered, TickRow, positionVars, feedVars, OpenPositions
<1>4. FallbackCovers'
  BY <1>f, <1>t DEF TypeOK, FallbackCovers, TickRow, positionVars, feedVars, OpenPositions
<1>5. ClosesCover'
  BY <1>f, <1>t DEF TypeOK, ClosesCover, Candidates, FallbackCovers, TickRow, positionVars, feedVars, OpenPositions
<1> QED
  BY <1>1, <1>2, <1>3, <1>4, <1>5

(* The end of the closes. *)
LEMMA EndOfScanStep ==
  ASSUME EInv, EndOfScan
  PROVE  EInv'
<1> USE EngineAssumption DEF EInv, EndOfScan
<1>1. TypeOK'
  BY DEF TypeOK, TickRow, positionVars, feedVars, OpenPositions, IdleTick
<1>2. OnlyBegun'
  BY DEF TypeOK, OnlyBegun, Begun, TickRow, positionVars, feedVars, OpenPositions, IdleTick
<1>3. DueIsCovered'
  BY DEF TypeOK, DueIsCovered, TickRow, positionVars, feedVars, OpenPositions, IdleTick
<1>4. FallbackCovers'
  BY DEF TypeOK, FallbackCovers, TickRow, positionVars, feedVars, OpenPositions, IdleTick
<1>5. ClosesCover'
  BY DEF TypeOK, ClosesCover, Candidates, FallbackCovers, TickRow, positionVars, feedVars, OpenPositions, IdleTick
<1> QED
  BY <1>1, <1>2, <1>3, <1>4, <1>5

(* The check of one user. *)
LEMMA RevalueUserStep ==
  ASSUME EInv, NEW u, RevalueUser(u)
  PROVE  EInv'
<1> USE EngineAssumption DEF EInv, RevalueUser
<1>b. OpenPositions \subseteq Pid /\ tick \in TickRow /\ tick.pc = "revalue"
  BY DEF TypeOK, OpenPositions, TickRow
<1>c. PICK closed \in SUBSET OpenPositions :
        /\ status' = [p \in Pid |-> IF p \in closed THEN "terminal" ELSE status[p]]
        /\ tick' = [tick EXCEPT !.affected = {p \in @ : Owner[p] # u}, !.clearing = closed]
  OBVIOUS
<1>e. /\ tick'.pc = "revalue" /\ tick'.held = tick.held /\ tick'.seen = tick.seen
      /\ tick'.affected = {p \in tick.affected : Owner[p] # u}
  BY <1>b, <1>c DEF TickRow
<1>s. status' \in [Pid -> {"none", "open", "terminal"}]
  BY <1>c DEF TypeOK
<1>t. tick' \in TickRow
  BY <1>b, <1>c DEF TickRow
<1>k. /\ Begun \subseteq Begun' /\ UNCHANGED <<adding, index, redis, feedVars, refresh, faults>>
      /\ due' = {p \in due : Owner[p] # u}
  BY <1>b, <1>c DEF Begun, TypeOK
<1>d. due' \subseteq Pid
  BY DEF TypeOK
<1>o. /\ index \subseteq Pid /\ adding \subseteq Pid /\ redis \in BOOLEAN /\ market \in Mark
      /\ queue \in Seq(Mark) /\ conn \in BOOLEAN /\ faults \in 0 .. MaxFaults
      /\ refresh \in [pc : {"sleep", "write"}, rows : SUBSET Pid]
  BY DEF TypeOK
<1>1. TypeOK'
  <2>1. /\ index' = index /\ adding' = adding /\ redis' = redis /\ market' = market
        /\ queue' = queue /\ conn' = conn /\ faults' = faults /\ refresh' = refresh
    BY ONLY <1>k DEF feedVars
  <2> QED
    BY ONLY <1>d, <1>o, <1>s, <1>t, <2>1 DEF TypeOK, TickRow
<1>2. OnlyBegun'
  BY <1>b, <1>c, <1>d, <1>e, <1>k, <1>o, <1>s, <1>t DEF TypeOK, OnlyBegun, Begun, TickRow, positionVars, feedVars, OpenPositions
<1>3. DueIsCovered'
  BY <1>b, <1>c, <1>d, <1>e, <1>k, <1>o, <1>s, <1>t DEF TypeOK, DueIsCovered, TickRow, positionVars, feedVars, OpenPositions
<1>4. FallbackCovers'
  BY <1>b, <1>c, <1>d, <1>e, <1>k, <1>o, <1>s, <1>t DEF TypeOK, FallbackCovers, TickRow, positionVars, feedVars, OpenPositions
<1>5. ClosesCover'
  BY <1>b, <1>c, <1>d, <1>e, <1>k, <1>o, <1>s, <1>t DEF TypeOK, ClosesCover, Candidates, FallbackCovers, TickRow, positionVars, feedVars, OpenPositions
<1> QED
  BY <1>1, <1>2, <1>3, <1>4, <1>5

(* An exception. *)
LEMMA TickFailsStep ==
  ASSUME EInv, TickFails
  PROVE  EInv'
<1> USE EngineAssumption DEF EInv, TickFails, AbortTick, LoseFeed, Fault
<1>a. /\ IdleTick \in TickRow
      /\ IdleTick.pc = "idle" /\ IdleTick.held = {} /\ IdleTick.owed = {} /\ IdleTick.seen = {}
      /\ IdleTick.affected = {} /\ IdleTick.fallback = FALSE
  BY IdleIsTyped
<1>f. faults' \in 0 .. MaxFaults
  BY DEF TypeOK
<1>q. queue' \in Seq(Mark)
  BY DEF TypeOK, feedVars
<1>t. tick' \in TickRow
  BY <1>a DEF TypeOK, TickRow
<1>1. TypeOK'
  BY <1>a, <1>f, <1>q, <1>t DEF TypeOK, TickRow, positionVars, feedVars, OpenPositions
<1>2. OnlyBegun'
  BY <1>a, <1>f, <1>q, <1>t DEF TypeOK, OnlyBegun, Begun, TickRow, positionVars, feedVars, OpenPositions
<1>3. DueIsCovered'
  BY <1>a, <1>f, <1>q, <1>t DEF TypeOK, DueIsCovered, TickRow, positionVars, feedVars, OpenPositions
<1>4. FallbackCovers'
  BY <1>a, <1>f, <1>q, <1>t DEF TypeOK, FallbackCovers, TickRow, positionVars, feedVars, OpenPositions
<1>5. ClosesCover'
  BY <1>a, <1>f, <1>q, <1>t DEF TypeOK, ClosesCover, Candidates, FallbackCovers, TickRow, positionVars, feedVars, OpenPositions
<1> QED
  BY <1>1, <1>2, <1>3, <1>4, <1>5

(* The end of the tick. *)
LEMMA EndOfTickStep ==
  ASSUME EInv, EndOfTick
  PROVE  EInv'
<1> USE EngineAssumption DEF EInv, EndOfTick
<1>a. /\ IdleTick \in TickRow
      /\ IdleTick.pc = "idle" /\ IdleTick.held = {} /\ IdleTick.owed = {} /\ IdleTick.seen = {}
      /\ IdleTick.affected = {} /\ IdleTick.fallback = FALSE
  BY IdleIsTyped
<1>1. TypeOK'
  BY <1>a DEF TypeOK, TickRow, positionVars, feedVars, OpenPositions
<1>2. OnlyBegun'
  BY <1>a DEF TypeOK, OnlyBegun, Begun, TickRow, positionVars, feedVars, OpenPositions
<1>3. DueIsCovered'
  BY <1>a DEF TypeOK, DueIsCovered, TickRow, positionVars, feedVars, OpenPositions
<1>4. FallbackCovers'
  BY <1>a DEF TypeOK, FallbackCovers, TickRow, positionVars, feedVars, OpenPositions
<1>5. ClosesCover'
  BY <1>a DEF TypeOK, ClosesCover, Candidates, FallbackCovers, TickRow, positionVars, feedVars, OpenPositions
<1> QED
  BY <1>1, <1>2, <1>3, <1>4, <1>5

(* The two steps of reconcile. *)
LEMMA ReconcileReadStep ==
  ASSUME EInv, ReconcileRead
  PROVE  EInv'
<1> USE EngineAssumption DEF EInv, ReconcileRead
<1>1. TypeOK'
  BY DEF TypeOK, TickRow, positionVars, feedVars, OpenPositions
<1>2. OnlyBegun'
  BY DEF TypeOK, OnlyBegun, Begun, TickRow, positionVars, feedVars, OpenPositions
<1>3. DueIsCovered'
  BY DEF TypeOK, DueIsCovered, TickRow, positionVars, feedVars, OpenPositions
<1>4. FallbackCovers'
  BY DEF TypeOK, FallbackCovers, TickRow, positionVars, feedVars, OpenPositions
<1>5. ClosesCover'
  BY DEF TypeOK, ClosesCover, Candidates, FallbackCovers, TickRow, positionVars, feedVars, OpenPositions
<1> QED
  BY <1>1, <1>2, <1>3, <1>4, <1>5

(* The second. *)
LEMMA ReconcileWriteStep ==
  ASSUME EInv, ReconcileWrite
  PROVE  EInv'
<1> USE EngineAssumption DEF EInv, ReconcileWrite, Asleep
<1>1. TypeOK'
  BY DEF TypeOK, TickRow, positionVars, feedVars, OpenPositions
<1>2. OnlyBegun'
  BY DEF TypeOK, OnlyBegun, Begun, TickRow, positionVars, feedVars, OpenPositions
<1>3. DueIsCovered'
  BY DEF TypeOK, DueIsCovered, TickRow, positionVars, feedVars, OpenPositions
<1>4. FallbackCovers'
  BY DEF TypeOK, FallbackCovers, TickRow, positionVars, feedVars, OpenPositions
<1>5. ClosesCover'
  BY DEF TypeOK, ClosesCover, Candidates, FallbackCovers, TickRow, positionVars, feedVars, OpenPositions
<1> QED
  BY <1>1, <1>2, <1>3, <1>4, <1>5

(* Outages of Redis. *)
LEMMA RedisFailsStep ==
  ASSUME EInv, RedisFails
  PROVE  EInv'
<1> USE EngineAssumption DEF EInv, RedisFails, Fault
<1>f. faults' \in 0 .. MaxFaults
  BY DEF TypeOK
<1>1. TypeOK'
  BY <1>f DEF TypeOK, TickRow, positionVars, feedVars, OpenPositions
<1>2. OnlyBegun'
  BY <1>f DEF TypeOK, OnlyBegun, Begun, TickRow, positionVars, feedVars, OpenPositions
<1>3. DueIsCovered'
  BY <1>f DEF TypeOK, DueIsCovered, TickRow, positionVars, feedVars, OpenPositions
<1>4. FallbackCovers'
  BY <1>f DEF TypeOK, FallbackCovers, TickRow, positionVars, feedVars, OpenPositions
<1>5. ClosesCover'
  BY <1>f DEF TypeOK, ClosesCover, Candidates, FallbackCovers, TickRow, positionVars, feedVars, OpenPositions
<1> QED
  BY <1>1, <1>2, <1>3, <1>4, <1>5

(* Their end. *)
LEMMA RedisRecoversStep ==
  ASSUME EInv, RedisRecovers
  PROVE  EInv'
<1> USE EngineAssumption DEF EInv, RedisRecovers
<1>1. TypeOK'
  BY DEF TypeOK, TickRow, positionVars, feedVars, OpenPositions
<1>2. OnlyBegun'
  BY DEF TypeOK, OnlyBegun, Begun, TickRow, positionVars, feedVars, OpenPositions
<1>3. DueIsCovered'
  BY DEF TypeOK, DueIsCovered, TickRow, positionVars, feedVars, OpenPositions
<1>4. FallbackCovers'
  BY DEF TypeOK, FallbackCovers, TickRow, positionVars, feedVars, OpenPositions
<1>5. ClosesCover'
  BY DEF TypeOK, ClosesCover, Candidates, FallbackCovers, TickRow, positionVars, feedVars, OpenPositions
<1> QED
  BY <1>1, <1>2, <1>3, <1>4, <1>5

(* A restart. *)
LEMMA RestartStep ==
  ASSUME EInv, Restart
  PROVE  EInv'
<1> USE EngineAssumption DEF EInv, Restart, Asleep, Fault
<1>a. /\ IdleTick \in TickRow
      /\ IdleTick.pc = "idle" /\ IdleTick.held = {} /\ IdleTick.owed = {} /\ IdleTick.seen = {}
      /\ IdleTick.affected = {} /\ IdleTick.fallback = FALSE
  BY IdleIsTyped
<1>f. faults' \in 0 .. MaxFaults
  BY DEF TypeOK
<1>q. queue' \in Seq(Mark)
  BY DEF TypeOK, feedVars
<1>t. tick' \in TickRow
  BY <1>a DEF TypeOK, TickRow
<1>1. TypeOK'
  BY <1>a, <1>f, <1>q, <1>t DEF TypeOK, TickRow, positionVars, feedVars, OpenPositions
<1>2. OnlyBegun'
  BY <1>a, <1>f, <1>q, <1>t DEF TypeOK, OnlyBegun, Begun, TickRow, positionVars, feedVars, OpenPositions
<1>3. DueIsCovered'
  BY <1>a, <1>f, <1>q, <1>t DEF TypeOK, DueIsCovered, TickRow, positionVars, feedVars, OpenPositions
<1>4. FallbackCovers'
  BY <1>a, <1>f, <1>q, <1>t DEF TypeOK, FallbackCovers, TickRow, positionVars, feedVars, OpenPositions
<1>5. ClosesCover'
  BY <1>a, <1>f, <1>q, <1>t DEF TypeOK, ClosesCover, Candidates, FallbackCovers, TickRow, positionVars, feedVars, OpenPositions
<1> QED
  BY <1>1, <1>2, <1>3, <1>4, <1>5

(* Every step preserves the invariant. *)
LEMMA NextEInv ==
  ASSUME EInv, [Next]_vars
  PROVE  EInv'
<1>1. CASE UNCHANGED vars
  BY <1>1 DEF vars, positionVars, feedVars, EInv, TypeOK, OnlyBegun, Begun, DueIsCovered,
     FallbackCovers, ClosesCover, Candidates, OpenPositions
<1>2. ASSUME Handler
      PROVE  EInv'
  BY <1>2, HandleTickStep, LiquidationCandidatesStep, ScanRowsStep, CloseCrossedStep, EndOfScanStep,
     RevalueUserStep, EndOfTickStep DEF Handler
<1>3. ASSUME IndexOps \/ Refresh \/ Feed
      PROVE  EInv'
  BY <1>3, AddOpenPositionStep, RemoveOpenPositionStep, ReconcileReadStep, ReconcileWriteStep,
     ConnectStep, ReceiveTickStep DEF IndexOps, Refresh, Feed
<1> QED
  BY <1>1, <1>2, <1>3, OpenPositionStep, UserCloseStep, CloseFailsStep, DisconnectStep,
     TickFailsStep, RedisFailsStep, RedisRecoversStep, RestartStep DEF Next

(* What a tick holds agrees with the positions in every reachable state. *)
THEOREM EngineInvariant == Spec => []EInv
  BY InitEInv, NextEInv, PTL DEF Spec

(* The variables keep their types. *)
THEOREM EngineTypes == Spec => []TypeOK
  BY EngineInvariant, PTL DEF EInv

(* A tick that runs to its end has checked every user it liquidated. *)
THEOREM LiquidatedAreReviewed == Spec => LiquidatedIsReviewed
<1> DEFINE Done == tick.pc = "revalue" /\ tick'.pc = "idle" /\ conn' =>
                     due' \subseteq tick.owed \cup tick.failed
<1>1. ASSUME EInv, [Next]_vars
      PROVE  [Done]_vars
  <2> SUFFICES ASSUME tick.pc = "revalue", tick'.pc = "idle", conn'
               PROVE  due' = due /\ tick.affected = {}
    BY <1>1 DEF EInv, DueIsCovered
  <2>1. CASE EndOfTick
    BY <2>1 DEF EndOfTick
  <2>2. CASE tick' = tick
    BY <2>2
  <2>3. ASSUME LoseFeed
        PROVE  FALSE
    BY <2>3 DEF LoseFeed
  <2>4. ASSUME NEW u, RevalueUser(u)
        PROVE  FALSE
    BY <1>1, <2>4 DEF RevalueUser, EInv, TypeOK
  <2>5. ASSUME NEW p \in Pid, RemoveOpenPosition(p)
        PROVE  FALSE
    BY <1>1, <2>5 DEF RemoveOpenPosition, EInv, TypeOK
  <2>6. ASSUME NEW p \in Pid, OpenPosition(p) \/ UserClose(p) \/ AddOpenPosition(p)
        PROVE  tick' = tick
    BY <2>6 DEF OpenPosition, UserClose, AddOpenPosition
  <2>7. CASE Refresh \/ Feed \/ RedisFails \/ RedisRecovers
    <3>1. tick' = tick
      BY <2>7 DEF Refresh, ReconcileRead, ReconcileWrite, Feed, Connect, ReceiveTick,
         RedisFails, RedisRecovers
    <3> QED
      BY <3>1
  <2>8. CASE TickFails \/ Restart \/ Disconnect
    BY <2>3, <2>8 DEF TickFails, AbortTick, LoseFeed, Restart, Disconnect
  <2>9. CASE HandleTick \/ LiquidationCandidates \/ ScanRows \/ EndOfScan
             \/ (\E p \in Pid : CloseCrossed(p) \/ CloseFails(p))
    BY <2>9 DEF HandleTick, LiquidationCandidates, ScanRows, EndOfScan, CloseCrossed, CloseFails
  <2> QED
    BY <1>1, <2>1, <2>2, <2>4, <2>5, <2>6, <2>7, <2>8, <2>9 DEF Next, Handler, IndexOps, vars
<1> QED
  BY <1>1, EngineInvariant, PTL DEF Spec, LiquidatedIsReviewed

(* A scan ends with its candidates closed, spared or failed. *)
THEOREM ScansLeaveNone == Spec => ScanLeavesNone
<1> DEFINE Left == tick.pc = "close" /\ tick'.pc = "revalue" =>
                     \A p \in Candidates :
                       Crossed(p, tick.mark) /\ status[p] = "open" => p \in tick.failed
<1>1. ASSUME EInv, [Next]_vars
      PROVE  [Left]_vars
  <2> SUFFICES ASSUME tick.pc = "close", tick'.pc = "revalue"
               PROVE  tick.todo = {}
    BY <1>1 DEF EInv, ClosesCover
  <2>1. CASE EndOfScan
    BY <2>1 DEF EndOfScan
  <2>2. CASE tick' = tick
    BY <2>2
  <2>3. CASE AbortTick \/ tick' = IdleTick
    BY <2>3 DEF AbortTick, IdleTick
  <2>4. ASSUME NEW p \in Pid,
               CloseCrossed(p) \/ CloseFails(p) \/ RemoveOpenPosition(p)
        PROVE  FALSE
    BY <1>1, <2>4 DEF CloseCrossed, CloseFails, RemoveOpenPosition, EInv, TypeOK
  <2>5. CASE HandleTick \/ LiquidationCandidates \/ ScanRows \/ (\E u : RevalueUser(u)) \/ EndOfTick
    BY <2>5 DEF HandleTick, LiquidationCandidates, ScanRows, RevalueUser, EndOfTick
  <2>6. ASSUME NEW p \in Pid, OpenPosition(p) \/ UserClose(p) \/ AddOpenPosition(p)
        PROVE  tick' = tick
    BY <2>6 DEF OpenPosition, UserClose, AddOpenPosition
  <2>7. CASE Refresh \/ Feed \/ Disconnect \/ RedisFails \/ RedisRecovers
    <3>1. tick' = tick
      BY <2>7 DEF Refresh, ReconcileRead, ReconcileWrite, Feed, Connect, ReceiveTick, Disconnect,
         RedisFails, RedisRecovers
    <3> QED
      BY <3>1
  <2>8. CASE TickFails \/ Restart
    BY <2>3, <2>8 DEF TickFails, Restart
  <2> QED
    BY <1>1, <2>1, <2>2, <2>4, <2>5, <2>6, <2>7, <2>8 DEF Next, Handler, IndexOps, vars
<1> QED
  BY <1>1, EngineInvariant, PTL DEF Spec, ScanLeavesNone, Candidates

=============================================================================
