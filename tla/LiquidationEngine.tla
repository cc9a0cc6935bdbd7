------------------------- MODULE LiquidationEngine --------------------------
(***************************************************************************)
(* One Kraken feed, the handler of its ticks, and the Redis index the      *)
(* handler scans, for the positions of one pair.                           *)
(*                                                                         *)
(* The stream awaits on_tick before it reads the next frame, so ticks wait *)
(* in the socket and are handled one at a time:                            *)
(*                                                                         *)
(*   idle -> candidates -> rows -> close (once per crossed position)       *)
(*        -> revalue (once per user) -> idle                               *)
(*                                                                         *)
(* An exception on that path leaves handle_tick and the connection; the    *)
(* loop around it sleeps its backoff and connects again (delays are not    *)
(* timed here).  Beside it users open and close positions, and the         *)
(* leaderboard refresh reconciles the index: sleep -> write -> sleep.      *)
(* Every close commits under row locks (module Trading), so here it is one *)
(* step.  A fault is an outage of Redis, a database error, a dropped       *)
(* connection or a restart.                                                *)
(***************************************************************************)
EXTENDS PositionsMath, Sequences, FiniteSets

CONSTANTS
  Pid,          \* position ids of one pair
  Owner,        \* user of each position
  SideOf,       \* its side
  LiqPrice,     \* its stored liquidation price
  Mark,         \* marks Kraken may report
  QueueCap,     \* bound: frames waiting in the socket
  MaxFaults     \* bound: faults in a behaviour

ASSUME EngineAssumption ==
  /\ SideOf \in [Pid -> Side]
  /\ LiqPrice \in [Pid -> Nat] /\ Mark \subseteq Nat
  /\ DOMAIN Owner = Pid
  /\ QueueCap \in Nat \ {0} /\ MaxFaults \in Nat

VARIABLES
  status,    \* positions.status: none yet, open, or terminal (closed, liquidated)
  index,     \* the Redis set positions:open:<pair>
  redis,     \* does Redis answer
  adding,    \* opens committed whose SADD is still to come
  market,    \* the price Kraken traded at last
  queue,     \* ticks received and not handled
  conn,      \* is the feed connected; if not, the loop sleeps or connects
  tick,      \* handle_tick: where it stands and its locals
  refresh,   \* reconcile: where it stands and the rows it read
  due,       \* history: liquidated positions whose owner no tick has checked since
  faults     \* faults so far

positionVars == <<status, adding>>
feedVars == <<market, queue, conn>>
vars == <<positionVars, index, redis, feedVars, tick, refresh, due, faults>>

Crossed(p, mark) == IsLiquidatable(SideOf[p], mark, LiqPrice[p])
OpenPositions == {p \in Pid : status[p] = "open"}

(* handle_tick's locals: the mark, what was open when it began (history,   *)
(* for an outage) and what was due (history), the candidates, whether they *)
(* came from PostgreSQL, the crossed positions to close, those whose close *)
(* raised, those closed and not yet out of the index, and those liquidated *)
(* whose owner is still to be revalued.                                    *)
IdleTick == [pc |-> "idle", mark |-> 0, held |-> {}, owed |-> {}, seen |-> {},
             fallback |-> FALSE, todo |-> {}, failed |-> {}, clearing |-> {}, affected |-> {}]
Asleep == [pc |-> "sleep", rows |-> {}]

Init ==
  /\ status = [p \in Pid |-> "none"]
  /\ index = {} /\ redis = TRUE /\ adding = {}
  /\ market \in Mark
  /\ queue = <<>> /\ conn = FALSE
  /\ tick = IdleTick
  /\ refresh = Asleep
  /\ due = {} /\ faults = 0

Fault == faults < MaxFaults /\ faults' = faults + 1

-----------------------------------------------------------------------------
(* Users, and the index operations that follow a commit.                   *)

(* The unique index on open positions: one per user and pair. *)
OpenPosition(p) ==
  /\ status[p] = "none"
  /\ \A q \in OpenPositions : Owner[q] # Owner[p]
  /\ status' = [status EXCEPT ![p] = "open"]
  /\ adding' = adding \cup {p}
  /\ UNCHANGED <<index, redis, feedVars, tick, refresh, due, faults>>

(* The SREM that follows the commit runs with it, unless a fault comes    *)
(* between the two; a later SREM would only leave a closed candidate, as   *)
(* the faults and reconcile do.                                            *)
UserClose(p) ==
  /\ status[p] = "open"
  /\ status' = [status EXCEPT ![p] = "terminal"]
  /\ \/ index' = (IF redis THEN index \ {p} ELSE index) /\ UNCHANGED faults
     \/ Fault /\ UNCHANGED index
  /\ UNCHANGED <<adding, redis, feedVars, tick, refresh, due>>

(* add_open_position: a Redis error is logged and swallowed. *)
AddOpenPosition(p) ==
  /\ p \in adding
  /\ adding' = adding \ {p}
  /\ index' = IF redis THEN index \cup {p} ELSE index
  /\ UNCHANGED <<status, redis, feedVars, tick, refresh, due, faults>>

(* remove_open_position after a close of the handler's; errors are swallowed. *)
RemoveOpenPosition(p) ==
  /\ p \in tick.clearing
  /\ tick' = [tick EXCEPT !.clearing = @ \ {p}]
  /\ index' = IF redis THEN index \ {p} ELSE index
  /\ UNCHANGED <<status, adding, redis, feedVars, refresh, due, faults>>

-----------------------------------------------------------------------------
(* The feed.                                                               *)

(* Ticks of a quiet market repeat its price. *)
ReceiveTick(mark) ==
  /\ conn /\ Len(queue) < QueueCap
  /\ market' = mark
  /\ queue' = Append(queue, mark)
  /\ UNCHANGED <<positionVars, index, redis, conn, tick, refresh, due, faults>>

(* Slip: as if a snapshot without `last` were read as zero. *)
ConnectUnpriced ==
  /\ ~conn
  /\ conn' = TRUE
  /\ queue' = <<0>>
  /\ UNCHANGED <<positionVars, index, redis, market, tick, refresh, due, faults>>

(* The subscription is answered with a snapshot of the last price. *)
Connect ==
  /\ ~conn
  /\ conn' = TRUE
  /\ queue' = <<market>>
  /\ UNCHANGED <<positionVars, index, redis, market, tick, refresh, due, faults>>

(* The connection ends: frames not read are gone with the socket. *)
LoseFeed == conn' = FALSE /\ queue' = <<>>

(* An exception leaves handle_tick: its locals are gone, and with them the *)
(* users it had still to check.                                            *)
AbortTick ==
  /\ LoseFeed
  /\ tick' = IdleTick

(* Kraken goes away between two ticks, with an error or cleanly. *)
Disconnect ==
  /\ conn /\ tick.pc = "idle" /\ Fault
  /\ LoseFeed
  /\ UNCHANGED <<positionVars, index, redis, market, tick, refresh, due>>

-----------------------------------------------------------------------------
(* handle_tick.                                                            *)

(* set_cached_ticker comes first, and nothing catches its RedisError. *)
HandleTick ==
  /\ tick.pc = "idle" /\ queue # <<>>
  /\ \/ /\ redis
        /\ tick' = [IdleTick EXCEPT !.pc = "candidates", !.mark = Head(queue),
                                   !.held = OpenPositions, !.owed = due]
        /\ queue' = Tail(queue)
        /\ UNCHANGED conn
     \/ ~redis /\ AbortTick
  /\ UNCHANGED <<positionVars, index, redis, market, refresh, due, faults>>

(* _liquidation_candidates: SMEMBERS, or PostgreSQL when Redis errs. *)
LiquidationCandidates ==
  /\ tick.pc = "candidates"
  /\ tick' = [tick EXCEPT !.pc = "rows", !.fallback = ~redis,
                          !.held = IF redis THEN {} ELSE @,
                          !.seen = IF redis THEN index ELSE OpenPositions]
  /\ UNCHANGED <<positionVars, index, redis, feedVars, refresh, due, faults>>

(* The scan: candidates that are open and crossed. *)
ScanRows ==
  /\ tick.pc = "rows"
  /\ tick' = [tick EXCEPT !.pc = "close",
                          !.todo = {p \in tick.seen \cap OpenPositions : Crossed(p, tick.mark)}]
  /\ UNCHANGED <<positionVars, index, redis, feedVars, refresh, due, faults>>

(* One close_position, in an order of PostgreSQL's choice; a row somebody  *)
(* else closed is left as it is.                                           *)
CloseCrossed(p) ==
  /\ tick.pc = "close" /\ tick.clearing = {} /\ p \in tick.todo
  /\ status' = [status EXCEPT ![p] = IF @ = "open" THEN "terminal" ELSE @]
  /\ tick' = [tick EXCEPT !.todo = @ \ {p},
                          !.clearing = IF status[p] = "open" THEN {p} ELSE {},
                          !.affected = IF status[p] = "open" THEN @ \cup {p} ELSE @]
  /\ due' = IF status[p] = "open" THEN due \cup {p} ELSE due
  /\ UNCHANGED <<adding, index, redis, feedVars, refresh, faults>>

(* Slip: as if the first failure ended the loop. *)
CloseFailsAll(p) ==
  /\ tick.pc = "close" /\ tick.clearing = {} /\ p \in tick.todo /\ Fault
  /\ tick' = [tick EXCEPT !.todo = {}, !.failed = @ \cup {p}]
  /\ UNCHANGED <<positionVars, index, redis, feedVars, refresh, due>>

(* The close raised: logged, and on with the next.  If that was after the  *)
(* commit, the position is liquidated, but its owner is not `affected`.    *)
CloseFails(p) ==
  /\ tick.pc = "close" /\ tick.clearing = {} /\ p \in tick.todo /\ Fault
  /\ tick' = [tick EXCEPT !.todo = @ \ {p}, !.failed = @ \cup {p}]
  /\ \/ UNCHANGED <<status, due>>
     \/ /\ status[p] = "open"
        /\ status' = [status EXCEPT ![p] = "terminal"]
        /\ due' = due \cup {p}
  /\ UNCHANGED <<adding, index, redis, feedVars, refresh>>

EndOfScan ==
  /\ tick.pc = "close" /\ tick.clearing = {} /\ tick.todo = {}
  /\ tick' = [IdleTick EXCEPT !.pc = "revalue", !.owed = tick.owed,
                              !.failed = tick.failed, !.affected = tick.affected]
  /\ UNCHANGED <<positionVars, index, redis, feedVars, refresh, due, faults>>

(* _push_account_updates for one liquidated user: the snapshot, and if the *)
(* equity is at the floor the reset, which closes the user's other         *)
(* positions.  The reset of a connected holder who was not liquidated      *)
(* closes positions like their own UserClose.                              *)
RevalueUser(u) ==
  /\ tick.pc = "revalue" /\ tick.clearing = {}
  /\ u \in {Owner[p] : p \in tick.affected}
  /\ LET others == {p \in OpenPositions : Owner[p] = u}
     IN  \E closed \in {{}, others} :
           /\ status' = [p \in Pid |-> IF p \in closed THEN "terminal" ELSE status[p]]
           /\ tick' = [tick EXCEPT !.affected = {p \in @ : Owner[p] # u},
                                   !.clearing = closed]
  /\ due' = {p \in due : Owner[p] # u}
  /\ UNCHANGED <<adding, index, redis, feedVars, refresh, faults>>

(* A query of the scan, the snapshot of a user or their check raised:      *)
(* nothing catches it, and the users after this one are not revalued.      *)
TickFails ==
  /\ tick.pc # "idle" /\ tick.clearing = {} /\ Fault
  /\ AbortTick
  /\ UNCHANGED <<positionVars, index, redis, market, refresh, due>>

(* Slip: as if only holders on the pair were revalued, not also_users. *)
EndOfTickHoldersOnly ==
  /\ tick.pc = "revalue" /\ tick.clearing = {}
  /\ tick.affected \subseteq {p \in Pid : \A q \in OpenPositions : Owner[q] # Owner[p]}
  /\ tick' = IdleTick
  /\ UNCHANGED <<positionVars, index, redis, feedVars, refresh, due, faults>>

EndOfTick ==
  /\ tick.pc = "revalue" /\ tick.clearing = {} /\ tick.affected = {}
  /\ tick' = IdleTick
  /\ UNCHANGED <<positionVars, index, redis, feedVars, refresh, due, faults>>

-----------------------------------------------------------------------------
(* reconcile, once per leaderboard refresh and at start-up.                *)

(* Slip: as if the index were rebuilt from itself. *)
ReconcileReadIndexed ==
  /\ refresh.pc = "sleep"
  /\ refresh' = [pc |-> "write", rows |-> index \cap OpenPositions]
  /\ UNCHANGED <<positionVars, index, redis, feedVars, tick, due, faults>>

ReconcileRead ==
  /\ refresh.pc = "sleep"
  /\ refresh' = [pc |-> "write", rows |-> OpenPositions]
  /\ UNCHANGED <<positionVars, index, redis, feedVars, tick, due, faults>>

(* Slip: as if the pipeline only deleted, for want of an `if ids`. *)
ReconcileDeletes ==
  /\ refresh.pc = "write"
  /\ index' = IF redis THEN index \cap refresh.rows ELSE index
  /\ refresh' = Asleep
  /\ UNCHANGED <<positionVars, redis, feedVars, tick, due, faults>>

(* DEL and SADD in one MULTI; when Redis errs the cycle is over and the    *)
(* next one tries again.                                                   *)
ReconcileWrite ==
  /\ refresh.pc = "write"
  /\ index' = IF redis THEN refresh.rows ELSE index
  /\ refresh' = Asleep
  /\ UNCHANGED <<positionVars, redis, feedVars, tick, due, faults>>

-----------------------------------------------------------------------------
(* The environment.                                                        *)

RedisFails ==
  /\ redis /\ Fault
  /\ redis' = FALSE
  /\ UNCHANGED <<positionVars, index, feedVars, tick, refresh, due>>

(* Redis comes back with its data or without. *)
RedisRecovers ==
  /\ ~redis
  /\ redis' = TRUE
  /\ index' \in {index, {}}
  /\ UNCHANGED <<positionVars, feedVars, tick, refresh, due, faults>>

(* The process dies and starts again: everything in memory is gone. *)
Restart ==
  /\ Fault
  /\ adding' = {}
  /\ queue' = <<>> /\ conn' = FALSE
  /\ tick' = IdleTick
  /\ refresh' = Asleep
  /\ UNCHANGED <<status, index, redis, market, due>>

Handler ==
  \/ HandleTick \/ LiquidationCandidates \/ ScanRows \/ EndOfScan \/ EndOfTick
  \/ \E p \in Pid : CloseCrossed(p)
  \/ \E u \in {Owner[p] : p \in Pid} : RevalueUser(u)

IndexOps == \E p \in Pid : AddOpenPosition(p) \/ RemoveOpenPosition(p)

Feed == Connect \/ \E m \in Mark : ReceiveTick(m)

Refresh == ReconcileRead \/ ReconcileWrite

Next ==
  \/ \E p \in Pid : OpenPosition(p) \/ UserClose(p) \/ CloseFails(p)
  \/ IndexOps \/ Handler \/ Refresh \/ Feed
  \/ Disconnect \/ TickFails
  \/ RedisFails \/ RedisRecovers \/ Restart

Spec == Init /\ [][Next]_vars

(* The event loop runs every task whose await is over, the backoff and the *)
(* refresh interval end, an outage ends, and an open market keeps          *)
(* trading.  Nothing is asked of users or faults.                          *)
FairSpec ==
  /\ Spec
  /\ WF_vars(Handler) /\ WF_vars(Refresh) /\ WF_vars(IndexOps)
  /\ WF_vars(Feed) /\ WF_vars(RedisRecovers)

-----------------------------------------------------------------------------
(* Types. *)
TypeOK ==
  /\ status \in [Pid -> {"none", "open", "terminal"}]
  /\ index \subseteq Pid /\ adding \subseteq Pid
  /\ due \subseteq Pid
  /\ redis \in BOOLEAN
  /\ market \in Mark /\ queue \in Seq(Mark)
  /\ conn \in BOOLEAN
  /\ faults \in 0..MaxFaults
  /\ tick \in [pc : {"idle", "candidates", "rows", "close", "revalue"},
               mark : Nat, fallback : BOOLEAN,
               held : SUBSET Pid, owed : SUBSET Pid, seen : SUBSET Pid,
               todo : SUBSET Pid, failed : SUBSET Pid, clearing : SUBSET Pid, affected : SUBSET Pid]
  /\ refresh \in [pc : {"sleep", "write"}, rows : SUBSET Pid]

(* The liquidation pass of a tick is over only when each candidate of the  *)
(* scan is closed (by the handler or somebody else), spared by the mark,   *)
(* or has raised an error of its own: one failed close does not cost the   *)
(* others theirs.  When Redis fails between the cache write and the scan   *)
(* that goes for every position open at the tick, indexed or not.          *)
ScanLeavesNone ==
  [][tick.pc = "close" /\ tick'.pc = "revalue" =>
       \A p \in tick.seen \cup (IF tick.fallback THEN tick.held ELSE {}) :
         Crossed(p, tick.mark) /\ status[p] = "open" => p \in tick.failed]_vars

(* A tick that runs to its end (the connection is still up) has made the   *)
(* bankruptcy check of every user it liquidated, connected or not and open *)
(* positions left or not: who is unchecked after it was so before it, or   *)
(* their close raised after its commit.  A tick cut short, by an exception *)
(* for one of its users or by a restart, promises nothing.                 *)
LiquidatedIsReviewed ==
  [][tick.pc = "revalue" /\ tick'.pc = "idle" /\ conn' =>
       due' \subseteq tick.owed \cup tick.failed]_vars

(* A position does not stay open for ever at a market beyond its           *)
(* liquidation price: outages, lost index entries, failed closes, dropped  *)
(* connections and restarts only delay its close.                          *)
CrossedFalls ==
  \A p \in Pid : []<>~(status[p] = "open" /\ Crossed(p, market))

(* What the index lost - an SADD Redis missed, a set Redis forgot, an      *)
(* entry a concurrent reconcile wiped - reconcile restores.                *)
IndexHeals ==
  \A p \in Pid : []<>(p \in index \/ status[p] # "open")

=============================================================================
