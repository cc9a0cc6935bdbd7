------------------------------ MODULE Candles -------------------------------
(***************************************************************************)
(* The candles of one pair and interval: the forming bar and the history   *)
(* in Redis, the stream that keeps the first and the requests that fill    *)
(* the second.                                                             *)
(*                                                                         *)
(* Time is counted in instants, Bucket of them to a bar, with a trade in   *)
(* each.  A bar is its bucket and the last instant it includes, so what    *)
(* Kraken knows at an instant t is Bar(t \div Bucket, t), and a bar is     *)
(* closed for good when it includes the last instant of its bucket.        *)
(*                                                                         *)
(* The forming key has two writers.  handle_candle reads it and, awaits    *)
(* later, writes it: read -> finalise (a roll only) -> write -> publish.   *)
(* get_candles, on a miss, writes what Kraken answered some time ago:      *)
(* history -> fetch -> split -> store -> (forming) -> merge.  Nothing the  *)
(* code sets bounds how long that is: httpx's timeout is one of inactivity, *)
(* and every access to Redis is awaited.                                   *)
(***************************************************************************)
EXTENDS Integers, Sequences, FiniteSetsExt, Functions

CONSTANTS
  Bucket,        \* instants in a bar
  Start,         \* the instant the service starts
  Horizon,       \* bound: the last instant
  HistoryTtl,    \* candle_history_ttl_seconds in instants
  Provided,      \* closed bars a REST answer carries
  Limit,         \* limits callers ask for: candle_history_limit at most, which
                 \* is less than an answer carries
  Reader,        \* GET /candles requests
  QueueCap,      \* bound: frames waiting in the socket
  None

ASSUME CandleAssumption ==
  /\ Bucket \in Nat \ {0} /\ Provided \in Nat \ {0}
  /\ Start \in Nat /\ Start >= Provided * Bucket
  /\ Horizon \in Nat /\ Horizon >= Start
  /\ HistoryTtl \in Nat
  /\ Limit \subseteq 1..Provided
  /\ QueueCap \in Nat \ {0}

VARIABLES
  now,      \* the present instant
  frames,   \* bars received over the WebSocket and not handled
  forming,  \* Redis candles:forming
  history,  \* Redis candles:history: bars lo..hi, the last one as of `last`; set
            \* at `at`, from an answer made at `asOf` and split at `split` (history)
  handler,  \* handle_candle: where it stands and its locals
  reader,   \* each request: where it stands and its locals; `since` is the
            \* instant it got its history, from Redis or by splitting an answer,
            \* and `answer` the number of bars it was answered with
  shown,    \* clients: the newest content broadcast of each bucket, and the
            \* largest step back a broadcast has made
  stalest   \* history: the oldest a backfill's row was when it was written to
            \* the forming key

vars == <<now, frames, forming, history, handler, reader, shown, stalest>>

Instant == Start..Horizon
BucketOf(t) == t \div Bucket
LastInstant(b) == b * Bucket + Bucket - 1
Bar(b, t) == [bucket |-> b, upTo |-> Min({t, LastInstant(b)})]
Bars == {Bar(BucketOf(t), t) : t \in 0..Horizon}

Idle == [pc |-> "idle", frame |-> None, prev |-> None]
Unasked == [pc |-> "new", limit |-> 0, asOf |-> 0, since |-> 0, history |-> None, answer |-> 0]

Init ==
  /\ now = Start
  /\ frames = <<>> /\ forming = None /\ history = None
  /\ handler = Idle
  /\ reader = [r \in Reader |-> Unasked]
  /\ shown = [newest |-> [b \in 0..BucketOf(Horizon) |-> 0], back |-> 0]
  /\ stalest = 0

-----------------------------------------------------------------------------
(* Kraken and time.                                                        *)

(* Slip: as if the history were set without `ex`. *)
PassNoExpiry ==
  /\ now < Horizon
  /\ now' = now + 1
  /\ UNCHANGED <<frames, forming, history, handler, reader, shown, stalest>>

(* The history goes when its time to live is over. *)
Pass ==
  /\ now < Horizon
  /\ now' = now + 1
  /\ history' = IF history # None /\ now + 1 - history.at > HistoryTtl THEN None ELSE history
  /\ UNCHANGED <<frames, forming, handler, reader, shown, stalest>>

(* An ohlc frame: the present bar, after every trade or after some. *)
ReceiveFrame ==
  /\ Len(frames) < QueueCap
  /\ LET bar == Bar(BucketOf(now), now)
     IN  /\ bar \notin Range(frames)
         /\ frames' = Append(frames, bar)
  /\ UNCHANGED <<now, forming, history, handler, reader, shown, stalest>>

(* The connection drops, or Redis refuses the forming bar and handle_candle *)
(* raises: what was in the socket is lost with the connection.             *)
DropFrames ==
  /\ \/ frames # <<>> /\ handler.pc = "idle"
     \/ handler.pc = "write"
  /\ frames' = <<>>
  /\ handler' = Idle
  /\ UNCHANGED <<now, forming, history, reader, shown, stalest>>

(* candle_forming_ttl_seconds without a write. *)
ExpireForming ==
  /\ forming # None
  /\ forming' = None
  /\ UNCHANGED <<now, frames, history, handler, reader, shown, stalest>>

-----------------------------------------------------------------------------
(* handle_candle.                                                          *)

Broadcast(bar) ==
  shown' = [newest |-> [shown.newest EXCEPT ![bar.bucket] = Max({@, bar.upTo})],
            back |-> Max({shown.back, shown.newest[bar.bucket] - bar.upTo})]

FormingBucket == IF forming = None THEN -1 ELSE forming.bucket

(* A frame of a bucket before the tracked one is left aside. *)
ReadForming ==
  /\ handler.pc = "idle" /\ frames # <<>>
  /\ frames' = Tail(frames)
  /\ LET frame == Head(frames)
     IN  \/ /\ FormingBucket \in {-1, frame.bucket}
            /\ handler' = [pc |-> "write", frame |-> frame, prev |-> None]
         \/ /\ FormingBucket \in 0..(frame.bucket - 1)
            /\ handler' = [pc |-> "finalise", frame |-> frame, prev |-> forming]
         \/ /\ FormingBucket > frame.bucket
            /\ handler' = Idle
  /\ UNCHANGED <<now, forming, history, reader, shown, stalest>>

(* A roll: the bar tracked so far goes out as closed. *)
Finalise ==
  /\ handler.pc = "finalise"
  /\ Broadcast(handler.prev)
  /\ handler' = [handler EXCEPT !.pc = "write"]
  /\ UNCHANGED <<now, frames, forming, history, reader, stalest>>

(* Slip: as if the key were only set when the bucket has none yet. *)
WriteFormingOnce ==
  /\ handler.pc = "write"
  /\ forming' = IF FormingBucket = handler.frame.bucket THEN forming ELSE handler.frame
  /\ handler' = [handler EXCEPT !.pc = "publish"]
  /\ UNCHANGED <<now, frames, history, reader, shown, stalest>>

WriteForming ==
  /\ handler.pc = "write"
  /\ forming' = handler.frame
  /\ handler' = [handler EXCEPT !.pc = "publish"]
  /\ UNCHANGED <<now, frames, history, reader, shown, stalest>>

(* The first frame of a bucket always goes out; later ones at most one a   *)
(* second.                                                                 *)
Publish ==
  /\ handler.pc = "publish"
  /\ \/ Broadcast(handler.frame)
     \/ handler.prev = None /\ UNCHANGED shown
  /\ handler' = Idle
  /\ UNCHANGED <<now, frames, forming, history, reader, stalest>>

-----------------------------------------------------------------------------
(* get_candles.  A Redis error is not caught: the request ends, and what   *)
(* it has written so far stays.                                            *)

Fail(r) == reader' = [reader EXCEPT ![r] = Unasked]

(* The cached history, or a request to Kraken. *)
ReadHistory(r, limit) ==
  /\ reader[r].pc \in {"new", "answered"}
  /\ reader' = [reader EXCEPT ![r] = [Unasked EXCEPT !.pc = IF history = None THEN "fetch" ELSE "merge",
                                               !.limit = limit, !.history = history,
                                               !.since = IF history = None THEN 0 ELSE now]]
  /\ UNCHANGED <<now, frames, forming, history, handler, shown, stalest>>

(* Kraken makes its answer, or the request fails. *)
Fetch(r) ==
  /\ reader[r].pc = "fetch"
  /\ \/ reader' = [reader EXCEPT ![r].pc = "split", ![r].asOf = now]
     \/ Fail(r)
  /\ UNCHANGED <<now, frames, forming, history, handler, shown, stalest>>

(* Slip: as if the last row were never peeled off. *)
PeeledNever(asOf, at) == FALSE

(* _split_forming: the last row is the forming bar if its bucket is not    *)
(* over by the clock of the server when the answer has come.               *)
Peeled(asOf, at) == LastInstant(BucketOf(asOf)) >= at

(* Slip: as if the row peeled off had been the first. *)
ClosedUnclamped(asOf, at) ==
  [lo |-> BucketOf(asOf) - Provided, hi |-> BucketOf(asOf) - 1, last |-> asOf,
   asOf |-> asOf, split |-> at, at |-> at]

(* The closed rows of an answer split at instant `at`. *)
Closed(asOf, at) ==
  LET hi == IF Peeled(asOf, at) THEN BucketOf(asOf) - 1 ELSE BucketOf(asOf)
  IN  [lo |-> BucketOf(asOf) - Provided, hi |-> hi, last |-> Min({asOf, LastInstant(hi)}),
       asOf |-> asOf, split |-> at, at |-> at]

(* The answer has come, and the clock is read. *)
SplitForming(r) ==
  /\ reader[r].pc = "split"
  /\ reader' = [reader EXCEPT ![r].pc = "store", ![r].since = now, ![r].asOf = 0,
                              ![r].history = Closed(reader[r].asOf, now)]
  /\ UNCHANGED <<now, frames, forming, history, handler, shown, stalest>>

(* set_cached_history: the newest `limit` of the closed bars, to live from *)
(* now.  A row peeled off comes next.                                      *)
StoreHistory(r) ==
  /\ reader[r].pc = "store"
  /\ LET own == reader[r].history
     IN  \/ /\ history' = [own EXCEPT !.lo = Max({@, own.hi - reader[r].limit + 1}), !.at = now]
            /\ reader' = [reader EXCEPT
                 ![r].pc = IF own.hi < BucketOf(own.asOf) THEN "forming" ELSE "merge"]
         \/ Fail(r) /\ UNCHANGED history
  /\ UNCHANGED <<now, frames, forming, handler, shown, stalest>>

(* The row peeled off goes to the forming key, whatever is there by now. *)
StoreForming(r) ==
  /\ reader[r].pc = "forming"
  /\ LET asOf == reader[r].history.asOf
     IN  \/ /\ forming' = Bar(BucketOf(asOf), asOf)
            /\ reader' = [reader EXCEPT ![r].pc = "merge"]
            /\ stalest' = Max({stalest, now - asOf})
         \/ Fail(r) /\ UNCHANGED <<forming, stalest>>
  /\ UNCHANGED <<now, frames, history, handler, shown>>

(* Slip: off by one in the slice. *)
MergedOneShort(own, limit) ==
  LET all == own.lo..own.hi \cup {b \in {FormingBucket} : b > own.hi}
  IN  {b \in all : Cardinality({c \in all : c >= b}) < limit}

(* The newest `limit` of the history and the forming bar, which counts     *)
(* unless it is older; it takes the place of the history's bar of its      *)
(* bucket.                                                                 *)
Merged(own, limit) ==
  LET all == own.lo..own.hi \cup {b \in {FormingBucket} : b >= own.hi}
  IN  {b \in all : Cardinality({c \in all : c > b}) < limit}

Merge(r) ==
  /\ reader[r].pc = "merge"
  /\ \/ reader' = [reader EXCEPT ![r] =
           [Unasked EXCEPT !.pc = "answered",
                           !.answer = Cardinality(Merged(reader[r].history, reader[r].limit))]]
     \/ Fail(r)
  /\ UNCHANGED <<now, frames, forming, history, handler, shown, stalest>>

Next ==
  \/ Pass \/ ReceiveFrame \/ DropFrames \/ ExpireForming
  \/ ReadForming \/ Finalise \/ WriteForming \/ Publish
  \/ \E r \in Reader : \/ \E limit \in Limit : ReadHistory(r, limit)
                       \/ Fetch(r) \/ SplitForming(r) \/ StoreHistory(r) \/ StoreForming(r)
                       \/ Merge(r)

Spec == Init /\ [][Next]_vars

-----------------------------------------------------------------------------
(* Types. *)
TypeOK ==
  /\ now \in Instant
  /\ frames \in Seq(Bars) /\ forming \in Bars \cup {None}
  /\ history # None => /\ history.lo <= history.hi
                       /\ history.last \in 0..LastInstant(history.hi)
                       /\ history.at \in Instant
  /\ handler \in [pc : {"idle", "finalise", "write", "publish"},
                  frame : Bars \cup {None}, prev : Bars \cup {None}]
  /\ shown.back \in Nat
  /\ stalest \in Nat

(* Clients are never sent a bar that lacks more of what they have already  *)
(* been sent of its bucket than a backfill's row was old when it was       *)
(* written over the stream's bar, however late its frames are: no backfill, *)
(* no step back.                                                           *)
BarsHardlyGoBack == shown.back <= stalest

(* A bar the history keeps as closed may lack trades - the bucket ended    *)
(* while Kraken's answer was on its way - but only of the instants at its  *)
(* end for which that answer was on its way.                               *)
HistoryNearlyClosed ==
  history # None =>
    LastInstant(history.hi) - history.last < Max({history.split - history.asOf, 1})

(* Between the history a request got and the forming bar it appends to it  *)
(* there are no more bars missing than begin while the history lives, while *)
(* Kraken's answer was on its way to the cache, and while it is merged: a  *)
(* bar that closes is not served until the history is fetched again.       *)
GapBounded ==
  \A r \in Reader : reader[r].pc = "merge" /\ forming # None =>
    LET own == reader[r].history
    IN  (forming.bucket - own.hi - 1) * Bucket
          < Bucket + HistoryTtl + (own.at - own.asOf) + (now - reader[r].since)

(* An answer is as long as its caller asked, or as long as the most modest *)
(* caller asked: the one whose limit trimmed the history all of them are   *)
(* served from.                                                            *)
AnswerNotShort ==
  \A r \in Reader : reader[r].pc = "answered" => reader[r].answer >= Min(Limit)

=============================================================================
