--------------------------- MODULE Candles_proofs ---------------------------
(***************************************************************************)
(* Proofs about Candles, for bars, times to live and delays of any length, *)
(* any number of requests and any bounds.                                  *)
(***************************************************************************)
EXTENDS Candles, FiniteSetTheorems, WellFoundedInduction, TLAPS

LEMMA MinOfTwo ==
  ASSUME NEW a \in Int, NEW b \in Int
  PROVE  Min({a, b}) = IF a <= b THEN a ELSE b
  <1> DEFINE m == IF a <= b THEN a ELSE b
  <1>1. m \in {a, b} /\ \A y \in {a, b} : m <= y
    OBVIOUS
  <1>2. \A x \in {a, b} : (\A y \in {a, b} : x <= y) => x = m
    OBVIOUS
  <1> QED BY <1>1, <1>2 DEF Min

LEMMA MaxOfTwo ==
  ASSUME NEW a \in Int, NEW b \in Int
  PROVE  Max({a, b}) = IF a <= b THEN b ELSE a
  <1> DEFINE m == IF a <= b THEN b ELSE a
  <1>1. m \in {a, b} /\ \A y \in {a, b} : m >= y
    OBVIOUS
  <1>2. \A x \in {a, b} : (\A y \in {a, b} : x >= y) => x = m
    OBVIOUS
  <1> QED BY <1>1, <1>2 DEF Max

(* Some caller is the most modest: a set of naturals has a minimum.        *)
LEMMA MinOfNaturals ==
  ASSUME NEW S \in SUBSET Nat, NEW n \in S
  PROVE  Min(S) \in S /\ Min(S) <= n
  <1> DEFINE R == {ss \in Nat \X Nat : ss[1] < ss[2]}
  <1>1. IsWellFoundedOn(R, Nat)
    BY NatLessThanWellFounded DEF OpToRel
  <1>2. PICK x \in S : \A y \in S : <<y, x>> \notin R
    <2> HIDE DEF R
    <2> QED BY <1>1, WFMin
  <1>3. \A y \in S : x <= y
    <2> SUFFICES ASSUME NEW y \in S, ~(x <= y)
                 PROVE  <<y, x>> \in R
      BY <1>2
    <2> x \in Nat /\ y \in Nat /\ y < x
      OBVIOUS
    <2> QED OBVIOUS
  <1> QED BY <1>3 DEF Min

-----------------------------------------------------------------------------
(* Instants and bars.                                                      *)

(* The bucket of an instant is the one it falls in. *)
LEMMA BucketFacts ==
  ASSUME NEW t \in Int
  PROVE  /\ BucketOf(t) \in Int
         /\ BucketOf(t) * Bucket <= t
         /\ t < BucketOf(t) * Bucket + Bucket
         /\ t >= 0 => BucketOf(t) >= 0
  <1>1. Bucket \in Nat \ {0}
    BY CandleAssumption
  <1> QED BY <1>1 DEF BucketOf

LEMMA LastInstantFacts ==
  ASSUME NEW b \in Int
  PROVE  /\ b * Bucket \in Int
         /\ LastInstant(b) \in Int
         /\ LastInstant(b) = b * Bucket + Bucket - 1
  BY CandleAssumption DEF LastInstant

(* A later instant is in the same bucket or in a later one. *)
LEMMA BucketMonotone ==
  ASSUME NEW s \in Int, NEW t \in Int, s <= t
  PROVE  BucketOf(s) <= BucketOf(t)
  <1>1. Bucket \in Nat \ {0}
    BY CandleAssumption
  <1>2. /\ BucketOf(s) \in Int /\ BucketOf(t) \in Int
        /\ BucketOf(s) * Bucket <= s /\ t < BucketOf(t) * Bucket + Bucket
    BY BucketFacts
  <1>3. BucketOf(s) * Bucket < (BucketOf(t) + 1) * Bucket
    BY <1>1, <1>2
  <1>4. \A a, b \in Int : a >= b => a * Bucket >= b * Bucket
    BY <1>1
  <1> QED BY <1>1, <1>2, <1>3, <1>4

(* The bucket of an instant is the only one it falls in. *)
LEMMA BucketIs ==
  ASSUME NEW t \in Int, NEW b \in Int, b * Bucket <= t, t <= LastInstant(b)
  PROVE  BucketOf(t) = b
  <1>1. Bucket \in Nat \ {0}
    BY CandleAssumption
  <1>2. /\ BucketOf(t) \in Int
        /\ BucketOf(t) * Bucket <= t /\ t < BucketOf(t) * Bucket + Bucket
    BY BucketFacts
  <1>3. LastInstant(b) = b * Bucket + Bucket - 1 /\ b * Bucket \in Int
    BY LastInstantFacts
  <1>4. BucketOf(t) * Bucket \in Int
    BY <1>1, <1>2
  <1>5. /\ BucketOf(t) * Bucket < b * Bucket + Bucket
        /\ b * Bucket < BucketOf(t) * Bucket + Bucket
    BY <1>1, <1>2, <1>3, <1>4
  <1>6. \A a, c \in Int : a > c => a * Bucket >= c * Bucket + Bucket
    <2> SUFFICES ASSUME NEW a \in Int, NEW c \in Int, a > c
                 PROVE  a * Bucket >= c * Bucket + Bucket
      OBVIOUS
    <2>1. a * Bucket >= (c + 1) * Bucket
      BY <1>1
    <2> QED BY <1>1, <2>1
  <1> QED BY <1>1, <1>2, <1>3, <1>4, <1>5, <1>6

(* What Kraken knows at an instant includes that instant. *)
LEMMA BarAt ==
  ASSUME NEW t \in Nat
  PROVE  Bar(BucketOf(t), t) = [bucket |-> BucketOf(t), upTo |-> t]
  <1>1. BucketOf(t) \in Int /\ t < BucketOf(t) * Bucket + Bucket
    BY BucketFacts
  <1>2. LastInstant(BucketOf(t)) \in Int /\ t <= LastInstant(BucketOf(t))
    BY <1>1, LastInstantFacts, CandleAssumption
  <1>3. Min({t, LastInstant(BucketOf(t))}) = t
    BY <1>2, MinOfTwo
  <1> QED BY <1>3 DEF Bar

LEMMA BarFacts ==
  ASSUME NEW bar \in Bars
  PROVE  /\ bar.upTo \in 0..Horizon
         /\ bar.bucket = BucketOf(bar.upTo)
         /\ bar.bucket \in 0..BucketOf(Horizon)
  <1>1. PICK t \in 0..Horizon : bar = Bar(BucketOf(t), t)
    BY DEF Bars
  <1>2. bar = [bucket |-> BucketOf(t), upTo |-> t]
    BY <1>1, BarAt, CandleAssumption
  <1>3. /\ BucketOf(t) \in Int /\ BucketOf(t) >= 0
        /\ BucketOf(Horizon) \in Int /\ BucketOf(t) <= BucketOf(Horizon)
    BY BucketFacts, BucketMonotone, CandleAssumption
  <1> QED BY <1>2, <1>3

LEMMA BarInBars ==
  ASSUME NEW t \in Nat, t <= Horizon
  PROVE  /\ Bar(BucketOf(t), t) \in Bars
         /\ Bar(BucketOf(t), t).bucket = BucketOf(t)
         /\ Bar(BucketOf(t), t).upTo = t
  BY BarAt, CandleAssumption DEF Bars

(* Of two bars that follow one another, the later is of the same bucket or *)
(* of a later one.                                                         *)
LEMMA BarsOrdered ==
  ASSUME NEW a \in Bars, NEW b \in Bars, a.upTo <= b.upTo
  PROVE  a.bucket <= b.bucket
  BY BarFacts, BucketMonotone, CandleAssumption

-----------------------------------------------------------------------------
(* The inductive invariant.                                                *)

HistoryRow == [lo : Int, hi : Int, last : Int, asOf : Int, split : Int, at : Int]

(* The types TypeOK leaves out. *)
MoreTypes ==
  /\ shown.newest \in [0..BucketOf(Horizon) -> Nat]
  /\ shown = [newest |-> shown.newest, back |-> shown.back]
  /\ history \in HistoryRow \cup {None}
  /\ reader \in [Reader -> [pc : {"new", "fetch", "split", "store", "forming", "merge", "answered"},
                           limit : Nat, asOf : Int, since : Int,
                           history : HistoryRow \cup {None}, answer : Nat]]

(* What handle_candle works on: the frame and, for a roll, the bar before. *)
Handling == handler.pc # "idle"
Rolling == handler.pc = "finalise"

(* The stream is in order: the frame being handled, then the queue, and    *)
(* nothing later than the present.                                         *)
StreamInOrder ==
  /\ \A i \in 1..Len(frames) : frames[i].upTo <= now
  /\ \A i, j \in 1..Len(frames) : i <= j => frames[i].upTo <= frames[j].upTo
  /\ Handling => /\ handler.frame \in Bars /\ handler.frame.upTo <= now
                 /\ \A i \in 1..Len(frames) : handler.frame.upTo <= frames[i].upTo
  /\ Rolling => /\ handler.prev \in Bars /\ handler.prev.upTo <= now
                /\ handler.prev.bucket < handler.frame.bucket
  /\ forming # None => forming.upTo <= now

(* A frame never lacks anything clients have seen of its bucket; the       *)
(* tracked bar, which a backfill may have written over, and the bar a roll *)
(* is about to send lack no more of it than the stalest backfill did.      *)
SeenNearly ==
  /\ \A b \in 0..BucketOf(Horizon) : shown.newest[b] <= now
  /\ \A i \in 1..Len(frames) : shown.newest[frames[i].bucket] <= frames[i].upTo
  /\ Handling => shown.newest[handler.frame.bucket] <= handler.frame.upTo
  /\ Rolling => shown.newest[handler.prev.bucket] <= handler.prev.upTo + stalest
  /\ forming # None =>
       /\ shown.newest[forming.bucket] <= forming.upTo + stalest
       /\ Rolling /\ handler.prev.bucket = forming.bucket =>
            handler.prev.upTo <= forming.upTo + stalest
       /\ handler.pc = "publish" /\ handler.frame.bucket = forming.bucket =>
            handler.frame.upTo <= forming.upTo + stalest

(* An answer split in time or late: it has closed bars, the last of them   *)
(* complete but for what happened while the answer was on its way, none    *)
(* missing between them and the answer, and enough for one caller at least. *)
LongEnough(row) == \E limit \in Limit : limit <= row.hi - row.lo + 1

RowOK(row) ==
  /\ row \in HistoryRow
  /\ row.lo <= row.hi /\ row.last \in 0..LastInstant(row.hi)
  /\ Start <= row.asOf /\ row.asOf <= row.split /\ row.split <= row.at
  /\ row.asOf <= LastInstant(row.hi + 1)
  /\ LastInstant(row.hi) - row.last < Max({row.split - row.asOf, 1})
  /\ LongEnough(row)

(* The cached history is younger than its time to live. *)
HistoryFresh ==
  history # None => RowOK(history) /\ history.at <= now /\ now - history.at <= HistoryTtl

(* A request has its history from an answer it split, or from the cache    *)
(* while that history lived.                                               *)
ReaderInv(r) ==
  /\ reader[r].pc \in {"fetch", "split", "store", "forming", "merge"} => reader[r].limit \in Limit
  /\ reader[r].pc = "split" => Start <= reader[r].asOf /\ reader[r].asOf <= now
  /\ reader[r].pc \in {"store", "forming", "merge"} =>
       /\ RowOK(reader[r].history) /\ reader[r].history.at <= now
       /\ reader[r].since <= now /\ reader[r].since - reader[r].history.at <= HistoryTtl
  /\ reader[r].pc = "answered" => reader[r].answer >= Min(Limit)

Inv ==
  /\ TypeOK /\ MoreTypes
  /\ StreamInOrder /\ SeenNearly /\ shown.back <= stalest
  /\ HistoryFresh /\ \A r \in Reader : ReaderInv(r)

LEMMA InitInv == Init => Inv
  <1> SUFFICES ASSUME Init PROVE Inv
    OBVIOUS
  <1> USE CandleAssumption DEF Init, Idle, Unasked
  <1>1. BucketOf(Horizon) \in Int /\ now \in Instant
    BY BucketFacts DEF Instant
  <1>2. TypeOK
    BY <1>1 DEF TypeOK
  <1>3. MoreTypes
    BY <1>1 DEF MoreTypes
  <1>4. StreamInOrder
    BY DEF StreamInOrder, Handling, Rolling
  <1>5. SeenNearly /\ shown.back <= stalest
    BY <1>1 DEF SeenNearly, Handling, Rolling, Instant
  <1>6. HistoryFresh
    BY DEF HistoryFresh
  <1>7. \A r \in Reader : ReaderInv(r)
    BY DEF ReaderInv
  <1> QED BY <1>2, <1>3, <1>4, <1>5, <1>6, <1>7 DEF Inv

-----------------------------------------------------------------------------
(* The stream.                                                             *)

(* The answer whose forming row is to be stored was made in the past. *)
LEMMA RowsPast ==
  ASSUME Inv, NEW r \in Reader, reader[r].pc = "forming"
  PROVE  /\ reader[r].history.asOf \in Nat /\ reader[r].history.asOf <= now
         /\ reader[r].history.asOf <= Horizon
  <1>1. RowOK(reader[r].history) /\ reader[r].history.at <= now /\ now \in Instant
    BY DEF Inv, ReaderInv, TypeOK
  <1> QED BY <1>1, CandleAssumption DEF RowOK, HistoryRow, Instant

(* The step of the steps that are not handle_candle's or Kraken's. *)
StreamUntouched == UNCHANGED <<now, frames, forming, handler>>

LEMMA StreamStep ==
  Inv /\ [Next]_vars => StreamInOrder'
  <1> SUFFICES ASSUME Inv, [Next]_vars
               PROVE  StreamInOrder'
    OBVIOUS
  <1> USE CandleAssumption
  <1>1. /\ now \in Instant /\ now \in Nat
        /\ frames \in Seq(Bars) /\ Len(frames) \in Nat
        /\ forming \in Bars \cup {None}
        /\ handler \in [pc : {"idle", "finalise", "write", "publish"},
                        frame : Bars \cup {None}, prev : Bars \cup {None}]
        /\ \A bar \in Bars : bar.upTo \in Int /\ bar.bucket \in Int
    BY BarFacts DEF Inv, TypeOK, Instant
  <1>2. StreamInOrder
    BY DEF Inv
  <1> USE <1>1, <1>2 DEF Handling, Rolling
  <1>3. CASE Pass
    <2>1. now' = now + 1 /\ UNCHANGED <<frames, forming, handler>>
      BY <1>3 DEF Pass
    <2>2. \A t \in Int : t <= now => t <= now + 1
      OBVIOUS
    <2>3. \A i \in 1..Len(frames) : frames[i].upTo \in Int
      OBVIOUS
    <2> QED BY <2>1, <2>2, <2>3 DEF StreamInOrder
  <1>4. CASE ReceiveFrame
    <2> DEFINE bar == Bar(BucketOf(now), now)
    <2>1. bar \in Bars /\ bar.upTo = now
      BY BarInBars DEF Instant
    <2>2. frames' = Append(frames, bar) /\ UNCHANGED <<now, forming, handler>>
      BY <1>4 DEF ReceiveFrame
    <2> HIDE DEF bar
    <2>3. /\ Len(frames') = Len(frames) + 1
          /\ \A i \in 1..Len(frames') : frames'[i] = IF i = Len(frames) + 1 THEN bar ELSE frames[i]
      BY <2>1, <2>2
    <2>4. /\ \A i \in 1..Len(frames) : frames[i] \in Bars /\ frames[i].upTo <= now
          /\ \A i, j \in 1..Len(frames) : i <= j => frames[i].upTo <= frames[j].upTo
      BY DEF StreamInOrder
    <2>5. \A i \in 1..Len(frames') : i = Len(frames) + 1 \/ i \in 1..Len(frames)
      BY <2>3
    <2>6. \A i \in 1..Len(frames') : frames'[i].upTo <= now /\ frames'[i].upTo \in Int
      BY <2>1, <2>3, <2>4, <2>5
    <2>7. \A i, j \in 1..Len(frames') : i <= j => frames'[i].upTo <= frames'[j].upTo
      <3> SUFFICES ASSUME NEW i \in 1..Len(frames'), NEW j \in 1..Len(frames'), i <= j
                   PROVE  frames'[i].upTo <= frames'[j].upTo
        OBVIOUS
      <3>1. CASE j = Len(frames) + 1
        BY <2>1, <2>3, <2>6, <3>1
      <3>2. CASE j # Len(frames) + 1
        <4>1. j \in 1..Len(frames) /\ i \in 1..Len(frames)
          BY <2>5, <3>2
        <4> QED BY <2>3, <2>4, <4>1
      <3> QED BY <3>1, <3>2
    <2>8. Handling => \A i \in 1..Len(frames') : handler.frame.upTo <= frames'[i].upTo
      <3> SUFFICES ASSUME Handling, NEW i \in 1..Len(frames')
                   PROVE  handler.frame.upTo <= frames'[i].upTo
        OBVIOUS
      <3>0. /\ handler.frame.upTo <= now
            /\ \A j \in 1..Len(frames) : handler.frame.upTo <= frames[j].upTo
        BY DEF StreamInOrder
      <3>1. CASE i = Len(frames) + 1
        BY ONLY <2>1, <2>3, <3>0, <3>1, i \in 1..Len(frames')
      <3>2. CASE i \in 1..Len(frames)
        <4>1. frames'[i] = frames[i]
          <5>1. i \in 1..Len(frames') /\ i # Len(frames) + 1
            BY ONLY <1>1, <3>2, i \in 1..Len(frames')
          <5> QED BY ONLY <2>3, <5>1
        <4> QED BY ONLY <3>0, <3>2, <4>1
      <3> QED BY <2>5, <3>1, <3>2
    <2> QED BY <2>2, <2>6, <2>7, <2>8 DEF StreamInOrder
  <1>5. CASE DropFrames
    BY <1>5 DEF DropFrames, Idle, StreamInOrder
  <1>6. CASE ExpireForming
    BY <1>6 DEF ExpireForming, StreamInOrder
  <1>7. CASE ReadForming
    <2> DEFINE frame == Head(frames)
    <2>1. /\ frames' = Tail(frames) /\ Len(frames) > 0 /\ UNCHANGED <<now, forming>>
          /\ handler' = Idle
             \/ handler' = [pc |-> "write", frame |-> frame, prev |-> None]
             \/ /\ handler' = [pc |-> "finalise", frame |-> frame, prev |-> forming]
                /\ forming # None /\ forming.bucket < frame.bucket
      BY <1>7 DEF ReadForming, FormingBucket
    <2>2. /\ Len(frames') = Len(frames) - 1
          /\ \A i \in 1..Len(frames') : frames'[i] = frames[i + 1] /\ i + 1 \in 1..Len(frames)
          /\ frame = frames[1] /\ 1 \in 1..Len(frames) /\ frame \in Bars
      BY <2>1
    <2> HIDE DEF frame
    <2>3. frame.upTo <= now /\ \A i \in 1..Len(frames') : frame.upTo <= frames'[i].upTo
      <3>1. frames[1].upTo <= now /\ \A j \in 1..Len(frames) : frames[1].upTo <= frames[j].upTo
        BY <2>2 DEF StreamInOrder
      <3> QED BY <2>2, <3>1
    <2>4. /\ \A i \in 1..Len(frames') : frames'[i].upTo <= now
          /\ \A i, j \in 1..Len(frames') : i <= j => frames'[i].upTo <= frames'[j].upTo
      <3>1. \A i, j \in 1..Len(frames) : i <= j => frames[i].upTo <= frames[j].upTo
        BY DEF StreamInOrder
      <3>2. \A i, j \in 1..Len(frames') : i <= j => i + 1 <= j + 1
        BY <2>2
      <3>3. \A i \in 1..Len(frames) : frames[i].upTo <= now
        BY DEF StreamInOrder
      <3> QED BY <2>2, <3>1, <3>2, <3>3
    <2>5. handler'.pc # "idle" => handler'.frame = frame
      BY <2>1 DEF Idle
    <2>6. handler'.pc = "finalise" =>
            handler'.prev = forming /\ forming # None /\ forming.bucket < frame.bucket
      BY <2>1 DEF Idle
    <2> QED BY <2>1, <2>2, <2>3, <2>4, <2>5, <2>6 DEF StreamInOrder
  <1>8. CASE Finalise
    BY <1>8 DEF Finalise, StreamInOrder
  <1>9. CASE WriteForming
    BY <1>9 DEF WriteForming, StreamInOrder
  <1>10. CASE Publish
    BY <1>10 DEF Publish, Idle, StreamInOrder
  <1>11. ASSUME NEW r \in Reader, StoreForming(r)
         PROVE  StreamInOrder'
    <2> DEFINE asOf == reader[r].history.asOf
    <2>1. asOf \in Nat /\ asOf <= now
      BY <1>11, RowsPast DEF StoreForming
    <2>2. Bar(BucketOf(asOf), asOf).upTo = asOf
      BY <2>1, BarInBars DEF Instant
    <2>3. /\ forming' = Bar(BucketOf(asOf), asOf) \/ UNCHANGED forming
          /\ UNCHANGED <<now, frames, handler>>
      BY <1>11 DEF StoreForming
    <2> HIDE DEF asOf
    <2> QED BY <2>1, <2>2, <2>3 DEF StreamInOrder
  <1>12. CASE StreamUntouched
    BY <1>12 DEF StreamUntouched, StreamInOrder
  <1> QED
    BY <1>3, <1>4, <1>5, <1>6, <1>7, <1>8, <1>9, <1>10, <1>11, <1>12
       DEF Next, vars, StreamUntouched, ReadHistory, Fetch, SplitForming, StoreHistory, Merge

-----------------------------------------------------------------------------
(* What clients have been sent.                                            *)

(* A broadcast is the newest of its bucket, or leaves a newer one there,   *)
(* and is counted if it steps further back than any before.                *)
LEMMA BroadcastFacts ==
  ASSUME TypeOK, MoreTypes, NEW bar \in Bars, Broadcast(bar)
  PROVE  /\ shown' = [newest |-> shown'.newest, back |-> shown'.back]
         /\ shown'.newest \in [0..BucketOf(Horizon) -> Nat]
         /\ \A b \in 0..BucketOf(Horizon) : b # bar.bucket => shown'.newest[b] = shown.newest[b]
         /\ bar.bucket \in 0..BucketOf(Horizon)
         /\ shown'.newest[bar.bucket] =
              IF shown.newest[bar.bucket] <= bar.upTo THEN bar.upTo ELSE shown.newest[bar.bucket]
         /\ shown'.back \in Nat
         /\ shown.back <= stalest /\ shown.newest[bar.bucket] <= bar.upTo + stalest =>
              shown'.back <= stalest
  <1> stalest \in Nat
    BY DEF TypeOK
  <1> DEFINE old == shown.newest[bar.bucket]
             new == IF old <= bar.upTo THEN bar.upTo ELSE old
  <1>1. /\ bar.bucket \in 0..BucketOf(Horizon) /\ bar.upTo \in Nat
        /\ old \in Nat /\ shown.back \in Nat
    <2>1. bar.bucket \in 0..BucketOf(Horizon) /\ bar.upTo \in 0..Horizon
      BY BarFacts
    <2>2. shown.newest \in [0..BucketOf(Horizon) -> Nat] /\ shown.back \in Nat
      BY DEF MoreTypes, TypeOK
    <2>3. bar.upTo \in Nat
      BY <2>1, CandleAssumption
    <2>4. old \in Nat
      BY <2>1, <2>2
    <2> HIDE DEF old
    <2> QED BY <2>1, <2>2, <2>3, <2>4
  <1>2. Max({old, bar.upTo}) = new
    BY <1>1, MaxOfTwo
  <1>3. Max({shown.back, old - bar.upTo}) =
          IF shown.back <= old - bar.upTo THEN old - bar.upTo ELSE shown.back
    BY <1>1, MaxOfTwo
  <1>4. shown' = [newest |-> [shown.newest EXCEPT ![bar.bucket] = new],
                  back |-> Max({shown.back, old - bar.upTo})]
    BY <1>2 DEF Broadcast
  <1>5. shown.newest \in [0..BucketOf(Horizon) -> Nat]
    BY DEF MoreTypes
  <1> HIDE DEF old
  <1>6. new \in Nat
    BY <1>1
  <1>7. /\ shown'.newest = [shown.newest EXCEPT ![bar.bucket] = new]
        /\ shown'.back = Max({shown.back, old - bar.upTo})
    BY <1>4
  <1>8. /\ shown'.back \in Nat
        /\ shown.back <= stalest /\ old <= bar.upTo + stalest =>
             shown'.back <= stalest
    BY <1>1, <1>3, <1>7, CandleAssumption
  <1>9. shown'.newest \in [0..BucketOf(Horizon) -> Nat]
    BY <1>1, <1>5, <1>6, <1>7
  <1>10. /\ shown'.newest[bar.bucket] = new
         /\ \A b \in 0..BucketOf(Horizon) : b # bar.bucket => shown'.newest[b] = shown.newest[b]
    BY <1>1, <1>5, <1>7
  <1>11. shown' = [newest |-> shown'.newest, back |-> shown'.back]
    BY <1>4
  <1>12. shown'.newest[bar.bucket] = IF old <= bar.upTo THEN bar.upTo ELSE old
    BY <1>10
  <1> HIDE DEF new
  <1>13. /\ shown'.newest[bar.bucket] =
              IF shown.newest[bar.bucket] <= bar.upTo THEN bar.upTo ELSE shown.newest[bar.bucket]
         /\ shown.back <= stalest /\ shown.newest[bar.bucket] <= bar.upTo + stalest =>
              shown'.back <= stalest
    BY <1>8, <1>12 DEF old
  <1>14. bar.bucket \in 0..BucketOf(Horizon) /\ shown'.back \in Nat
    BY <1>1, <1>8
  <1> QED BY ONLY <1>9, <1>10, <1>11, <1>13, <1>14

LEMMA SeenStep ==
  Inv /\ [Next]_vars => SeenNearly' /\ (shown.back <= stalest)'
  <1> SUFFICES ASSUME Inv, [Next]_vars
               PROVE  SeenNearly' /\ shown'.back <= stalest'
    OBVIOUS
  <1> USE CandleAssumption
  <1>1. /\ now \in Instant /\ now \in Nat /\ stalest \in Nat
        /\ frames \in Seq(Bars) /\ Len(frames) \in Nat
        /\ forming \in Bars \cup {None}
        /\ handler \in [pc : {"idle", "finalise", "write", "publish"},
                        frame : Bars \cup {None}, prev : Bars \cup {None}]
        /\ \A bar \in Bars : bar.upTo \in Int /\ bar.bucket \in 0..BucketOf(Horizon)
        /\ \A i \in 1..Len(frames) : frames[i] \in Bars
        /\ shown.newest \in [0..BucketOf(Horizon) -> Nat] /\ shown.back \in Nat
    BY BarFacts DEF Inv, TypeOK, MoreTypes, Instant
  <1>2. StreamInOrder /\ SeenNearly /\ shown.back <= stalest
    BY DEF Inv
  <1>0. \A b \in 0..BucketOf(Horizon) : shown.newest[b] \in Nat
    BY <1>1
  <1>a. BucketOf(Horizon) \in Int
    BY BucketFacts
  <1> USE <1>1, <1>2, <1>0, <1>a DEF Handling, Rolling
  <1>3. CASE Pass
    <2>1. now' = now + 1 /\ UNCHANGED <<frames, forming, handler, shown, stalest>>
      BY <1>3 DEF Pass
    <2>2. \A t \in Int : t <= now => t <= now + 1
      OBVIOUS
    <2> QED BY <2>1, <2>2 DEF SeenNearly
  <1>4. CASE ReceiveFrame
    <2> DEFINE bar == Bar(BucketOf(now), now)
    <2>1. bar \in Bars /\ bar.upTo = now
      BY BarInBars DEF Instant
    <2>2. frames' = Append(frames, bar) /\ UNCHANGED <<now, forming, handler, shown, stalest>>
      BY <1>4 DEF ReceiveFrame
    <2> HIDE DEF bar
    <2>3. /\ Len(frames') = Len(frames) + 1
          /\ \A i \in 1..Len(frames') : frames'[i] = IF i = Len(frames) + 1 THEN bar ELSE frames[i]
      BY <2>1, <2>2
    <2>4. shown.newest[bar.bucket] <= bar.upTo
      BY <2>1 DEF SeenNearly
    <2>5. \A i \in 1..Len(frames') : shown.newest[frames'[i].bucket] <= frames'[i].upTo
      <3>1. \A i \in 1..Len(frames) : shown.newest[frames[i].bucket] <= frames[i].upTo
        BY DEF SeenNearly
      <3>2. \A i \in 1..Len(frames') : i = Len(frames) + 1 \/ i \in 1..Len(frames)
        BY <2>3
      <3> QED BY <2>3, <2>4, <3>1, <3>2
    <2> QED BY <2>2, <2>5 DEF SeenNearly
  <1>5. CASE DropFrames
    BY <1>5 DEF DropFrames, Idle, SeenNearly
  <1>6. CASE ExpireForming
    BY <1>6 DEF ExpireForming, SeenNearly
  <1>7. CASE ReadForming
    <2> DEFINE frame == Head(frames)
    <2>1. /\ frames' = Tail(frames) /\ Len(frames) > 0 /\ UNCHANGED <<now, forming, shown, stalest>>
          /\ handler' = Idle
             \/ handler' = [pc |-> "write", frame |-> frame, prev |-> None]
             \/ /\ handler' = [pc |-> "finalise", frame |-> frame, prev |-> forming]
                /\ forming # None
      BY <1>7 DEF ReadForming, FormingBucket
    <2>2. /\ Len(frames') = Len(frames) - 1
          /\ \A i \in 1..Len(frames') : frames'[i] = frames[i + 1] /\ i + 1 \in 1..Len(frames)
          /\ frame = frames[1] /\ 1 \in 1..Len(frames) /\ frame \in Bars
      BY <2>1
    <2> HIDE DEF frame
    <2>3. \A i \in 1..Len(frames) : shown.newest[frames[i].bucket] <= frames[i].upTo
      BY DEF SeenNearly
    <2>4. \A i \in 1..Len(frames') : shown.newest[frames'[i].bucket] <= frames'[i].upTo
      BY <2>2, <2>3
    <2>5. handler'.pc # "idle" => handler'.frame = frame
      BY <2>1 DEF Idle
    <2>6. handler'.pc = "finalise" => handler'.prev = forming /\ forming # None
      BY <2>1 DEF Idle
    <2>7. handler'.pc # "publish"
      BY <2>1 DEF Idle
    <2>8. shown.newest[frame.bucket] <= frame.upTo
      BY <2>2, <2>3
    <2>9. forming # None => /\ shown.newest[forming.bucket] <= forming.upTo + stalest
                            /\ forming.upTo <= forming.upTo + stalest
      BY DEF SeenNearly
    <2> QED BY <2>1, <2>4, <2>5, <2>6, <2>7, <2>8, <2>9 DEF SeenNearly
  <1>8. CASE Finalise
    <2> DEFINE bar == handler.prev
    <2>1. /\ handler.pc = "finalise" /\ Broadcast(bar)
          /\ UNCHANGED <<now, frames, forming, stalest>>
          /\ handler'.pc = "write" /\ handler'.frame = handler.frame
      BY <1>8 DEF Finalise
    <2>2. /\ bar \in Bars /\ bar.upTo <= now /\ bar.bucket < handler.frame.bucket
          /\ handler.frame \in Bars
          /\ \A i \in 1..Len(frames) : handler.frame.upTo <= frames[i].upTo
      BY <2>1 DEF StreamInOrder
    <2>3. \A i \in 1..Len(frames) : handler.frame.bucket <= frames[i].bucket
      BY <2>2, BarsOrdered
    <2>4. \A i \in 1..Len(frames) : frames[i].bucket # bar.bucket
      BY <2>2, <2>3
    <2> HIDE DEF bar
    <2>5. /\ \A b \in 0..BucketOf(Horizon) : b # bar.bucket => shown'.newest[b] = shown.newest[b]
          /\ shown'.newest[bar.bucket] =
               IF shown.newest[bar.bucket] <= bar.upTo THEN bar.upTo ELSE shown.newest[bar.bucket]
          /\ shown.newest[bar.bucket] <= bar.upTo + stalest => shown'.back <= stalest
      BY <2>1, <2>2, BroadcastFacts DEF Inv
    <2>6. shown.newest[bar.bucket] <= bar.upTo + stalest
      BY <2>1 DEF SeenNearly, bar
    <2>7. \A b \in 0..BucketOf(Horizon) : shown'.newest[b] <= now
      BY <2>2, <2>5 DEF SeenNearly
    <2>8. \A i \in 1..Len(frames) : shown'.newest[frames[i].bucket] <= frames[i].upTo
      BY <2>4, <2>5 DEF SeenNearly
    <2>9. shown'.newest[handler.frame.bucket] <= handler.frame.upTo
      <3>1. handler.frame.bucket # bar.bucket
        BY <2>2
      <3> QED BY <2>1, <2>2, <2>5, <3>1 DEF SeenNearly
    <2>10. forming # None => shown'.newest[forming.bucket] <= forming.upTo + stalest
      <3>1. forming # None /\ bar.bucket = forming.bucket => bar.upTo <= forming.upTo + stalest
        BY <2>1 DEF SeenNearly, bar
      <3>2. forming # None => shown.newest[forming.bucket] <= forming.upTo + stalest
        BY DEF SeenNearly
      <3>3. forming # None => forming.bucket \in 0..BucketOf(Horizon)
        OBVIOUS
      <3>4. CASE forming # None /\ forming.bucket = bar.bucket
        BY <2>2, <2>5, <3>1, <3>2, <3>3, <3>4
      <3>5. CASE forming # None /\ forming.bucket # bar.bucket
        BY <2>5, <3>2, <3>3, <3>5
      <3> QED BY <3>4, <3>5
    <2> QED BY <2>1, <2>5, <2>6, <2>7, <2>8, <2>9, <2>10 DEF SeenNearly
  <1>9. CASE WriteForming
    <2>1. /\ handler.pc = "write" /\ forming' = handler.frame
          /\ handler'.pc = "publish" /\ handler'.frame = handler.frame
          /\ UNCHANGED <<now, frames, shown, stalest>>
      BY <1>9 DEF WriteForming
    <2>2. /\ handler.frame \in Bars /\ shown.newest[handler.frame.bucket] <= handler.frame.upTo
      BY <2>1 DEF SeenNearly, StreamInOrder
    <2>3. /\ shown.newest[handler.frame.bucket] <= handler.frame.upTo + stalest
          /\ handler.frame.upTo <= handler.frame.upTo + stalest
      BY <2>2
    <2> QED BY <2>1, <2>2, <2>3 DEF SeenNearly
  <1>10. CASE Publish
    <2> DEFINE bar == handler.frame
    <2>1. /\ handler.pc = "publish" /\ UNCHANGED <<now, frames, forming, stalest>>
          /\ handler'.pc = "idle"
          /\ Broadcast(bar) \/ UNCHANGED shown
      BY <1>10 DEF Publish, Idle
    <2>2. /\ bar \in Bars /\ bar.upTo <= now
          /\ \A i \in 1..Len(frames) : bar.upTo <= frames[i].upTo
          /\ shown.newest[bar.bucket] <= bar.upTo
      BY <2>1 DEF StreamInOrder, SeenNearly
    <2>3. forming # None /\ bar.bucket = forming.bucket => bar.upTo <= forming.upTo + stalest
      BY <2>1 DEF SeenNearly
    <2> HIDE DEF bar
    <2>4. CASE UNCHANGED shown
      BY <2>1, <2>4 DEF SeenNearly
    <2>5. CASE Broadcast(bar)
      <3>1. /\ \A b \in 0..BucketOf(Horizon) : b # bar.bucket => shown'.newest[b] = shown.newest[b]
            /\ shown'.newest[bar.bucket] =
                 IF shown.newest[bar.bucket] <= bar.upTo THEN bar.upTo ELSE shown.newest[bar.bucket]
            /\ shown.newest[bar.bucket] <= bar.upTo + stalest => shown'.back <= stalest
        BY <2>2, <2>5, BroadcastFacts DEF Inv
      <3>2. \A b \in 0..BucketOf(Horizon) : shown'.newest[b] <= now
        BY <2>2, <3>1 DEF SeenNearly
      <3>3. \A i \in 1..Len(frames) : shown'.newest[frames[i].bucket] <= frames[i].upTo
        BY <2>2, <3>1 DEF SeenNearly
      <3>4. forming # None => shown'.newest[forming.bucket] <= forming.upTo + stalest
        <4>1. forming # None => shown.newest[forming.bucket] <= forming.upTo + stalest
          BY DEF SeenNearly
        <4> QED BY <2>2, <2>3, <3>1, <4>1
      <3>5. shown'.back <= stalest
        BY <2>2, <3>1
      <3> QED BY <2>1, <3>2, <3>3, <3>4, <3>5 DEF SeenNearly
    <2> QED BY <2>1, <2>4, <2>5
  <1>11. ASSUME NEW r \in Reader, StoreForming(r)
         PROVE  SeenNearly' /\ shown'.back <= stalest'
    <2> DEFINE asOf == reader[r].history.asOf
               bar == Bar(BucketOf(asOf), asOf)
    <2>1. asOf \in Nat /\ asOf <= now
      BY <1>11, RowsPast DEF StoreForming
    <2>2. bar \in Bars /\ bar.upTo = asOf
      BY <2>1, BarInBars DEF Instant
    <2>3. /\ UNCHANGED <<now, frames, handler, shown>>
          /\ \/ forming' = bar /\ stalest' = Max({stalest, now - asOf})
             \/ UNCHANGED <<forming, stalest>>
      BY <1>11 DEF StoreForming
    <2> HIDE DEF asOf, bar
    <2>4. CASE UNCHANGED <<forming, stalest>>
      BY <2>3, <2>4 DEF SeenNearly
    <2>5. CASE forming' = bar /\ stalest' = Max({stalest, now - asOf})
      <3> DEFINE age == now - asOf
                 most == Max({stalest, age})
      <3>1. stalest \in Nat /\ now \in Nat
        BY CandleAssumption DEF Inv, TypeOK, Instant
      <3>2. age \in Nat
        BY <2>1, <3>1
      <3> HIDE DEF age
      <3>3. most \in Nat /\ stalest <= most /\ age <= most
        <4>1. most = IF stalest <= age THEN age ELSE stalest
          BY <3>1, <3>2, MaxOfTwo
        <4> HIDE DEF most
        <4> QED BY <3>1, <3>2, <4>1
      <3>4. stalest' = most
        BY <2>5 DEF age
      <3> HIDE DEF most
      <3>5. now <= asOf + most
        BY <2>1, <3>1, <3>2, <3>3 DEF age
      (* What is not later than the present is covered by the new bound. *)
      <3>6. \A t \in Int : t <= now => t <= bar.upTo + most
        BY <2>1, <2>2, <3>1, <3>3, <3>5
      <3>7. \A t, u \in Int : t <= u + stalest => t <= u + most
        BY <3>1, <3>3
      <3>8. bar.bucket \in 0..BucketOf(Horizon)
        BY <2>2, BarFacts
      <3>9. \A b \in 0..BucketOf(Horizon) : shown.newest[b] \in Int /\ shown.newest[b] <= now
        <4>1. /\ shown.newest \in [0..BucketOf(Horizon) -> Nat]
              /\ \A b \in 0..BucketOf(Horizon) : shown.newest[b] <= now
          BY ONLY Inv DEF Inv, MoreTypes, SeenNearly
        <4> SUFFICES ASSUME NEW b \in 0..BucketOf(Horizon)
                     PROVE  shown.newest[b] \in Int /\ shown.newest[b] <= now
          OBVIOUS
        <4>2. shown.newest[b] \in Nat
          BY ONLY <4>1, b \in 0..BucketOf(Horizon)
        <4>3. shown.newest[b] <= now
          BY ONLY <4>1, b \in 0..BucketOf(Horizon)
        <4> QED BY ONLY <4>2, <4>3
      <3>10. Handling => handler.frame.upTo \in Int /\ handler.frame.upTo <= now
        BY BarFacts DEF Inv, StreamInOrder
      <3>11. Rolling => /\ handler.prev.upTo \in Int /\ handler.prev.upTo <= now
                        /\ handler.prev.bucket \in 0..BucketOf(Horizon)
        BY BarFacts DEF Inv, StreamInOrder
      <3>12. shown.newest[bar.bucket] <= bar.upTo + most
        BY <3>6, <3>8, <3>9
      <3>13. Rolling => handler.prev.upTo <= bar.upTo + most
        BY <3>6, <3>11
      <3>14. Handling => handler.frame.upTo <= bar.upTo + most
        BY <3>6, <3>10
      <3>15. Rolling => shown.newest[handler.prev.bucket] <= handler.prev.upTo + most
        <4>1. Rolling => shown.newest[handler.prev.bucket] <= handler.prev.upTo + stalest
          BY DEF Inv, SeenNearly
        <4> QED BY <3>7, <3>9, <3>11, <4>1
      <3>16. shown.back <= most
        BY <3>1, <3>3 DEF Inv, TypeOK
      <3>17. handler.pc = "publish" => Handling
        BY DEF Handling
      <3> QED BY <2>3, <2>5, <3>4, <3>12, <3>13, <3>14, <3>15, <3>16, <3>17
             DEF SeenNearly, Handling, Rolling, Inv
    <2> QED BY <2>3, <2>4, <2>5
  <1>12. CASE StreamUntouched /\ UNCHANGED <<shown, stalest>>
    BY <1>12 DEF StreamUntouched, SeenNearly
  <1> QED
    BY <1>3, <1>4, <1>5, <1>6, <1>7, <1>8, <1>9, <1>10, <1>11, <1>12
       DEF Next, vars, StreamUntouched, ReadHistory, Fetch, SplitForming, StoreHistory, Merge

-----------------------------------------------------------------------------
(* The history.                                                            *)

(* The closed rows of an answer, whenever it is split. *)
LEMMA ClosedFacts ==
  ASSUME now \in Nat, NEW asOf \in Nat, Start <= asOf, asOf <= now, NEW limit \in Limit
  PROVE  LET own == Closed(asOf, now)
         IN  own.asOf = asOf /\ own.split = now /\ own.at = now /\ RowOK(own)
  <1> DEFINE b == BucketOf(asOf)
             hi == IF Peeled(asOf, now) THEN b - 1 ELSE b
             lo == b - Provided
  <1>1. /\ Bucket \in Nat \ {0} /\ Provided \in Nat \ {0}
        /\ limit \in Nat /\ 1 <= limit /\ limit <= Provided
        /\ Start \in Nat /\ Start >= Provided * Bucket
    BY CandleAssumption
  <1>2. b \in Int /\ b * Bucket <= asOf /\ asOf < b * Bucket + Bucket
    BY BucketFacts
  <1>3. b >= Provided
    <2>1. BucketOf(Provided * Bucket) = Provided
      <3>1. LastInstant(Provided) = Provided * Bucket + Bucket - 1 /\ Provided * Bucket \in Int
        BY LastInstantFacts, <1>1
      <3> QED BY <1>1, <3>1, BucketIs
    <2>2. BucketOf(Provided * Bucket) <= b
      BY <1>1, BucketMonotone
    <2> QED BY <2>1, <2>2
  <1>4. /\ LastInstant(b) \in Int /\ LastInstant(b) = b * Bucket + Bucket - 1
        /\ b * Bucket \in Int
    BY <1>2, LastInstantFacts
  <1>5. asOf <= LastInstant(b)
    BY <1>2, <1>4, <1>1
  <1>6. LastInstant(b - 1) \in Int /\ LastInstant(b - 1) = b * Bucket - 1
    <2>1. (b - 1) * Bucket = b * Bucket - Bucket
      BY <1>1, <1>2
    <2>2. LastInstant(b - 1) = (b - 1) * Bucket + Bucket - 1
      BY <1>2, LastInstantFacts
    <2> QED BY <2>1, <2>2, <1>1, <1>4
  <1> HIDE DEF b
  <1>7. Peeled(asOf, now) <=> LastInstant(b) >= now
    BY DEF Peeled, b
  <1>8. /\ hi \in Int /\ lo \in Int /\ limit <= hi - lo + 1 /\ lo <= hi /\ hi >= 0
        /\ LastInstant(hi) \in Int
    BY <1>1, <1>2, <1>3, <1>4, <1>6
  <1> DEFINE last == Min({asOf, LastInstant(hi)})
             most == Max({now - asOf, 1})
  <1>9. most \in Int /\ now - asOf <= most /\ 1 <= most
    BY MaxOfTwo
  <1>10. /\ last \in 0..LastInstant(hi) /\ LastInstant(hi) - last < most
         /\ asOf <= LastInstant(hi + 1)
    <2>1. CASE LastInstant(b) >= now
      <3>1. hi = b - 1
        BY <1>7, <2>1
      <3>2. LastInstant(b - 1) \in Int /\ ~(asOf <= LastInstant(b - 1))
        BY <1>2, <1>4, <1>6
      <3>3. Min({asOf, LastInstant(b - 1)}) = LastInstant(b - 1)
        BY <3>2, MinOfTwo
      <3>4. last = LastInstant(hi)
        BY <3>1, <3>3
      <3>5. LastInstant(hi) >= 0
        <4>1. b * Bucket >= 1 * Bucket
          BY <1>1, <1>2, <1>3
        <4> QED BY <1>1, <1>4, <1>6, <3>1, <4>1
      <3>6. hi + 1 = b
        BY <1>2, <3>1
      <3> HIDE DEF hi, last, most
      <3> QED BY <1>5, <1>8, <1>9, <3>4, <3>5, <3>6
    <2>2. CASE LastInstant(b) < now
      <3>1. hi = b
        BY <1>4, <1>7, <2>2
      <3>2. Min({asOf, LastInstant(b)}) = asOf
        BY <1>4, <1>5, MinOfTwo
      <3>3. last = asOf
        BY <3>1, <3>2
      <3>4. LastInstant(b) - asOf < now - asOf
        BY <1>1, <1>4, <2>2
      <3>5. (b + 1) * Bucket = b * Bucket + Bucket
        BY <1>1, <1>2
      <3>6. LastInstant(b + 1) = (b + 1) * Bucket + Bucket - 1
        BY <1>2, LastInstantFacts
      <3>7. LastInstant(b + 1) \in Int /\ LastInstant(b) <= LastInstant(b + 1)
        BY <1>1, <1>4, <3>5, <3>6
      <3> HIDE DEF hi, last, most
      <3> QED BY <1>1, <1>2, <1>4, <1>5, <1>9, <3>1, <3>3, <3>4, <3>7
    <2> QED BY <1>4, <2>1, <2>2
  <1> DEFINE own == [lo |-> lo, hi |-> hi, last |-> last, asOf |-> asOf, split |-> now, at |-> now]
  <1>11. Closed(asOf, now) = own
    BY DEF Closed, b
  <1> HIDE DEF hi, lo, last, most
  <1>12. last \in Int
    BY <1>8, <1>10
  <1>13. own \in HistoryRow
    BY <1>8, <1>12 DEF HistoryRow
  <1>14. /\ own.lo = lo /\ own.hi = hi /\ own.last = last /\ own.asOf = asOf
         /\ own.split = now /\ own.at = now
    OBVIOUS
  <1>15. LastInstant(hi) - last < Max({now - asOf, 1})
    BY <1>10 DEF most
  <1> HIDE DEF own
  <1>16. LongEnough(own)
    BY <1>8, <1>14 DEF LongEnough
  <1>17. RowOK(own)
    BY <1>8, <1>10, <1>13, <1>14, <1>15, <1>16 DEF RowOK
  <1> QED BY <1>11, <1>14, <1>17

(* What is stored of them: the newest ones, enough for this caller if      *)
(* there are as many.                                                      *)
LEMMA StoredFacts ==
  ASSUME now \in Nat, NEW own, RowOK(own), own.at <= now, NEW limit \in Limit
  PROVE  LET row == [own EXCEPT !.lo = Max({own.lo, own.hi - limit + 1}), !.at = now]
         IN  RowOK(row) /\ row.at = now
  <1> DEFINE top == own.hi - limit + 1
             lo == Max({own.lo, top})
             row == [own EXCEPT !.lo = lo, !.at = now]
  <1>1. limit \in Nat /\ 1 <= limit
    BY CandleAssumption
  <1>2. own \in HistoryRow /\ own.lo <= own.hi
    BY DEF RowOK
  <1>3. own.lo \in Int /\ own.hi \in Int /\ own.split \in Int /\ own.at \in Int
    BY <1>2 DEF HistoryRow
  <1>4. lo = (IF own.lo <= top THEN top ELSE own.lo) /\ lo \in Int
    <2>1. top \in Int
      BY <1>1, <1>3
    <2> HIDE DEF top
    <2> QED BY <1>3, <2>1, MaxOfTwo
  <1> HIDE DEF lo
  <1>6. lo <= own.hi /\ (lo = own.lo \/ limit <= own.hi - lo + 1)
    BY <1>1, <1>2, <1>3, <1>4
  <1> HIDE DEF top
  <1>5. /\ row \in HistoryRow /\ row.lo = lo /\ row.hi = own.hi /\ row.last = own.last
        /\ row.asOf = own.asOf /\ row.split = own.split /\ row.at = now
    <2>1. now \in Int
      OBVIOUS
    <2>2. row \in HistoryRow
      BY <1>2, <1>4, <2>1 DEF HistoryRow
    <2>3. row.lo = lo
      BY <1>2 DEF HistoryRow
    <2>4. row.hi = own.hi /\ row.last = own.last
      BY <1>2 DEF HistoryRow
    <2>5. row.asOf = own.asOf /\ row.split = own.split
      BY <1>2 DEF HistoryRow
    <2>6. row.at = now
      BY <1>2 DEF HistoryRow
    <2> QED BY <2>2, <2>3, <2>4, <2>5, <2>6
  <1> HIDE DEF row
  <1>7. LongEnough(row)
    <2>1. CASE lo = own.lo
      BY <1>5, <2>1 DEF RowOK, LongEnough
    <2>2. CASE limit <= own.hi - lo + 1
      BY <1>5, <2>2 DEF LongEnough
    <2> QED BY <1>6, <2>1, <2>2
  <1>8. row.split <= row.at
    BY <1>3, <1>5 DEF RowOK
  <1>9. RowOK(row)
    BY <1>5, <1>6, <1>7, <1>8 DEF RowOK
  <1> QED BY <1>5, <1>9 DEF row, lo, top

LEMMA IntervalSize ==
  ASSUME NEW a \in Int, NEW b \in Int, NEW size \in Nat, b - a + 1 = size
  PROVE  IsFiniteSet(a..b) /\ Cardinality(a..b) = size
  <1>1. a <= b + 1
    OBVIOUS
  <1>2. IsFiniteSet(a..b) /\ Cardinality(a..b) = IF a > b THEN 0 ELSE b - a + 1
    BY FS_Interval
  <1> QED BY <1>1, <1>2

(* An answer has the caller's limit of bars, or all there are. *)
LEMMA MergedLength ==
  ASSUME NEW own \in HistoryRow, NEW limit \in Nat \ {0}, NEW n \in Nat \ {0},
         FormingBucket \in Int, n <= limit, n <= own.hi - own.lo + 1
  PROVE  /\ Merged(own, limit) \in SUBSET Int /\ Cardinality(Merged(own, limit)) \in Nat
         /\ Cardinality(Merged(own, limit)) >= n
  <1> DEFINE lo == own.lo
             hi == own.hi
             top == {b \in {FormingBucket} : b >= hi}
             all == lo..hi \cup top
             answer == {b \in all : Cardinality({c \in all : c > b}) < limit}
  <1>1. lo \in Int /\ hi \in Int
    BY DEF HistoryRow
  <1>2. Merged(own, limit) = answer
    BY DEF Merged
  <1>3. all \in SUBSET Int
    BY <1>1
  <1>4. IsFiniteSet(answer) /\ Cardinality(answer) \in Nat
    <2>1. IsFiniteSet(lo..hi) /\ IsFiniteSet({FormingBucket})
      BY <1>1, FS_Interval, FS_Singleton
    <2>2. IsFiniteSet(lo..hi \cup {FormingBucket})
      BY <2>1, FS_Union
    <2>3. answer \in SUBSET (lo..hi \cup {FormingBucket})
      OBVIOUS
    <2> HIDE DEF answer
    <2> QED BY <2>2, <2>3, FS_Subset, FS_CardinalityType
  <1>5. CASE FormingBucket > hi
    <2> DEFINE rest == (hi - n + 2)..hi
               newest == rest \cup {FormingBucket}
    <2>1. IsFiniteSet(rest) /\ Cardinality(rest) = n - 1
      <3>1. hi - n + 2 \in Int /\ n - 1 \in Nat /\ hi - (hi - n + 2) + 1 = n - 1
        BY <1>1
      <3> QED BY <1>1, <3>1, IntervalSize
    <2>2. FormingBucket \notin rest
      BY <1>1, <1>5
    <2>3. Cardinality(newest) = n
      <3> HIDE DEF rest
      <3>1. Cardinality(rest \cup {FormingBucket}) = Cardinality(rest) + 1
        BY <2>1, <2>2, FS_AddElement
      <3> QED BY <2>1, <3>1
    <2>4. ASSUME NEW b \in rest
          PROVE  Cardinality({c \in all : c > b}) < limit
      <3> DEFINE above == (b + 1)..hi
                 these == {c \in all : c > b}
      <3>1. IsFiniteSet(above) /\ Cardinality(above) <= n - 2 /\ Cardinality(above) \in Nat
        <4>1. /\ b + 1 \in Int /\ hi - b \in Nat /\ hi - (b + 1) + 1 = hi - b
              /\ hi - b <= n - 2
          BY <1>1
        <4>2. IsFiniteSet(above) /\ Cardinality(above) = hi - b
          BY <1>1, <4>1, IntervalSize
        <4> QED BY <4>1, <4>2
      <3>2. /\ IsFiniteSet(above \cup {FormingBucket})
            /\ Cardinality(above \cup {FormingBucket}) <= n - 1
            /\ Cardinality(above \cup {FormingBucket}) \in Nat
        <4> HIDE DEF above
        <4>1. /\ IsFiniteSet(above \cup {FormingBucket})
              /\ Cardinality(above \cup {FormingBucket}) =
                   IF FormingBucket \in above THEN Cardinality(above) ELSE Cardinality(above) + 1
          BY <3>1, FS_AddElement
        <4> QED BY <3>1, <4>1
      <3>3. these \in SUBSET (above \cup {FormingBucket})
        BY <1>1
      <3> HIDE DEF these, above
      <3>4. Cardinality(these) <= n - 1 /\ Cardinality(these) \in Nat
        BY <3>2, <3>3, FS_Subset, FS_CardinalityType
      <3> QED BY <3>4 DEF these
    <2>5. Cardinality({c \in all : c > FormingBucket}) < limit
      <3>1. {c \in all : c > FormingBucket} = {}
        BY <1>1, <1>5
      <3> HIDE DEF all
      <3> QED BY <3>1, FS_EmptySet
    <2>6. rest \subseteq all /\ FormingBucket \in all
      BY <1>1, <1>5
    <2>7. newest \in SUBSET answer
      <3> HIDE DEF rest, all
      <3> QED BY <2>4, <2>5, <2>6
    <2> HIDE DEF newest, answer
    <2>8. Cardinality(newest) <= Cardinality(answer)
      BY <1>4, <2>7, FS_Subset
    <2> QED BY <1>2, <1>3, <1>4, <2>3, <2>8 DEF answer
  <1>6. CASE ~(FormingBucket > hi)
    <2> DEFINE newest == (hi - n + 1)..hi
    <2>1. IsFiniteSet(newest) /\ Cardinality(newest) = n
      <3>1. hi - n + 1 \in Int /\ hi - (hi - n + 1) + 1 = n
        BY <1>1
      <3> QED BY <1>1, <3>1, IntervalSize
    <2>2. all = lo..hi
      BY <1>1, <1>6
    <2>3. ASSUME NEW b \in newest
          PROVE  Cardinality({c \in all : c > b}) < limit
      <3>1. {c \in all : c > b} = (b + 1)..hi
        BY <1>1, <2>2
      <3>2. b + 1 \in Int /\ hi - b \in Nat /\ hi - (b + 1) + 1 = hi - b /\ hi - b < limit
        BY <1>1
      <3>3. Cardinality((b + 1)..hi) = hi - b
        BY <1>1, <3>2, IntervalSize
      <3> HIDE DEF all
      <3> QED BY <3>1, <3>2, <3>3
    <2>4. newest \subseteq all
      BY <1>1, <2>2
    <2>5. newest \in SUBSET answer
      <3> HIDE DEF newest, all
      <3> QED BY <2>3, <2>4
    <2> HIDE DEF newest, answer
    <2>6. Cardinality(newest) <= Cardinality(answer)
      BY <1>4, <2>5, FS_Subset
    <2> QED BY <1>2, <1>3, <1>4, <2>1, <2>6 DEF answer
  <1> QED BY <1>5, <1>6

-----------------------------------------------------------------------------
(* Types, the history and the requests, step by step.                      *)

LEMMA StreamTypesStep ==
  Inv /\ [Next]_vars => /\ now' \in Instant /\ frames' \in Seq(Bars)
                        /\ forming' \in Bars \cup {None}
                        /\ handler' \in [pc : {"idle", "finalise", "write", "publish"},
                                         frame : Bars \cup {None}, prev : Bars \cup {None}]
  <1> DEFINE HandlerType == [pc : {"idle", "finalise", "write", "publish"},
                             frame : Bars \cup {None}, prev : Bars \cup {None}]
             Goal == /\ now' \in Instant /\ frames' \in Seq(Bars)
                     /\ forming' \in Bars \cup {None} /\ handler' \in HandlerType
  <1> SUFFICES ASSUME Inv, [Next]_vars
               PROVE  Goal
    OBVIOUS
  <1>1. /\ now \in Instant /\ frames \in Seq(Bars) /\ forming \in Bars \cup {None}
        /\ handler \in HandlerType
    BY DEF Inv, TypeOK
  <1>2. Start \in Nat /\ Horizon \in Nat /\ now \in Nat /\ now <= Horizon
    BY <1>1, CandleAssumption DEF Instant
  <1>3. <<>> \in Seq(Bars) /\ Idle \in HandlerType
    BY DEF Idle
  <1> USE <1>1
  <1>4. CASE Pass
    BY <1>2, <1>4 DEF Pass, Instant
  <1>5. CASE ReceiveFrame
    <2>1. Bar(BucketOf(now), now) \in Bars
      BY <1>2, BarInBars
    <2> QED BY <1>5, <2>1 DEF ReceiveFrame
  <1>6. CASE DropFrames
    BY <1>3, <1>6 DEF DropFrames
  <1>7. CASE ExpireForming
    BY <1>7 DEF ExpireForming
  <1>8. CASE ReadForming
    <2>1. Head(frames) \in Bars /\ Tail(frames) \in Seq(Bars)
      BY <1>8 DEF ReadForming
    <2> QED BY <1>3, <1>8, <2>1 DEF ReadForming
  <1>9. CASE Finalise
    BY <1>9 DEF Finalise
  <1>10. CASE WriteForming
    BY <1>10 DEF WriteForming
  <1>11. CASE Publish
    BY <1>3, <1>11 DEF Publish
  <1>12. ASSUME NEW r \in Reader, StoreForming(r)
         PROVE  Goal
    <2> DEFINE asOf == reader[r].history.asOf
    <2>1. asOf \in Nat /\ asOf <= Horizon
      BY <1>12, RowsPast DEF StoreForming
    <2>2. Bar(BucketOf(asOf), asOf) \in Bars
      BY <2>1, BarInBars
    <2> QED BY <1>12, <2>2 DEF StoreForming
  <1>13. CASE StreamUntouched
    BY <1>13 DEF StreamUntouched
  <1> HIDE DEF Goal
  <1> QED
    BY <1>4, <1>5, <1>6, <1>7, <1>8, <1>9, <1>10, <1>11, <1>12, <1>13
       DEF Next, vars, StreamUntouched, ReadHistory, Fetch, SplitForming, StoreHistory, Merge

LEMMA ShownTypesStep ==
  Inv /\ [Next]_vars => /\ shown'.newest \in [0..BucketOf(Horizon) -> Nat]
                        /\ shown' = [newest |-> shown'.newest, back |-> shown'.back]
                        /\ shown'.back \in Nat
  <1> SUFFICES ASSUME Inv, [Next]_vars
               PROVE  /\ shown'.newest \in [0..BucketOf(Horizon) -> Nat]
                      /\ shown' = [newest |-> shown'.newest, back |-> shown'.back]
                      /\ shown'.back \in Nat
    OBVIOUS
  <1>1. TypeOK /\ MoreTypes /\ StreamInOrder
    BY DEF Inv
  <1>2. CASE UNCHANGED shown
    BY <1>1, <1>2 DEF TypeOK, MoreTypes
  <1>3. ASSUME NEW bar \in Bars, Broadcast(bar)
        PROVE  /\ shown'.newest \in [0..BucketOf(Horizon) -> Nat]
               /\ shown' = [newest |-> shown'.newest, back |-> shown'.back]
               /\ shown'.back \in Nat
    BY <1>1, <1>3, BroadcastFacts
  <1>4. CASE Finalise
    <2>1. handler.prev \in Bars /\ Broadcast(handler.prev)
      BY <1>1, <1>4 DEF Finalise, StreamInOrder, Rolling
    <2> QED BY <1>3, <2>1
  <1>5. CASE Publish
    <2>1. handler.frame \in Bars
      BY <1>1, <1>5 DEF Publish, StreamInOrder, Handling
    <2> QED BY <1>2, <1>3, <1>5, <2>1 DEF Publish
  <1> QED
    BY <1>2, <1>4, <1>5
       DEF Next, vars, Pass, ReceiveFrame, DropFrames, ExpireForming, ReadForming, WriteForming,
           ReadHistory, Fetch, SplitForming, StoreHistory, StoreForming, Merge

(* The oldest backfill only gets older. *)
LEMMA StalestStep ==
  Inv /\ [Next]_vars => stalest' \in Nat
  <1> SUFFICES ASSUME Inv, [Next]_vars
               PROVE  stalest' \in Nat
    OBVIOUS
  <1>1. stalest \in Nat /\ now \in Nat
    BY CandleAssumption DEF Inv, TypeOK, Instant
  <1>2. ASSUME NEW r \in Reader, StoreForming(r)
        PROVE  stalest' \in Nat
    <2> DEFINE asOf == reader[r].history.asOf
    <2>1. asOf \in Nat /\ asOf <= now
      BY <1>2, RowsPast DEF StoreForming
    <2>2. stalest' = Max({stalest, now - asOf}) \/ stalest' = stalest
      BY <1>2 DEF StoreForming
    <2> HIDE DEF asOf
    <2> QED BY <1>1, <2>1, <2>2, MaxOfTwo
  <1> QED
    BY <1>1, <1>2
       DEF Next, vars, Pass, ReceiveFrame, DropFrames, ExpireForming, ReadForming, Finalise,
           WriteForming, Publish, ReadHistory, Fetch, SplitForming, StoreHistory, Merge

(* The conjunct of TypeOK about the history, and what follows it. *)
HistoryOK ==
  /\ history \in HistoryRow \cup {None}
  /\ history # None => /\ history.lo <= history.hi
                       /\ history.last \in 0..LastInstant(history.hi)
                       /\ history.at \in Instant
  /\ HistoryFresh

LEMMA HistoryStep ==
  Inv /\ [Next]_vars => HistoryOK'
  <1> SUFFICES ASSUME Inv, [Next]_vars
               PROVE  HistoryOK'
    OBVIOUS
  <1>1. HistoryOK /\ now \in Instant /\ now \in Nat
    BY CandleAssumption DEF Inv, TypeOK, MoreTypes, HistoryOK, Instant
  <1>2. CASE Pass
    <2>1. now' = now + 1 /\ (history' = None \/ UNCHANGED history)
          /\ (history' # None => now + 1 - history'.at <= HistoryTtl)
      <3>1. history # None => history.at \in Int
        BY <1>1 DEF HistoryOK, HistoryRow
      <3> QED BY <1>1, <1>2, <3>1, CandleAssumption DEF Pass
    <2>2. history # None => history.at \in Int /\ history.at <= now
      BY <1>1 DEF HistoryOK, HistoryFresh, HistoryRow
    <2>3. CASE history' = None
      BY <2>3 DEF HistoryOK, HistoryFresh
    <2>4. CASE UNCHANGED history /\ history # None
      <3>1. history.at <= now' /\ now' - history.at <= HistoryTtl
        BY <1>1, <2>1, <2>2, <2>4
      <3> QED BY <1>1, <2>4, <3>1 DEF HistoryOK, HistoryFresh
    <2> QED BY <2>1, <2>3, <2>4
  <1>3. ASSUME NEW r \in Reader, StoreHistory(r)
        PROVE  HistoryOK'
    <2> DEFINE own == reader[r].history
               limit == reader[r].limit
               row == [own EXCEPT !.lo = Max({own.lo, own.hi - limit + 1}), !.at = now]
    <2>1. RowOK(own) /\ own.at <= now /\ limit \in Limit
      BY <1>3 DEF StoreHistory, Inv, ReaderInv
    <2>2. UNCHANGED now /\ (history' = row \/ UNCHANGED history)
      BY <1>3 DEF StoreHistory
    <2> HIDE DEF own, limit
    <2>3. RowOK(row) /\ row.at = now
      BY <1>1, <2>1, StoredFacts
    <2> HIDE DEF row
    <2>4. CASE history' = row
      <3>1. now - row.at <= HistoryTtl
        BY <1>1, <2>3, CandleAssumption
      <3> QED BY <1>1, <2>2, <2>3, <2>4, <3>1 DEF HistoryOK, HistoryFresh, RowOK
    <2>5. CASE UNCHANGED history
      BY <1>1, <2>2, <2>5 DEF HistoryOK, HistoryFresh
    <2> QED BY <2>2, <2>4, <2>5
  <1>4. CASE UNCHANGED <<now, history>>
    BY <1>1, <1>4 DEF HistoryOK, HistoryFresh
  <1> QED
    BY <1>2, <1>3, <1>4
       DEF Next, vars, ReceiveFrame, DropFrames, ExpireForming, ReadForming, Finalise,
           WriteForming, Publish, ReadHistory, Fetch, SplitForming, StoreForming, Merge

(* A request's own steps, and the clock's. *)
LocalType == [pc : {"new", "fetch", "split", "store", "forming", "merge", "answered"},
              limit : Nat, asOf : Int, since : Int, history : HistoryRow \cup {None}, answer : Nat]

LEMMA ReaderStep ==
  Inv /\ [Next]_vars => reader' \in [Reader -> LocalType] /\ \A r \in Reader : ReaderInv(r)'
  <1> SUFFICES ASSUME Inv, [Next]_vars
               PROVE  reader' \in [Reader -> LocalType] /\ \A r \in Reader : ReaderInv(r)'
    OBVIOUS
  <1>1. /\ reader \in [Reader -> LocalType] /\ \A r \in Reader : ReaderInv(r)
        /\ now \in Instant /\ now \in Nat /\ HistoryTtl \in Nat
        /\ \A limit \in Limit : limit \in Nat /\ 1 <= limit
        /\ forming \in Bars \cup {None}
    BY CandleAssumption DEF Inv, MoreTypes, LocalType, TypeOK, Instant
  <1>0. Unasked \in LocalType
    BY DEF Unasked, LocalType
  (* One request moves to `local`, and the clock does not. *)
  <1>2. ASSUME NEW r \in Reader, NEW local \in LocalType, UNCHANGED now,
               reader' = [reader EXCEPT ![r] = local],
               ReaderInv(r)'
        PROVE  reader' \in [Reader -> LocalType] /\ \A q \in Reader : ReaderInv(q)'
    <2>1. \A q \in Reader : q # r => reader'[q] = reader[q]
      BY <1>1, <1>2
    <2> QED BY <1>1, <1>2, <2>1 DEF ReaderInv
  <1>f. ASSUME NEW r \in Reader, Fail(r), UNCHANGED now
        PROVE  reader' \in [Reader -> LocalType] /\ \A q \in Reader : ReaderInv(q)'
    <2>1. reader' = [reader EXCEPT ![r] = Unasked] /\ reader'[r] = Unasked
      BY <1>1, <1>f DEF Fail
    <2>2. Unasked.pc = "new"
      BY DEF Unasked
    <2>3. ReaderInv(r)'
      BY <2>1, <2>2 DEF ReaderInv
    <2> QED BY <1>0, <1>2, <1>f, <2>1, <2>3
  <1>3. CASE Pass
    <2>1. now' = now + 1 /\ UNCHANGED reader
      BY <1>3 DEF Pass
    <2>2. ASSUME NEW r \in Reader
          PROVE  ReaderInv(r)'
      <3>1. ReaderInv(r) /\ reader'[r] = reader[r] /\ reader[r].asOf \in Int /\ reader[r].since \in Int
        BY <1>1, <2>1 DEF LocalType
      <3>2. \A t \in Int : t <= now => t <= now'
        BY <1>1, <2>1
      <3>3. RowOK(reader[r].history) => reader[r].history.at \in Int
        BY DEF RowOK, HistoryRow
      <3>4. reader[r].pc = "split" => Start <= reader[r].asOf /\ reader[r].asOf <= now'
        BY <3>1, <3>2 DEF ReaderInv
      <3>5. reader[r].pc \in {"store", "forming", "merge"} =>
              /\ RowOK(reader[r].history) /\ reader[r].history.at <= now'
              /\ reader[r].since <= now'
        BY <3>1, <3>2, <3>3 DEF ReaderInv
      <3> QED BY <3>1, <3>4, <3>5 DEF ReaderInv
    <2> QED BY <1>1, <2>1, <2>2
  <1>4. ASSUME NEW r \in Reader, NEW limit \in Limit, ReadHistory(r, limit)
        PROVE  reader' \in [Reader -> LocalType] /\ \A q \in Reader : ReaderInv(q)'
    <2> DEFINE next == IF history = None THEN "fetch" ELSE "merge"
               since == IF history = None THEN 0 ELSE now
               local == [Unasked EXCEPT !.pc = next, !.limit = limit, !.history = history,
                                        !.since = since]
    <2>1. reader' = [reader EXCEPT ![r] = local] /\ UNCHANGED now
      BY <1>4 DEF ReadHistory
    <2>2. /\ history \in HistoryRow \cup {None} /\ limit \in Nat
          /\ history # None =>
               RowOK(history) /\ history.at <= now /\ now - history.at <= HistoryTtl
      BY <1>1 DEF Inv, MoreTypes, HistoryFresh
    <2>3. /\ next \in {"fetch", "merge"} /\ (next = "merge" => history # None /\ since = now)
          /\ since \in Int
      BY <1>1
    <2> HIDE DEF next, since
    <2>4. /\ local \in LocalType /\ local.pc = next /\ local.limit = limit
          /\ local.history = history /\ local.since = since
      <3>0. 0 \in Int /\ 0 \in Nat /\ limit \in Nat /\ next \in {"fetch", "merge"}
        BY <1>1 DEF next
      <3>1. local \in LocalType
        BY <1>0, <2>2, <2>3, <3>0 DEF LocalType
      <3>2. local.pc = next /\ local.limit = limit
        BY <1>0 DEF LocalType
      <3>3. local.history = history /\ local.since = since
        BY <1>0 DEF LocalType
      <3> QED BY <3>1, <3>2, <3>3
    <2> HIDE DEF local
    <2>5. reader'[r] = local
      BY <1>1, <2>1
    <2>6. ReaderInv(r)'
      BY <1>1, <2>1, <2>2, <2>3, <2>4, <2>5 DEF ReaderInv
    <2> QED BY <1>2, <2>1, <2>4, <2>6
  <1>5. ASSUME NEW r \in Reader, Fetch(r)
        PROVE  reader' \in [Reader -> LocalType] /\ \A q \in Reader : ReaderInv(q)'
    <2> DEFINE local == [reader[r] EXCEPT !.pc = "split", !.asOf = now]
    <2>1. /\ reader' = [reader EXCEPT ![r] = local] \/ Fail(r)
          /\ reader[r].pc = "fetch" /\ UNCHANGED now
      BY <1>1, <1>5 DEF Fetch, LocalType
    <2>2. reader[r] \in LocalType /\ reader[r].limit \in Limit
      BY <1>1, <2>1 DEF ReaderInv
    <2>3. /\ local \in LocalType /\ local.pc = "split" /\ local.asOf = now
          /\ local.limit = reader[r].limit
      <3>1. now \in Int
        BY <1>1
      <3>2. local \in LocalType
        BY <2>2, <3>1 DEF LocalType
      <3>3. local.pc = "split" /\ local.asOf = now /\ local.limit = reader[r].limit
        BY <2>2 DEF LocalType
      <3> QED BY <3>2, <3>3
    <2> HIDE DEF local
    <2>4. CASE reader' = [reader EXCEPT ![r] = local]
      <3>1. reader'[r] = local
        BY <1>1, <2>4
      <3>2. ReaderInv(r)'
        BY <1>1, <2>1, <2>2, <2>3, <3>1 DEF ReaderInv, Instant
      <3> QED BY <1>2, <2>1, <2>3, <2>4, <3>2
    <2> QED BY <1>f, <2>1, <2>4
  <1>6. ASSUME NEW r \in Reader, SplitForming(r)
        PROVE  reader' \in [Reader -> LocalType] /\ \A q \in Reader : ReaderInv(q)'
    <2> DEFINE asOf == reader[r].asOf
               own == Closed(asOf, now)
               local == [reader[r] EXCEPT !.pc = "store", !.since = now, !.asOf = 0, !.history = own]
    <2>1. /\ asOf \in Nat /\ Start <= asOf /\ asOf <= now
          /\ reader[r].limit \in Limit /\ reader[r] \in LocalType
      BY <1>1, <1>6, CandleAssumption DEF SplitForming, ReaderInv, LocalType
    <2>2. reader' = [reader EXCEPT ![r] = local] /\ UNCHANGED now
      BY <1>1, <1>6 DEF SplitForming, LocalType
    <2> HIDE DEF asOf
    <2>3. own.at = now /\ RowOK(own)
      BY <1>1, <2>1, ClosedFacts
    <2> HIDE DEF own
    <2>4. own \in HistoryRow /\ now \in Int
      BY <1>1, <2>3 DEF RowOK
    <2>5. /\ local \in LocalType /\ local.pc = "store" /\ local.history = own
          /\ local.since = now /\ local.limit = reader[r].limit
      <3>1. local \in LocalType
        <4>1. reader[r] \in LocalType /\ own \in HistoryRow /\ now \in Int /\ 0 \in Int
          BY <2>1, <2>4
        <4>2. [reader[r] EXCEPT !.pc = "store", !.since = now] \in LocalType
          BY ONLY <4>1 DEF LocalType
        <4>3. \A row \in LocalType : [row EXCEPT !.asOf = 0, !.history = own] \in LocalType
          BY ONLY <4>1 DEF LocalType
        <4> QED BY <4>2, <4>3
      <3>2. local.pc = "store" /\ local.history = own /\ local.since = now
        BY <2>1 DEF LocalType
      <3>3. local.limit = reader[r].limit
        BY <2>1 DEF LocalType
      <3> QED BY <3>1, <3>2, <3>3
    <2> HIDE DEF local
    <2>6. reader'[r] = local
      BY <1>1, <2>2
    <2>7. ReaderInv(r)'
      BY <1>1, <2>1, <2>2, <2>3, <2>5, <2>6 DEF ReaderInv
    <2> QED BY <1>2, <2>2, <2>5, <2>7
  (* A request that moves on with its history keeps what holds of it. *)
  <1>m. ASSUME NEW r \in Reader, NEW next \in {"forming", "merge"}, UNCHANGED now,
               reader[r].pc \in {"store", "forming"},
               reader' = [reader EXCEPT ![r].pc = next]
        PROVE  reader' \in [Reader -> LocalType] /\ \A q \in Reader : ReaderInv(q)'
    <2> DEFINE local == [reader[r] EXCEPT !.pc = next]
    <2>1. reader[r] \in LocalType /\ ReaderInv(r)
      BY <1>1
    <2>2. reader' = [reader EXCEPT ![r] = local]
      BY <1>1, <1>m
    <2>3. /\ local \in LocalType /\ local.pc = next /\ local.history = reader[r].history
          /\ local.limit = reader[r].limit /\ local.since = reader[r].since
      BY <2>1 DEF LocalType
    <2> HIDE DEF local
    <2>4. reader'[r] = local
      BY <1>1, <2>2
    <2>5. ReaderInv(r)'
      BY <1>m, <2>1, <2>3, <2>4 DEF ReaderInv
    <2> QED BY <1>2, <1>m, <2>2, <2>3, <2>5
  <1>7. ASSUME NEW r \in Reader, StoreHistory(r) \/ StoreForming(r)
        PROVE  reader' \in [Reader -> LocalType] /\ \A q \in Reader : ReaderInv(q)'
    <2>1. /\ UNCHANGED now /\ reader[r].pc \in {"store", "forming"}
          /\ \/ Fail(r) \/ reader' = [reader EXCEPT ![r].pc = "forming"]
             \/ reader' = [reader EXCEPT ![r].pc = "merge"]
      BY <1>7 DEF StoreHistory, StoreForming
    <2> QED BY <1>f, <1>m, <2>1
  <1>8. ASSUME NEW r \in Reader, Merge(r)
        PROVE  reader' \in [Reader -> LocalType] /\ \A q \in Reader : ReaderInv(q)'
    <2> DEFINE own == reader[r].history
               limit == reader[r].limit
               answer == Cardinality(Merged(own, limit))
               local == [Unasked EXCEPT !.pc = "answered", !.answer = answer]
    <2>1. /\ limit \in Limit /\ own \in HistoryRow /\ LongEnough(own)
      BY <1>1, <1>8 DEF Merge, ReaderInv, RowOK
    <2>2. (reader' = [reader EXCEPT ![r] = local] \/ Fail(r)) /\ UNCHANGED now
      BY <1>8 DEF Merge
    <2>3. PICK other \in Limit : other <= own.hi - own.lo + 1
      BY <2>1 DEF LongEnough
    <2> DEFINE n == IF other <= limit THEN other ELSE limit
    <2>4. n \in Limit /\ n \in Nat \ {0} /\ limit \in Nat \ {0} /\ n <= limit
      BY <1>1, <2>1, <2>3
    <2>5. n <= own.hi - own.lo + 1
      BY <1>1, <2>1, <2>3 DEF HistoryRow
    <2>6. FormingBucket \in Int
      <3>1. BucketOf(Horizon) \in Int
        BY BucketFacts, CandleAssumption
      <3> QED BY <1>1, <3>1, BarFacts DEF FormingBucket
    <2> HIDE DEF n, own, limit
    <2>7. answer \in Nat /\ answer >= n
      BY <2>1, <2>4, <2>5, <2>6, MergedLength
    <2>8. answer >= Min(Limit)
      <3>1. Limit \in SUBSET Nat
        BY <1>1
      <3>2. Min(Limit) \in Limit /\ Min(Limit) <= n
        BY <2>4, <3>1, MinOfNaturals
      <3> HIDE DEF answer
      <3>3. Min(Limit) \in Nat /\ n \in Nat
        BY <2>4, <3>1, <3>2
      <3> QED BY <2>7, <3>2, <3>3
    <2> HIDE DEF answer
    <2>9. local \in LocalType /\ local.pc = "answered" /\ local.answer = answer
      <3>1. local \in LocalType
        BY <1>0, <2>4, <2>7 DEF LocalType
      <3>2. local.pc = "answered"
        BY <1>0 DEF LocalType
      <3>3. local.answer = answer
        BY <1>0 DEF LocalType
      <3> QED BY <3>1, <3>2, <3>3
    <2> HIDE DEF local
    <2>10. CASE reader' = [reader EXCEPT ![r] = local]
      <3>1. reader'[r] = local
        BY <1>1, <2>10
      <3>2. ReaderInv(r)'
        BY <2>8, <2>9, <3>1 DEF ReaderInv
      <3> QED BY <1>2, <2>2, <2>9, <2>10, <3>2
    <2> QED BY <1>f, <2>2, <2>10
  <1>9. CASE UNCHANGED <<now, reader>>
    BY <1>1, <1>9 DEF ReaderInv
  <1> QED
    BY <1>3, <1>4, <1>5, <1>6, <1>7, <1>8, <1>9
       DEF Next, vars, ReceiveFrame, DropFrames, ExpireForming, ReadForming, Finalise,
           WriteForming, Publish

-----------------------------------------------------------------------------
(* The invariant, and what follows from it.                                *)

LEMMA StepInv == Inv /\ [Next]_vars => Inv'
  <1> SUFFICES ASSUME Inv, [Next]_vars
               PROVE  Inv'
    OBVIOUS
  <1>1. HistoryOK'
    BY HistoryStep
  <1>2. TypeOK'
    BY <1>1, StreamTypesStep, ShownTypesStep, StalestStep DEF TypeOK, HistoryOK
  <1>3. MoreTypes'
    BY <1>1, ShownTypesStep, ReaderStep DEF MoreTypes, HistoryOK, LocalType
  <1>4. StreamInOrder' /\ SeenNearly' /\ (shown.back <= stalest)'
    BY StreamStep, SeenStep
  <1>5. HistoryFresh' /\ (\A r \in Reader : ReaderInv(r))'
    BY <1>1, ReaderStep DEF HistoryOK
  <1> QED BY <1>2, <1>3, <1>4, <1>5 DEF Inv

LEMMA SpecInv == Spec => []Inv
  BY InitInv, StepInv, PTL DEF Spec

(* Bars, queue, history and handler keep their types: no bar of a bucket   *)
(* the clock has not reached, and no empty history.                        *)
THEOREM CandlesTypes == Spec => []TypeOK
  BY SpecInv, PTL DEF Inv

(* handle_candle and get_candles write one key without a lock: however     *)
(* they interleave, whatever is lost and however long an access to Redis   *)
(* takes, no broadcast lacks more of what clients have of its bucket than  *)
(* the stalest backfill lacked when it was written.                        *)
THEOREM StepsBackBounded == Spec => []BarsHardlyGoBack
  <1>1. Inv => BarsHardlyGoBack
    BY DEF Inv, BarsHardlyGoBack
  <1> QED BY <1>1, SpecInv, PTL

(* _split_forming trusts the server's clock when the answer has come: a    *)
(* bar it keeps as closed lacks at most the instants its answer took.      *)
THEOREM HistoryIsNearlyClosed == Spec => []HistoryNearlyClosed
  <1>1. Inv => HistoryNearlyClosed
    BY DEF Inv, HistoryFresh, RowOK, HistoryNearlyClosed
  <1> QED BY <1>1, SpecInv, PTL

(* Between the history of a request, cached or its own, and the bar        *)
(* get_candles appends to it there are no more bars missing than begin in  *)
(* candle_history_ttl_seconds and in the delays of its answer and itself.  *)
THEOREM HistoryGapBounded == Spec => []GapBounded
  <1>1. Inv => GapBounded
    <2> SUFFICES ASSUME Inv, NEW r \in Reader, reader[r].pc = "merge", forming # None
                 PROVE  (forming.bucket - reader[r].history.hi - 1) * Bucket
                          < Bucket + HistoryTtl + (reader[r].history.at - reader[r].history.asOf)
                              + (now - reader[r].since)
      BY DEF GapBounded
    <2> DEFINE f == forming.bucket
               own == reader[r].history
               h == own.hi
               at == own.at
               asOf == own.asOf
               since == reader[r].since
    <2>1. /\ h \in Int /\ at \in Int /\ asOf \in Int /\ since \in Int
          /\ now \in Nat /\ HistoryTtl \in Nat /\ Bucket \in Nat \ {0}
          /\ since - at <= HistoryTtl /\ asOf <= LastInstant(h + 1)
      <3>1. now \in Nat /\ HistoryTtl \in Nat /\ Bucket \in Nat \ {0}
        BY CandleAssumption DEF Inv, TypeOK, Instant
      <3>2. reader[r].since \in Int
        BY DEF Inv, MoreTypes
      <3>3. RowOK(reader[r].history) /\ reader[r].since - reader[r].history.at <= HistoryTtl
        BY DEF Inv, ReaderInv
      <3>4. reader[r].history \in HistoryRow
            /\ reader[r].history.asOf <= LastInstant(reader[r].history.hi + 1)
        BY <3>3 DEF RowOK
      <3> QED BY <3>1, <3>2, <3>3, <3>4 DEF HistoryRow
    <2>2. forming \in Bars /\ forming.upTo <= now
      BY DEF Inv, TypeOK, StreamInOrder
    <2>3. f \in Int /\ f * Bucket <= now
      <3>1. forming.upTo \in Int /\ f = BucketOf(forming.upTo)
        BY <2>2, BarFacts
      <3>2. f \in Int /\ f * Bucket <= forming.upTo
        BY <3>1, BucketFacts
      <3>3. f * Bucket \in Int
        BY <2>1, <3>2
      <3> HIDE DEF f
      <3> QED BY <2>1, <2>2, <3>1, <3>2, <3>3
    <2> HIDE DEF f, h, at, asOf, since
    <2>4. LastInstant(h + 1) = (h + 1) * Bucket + Bucket - 1 /\ (h + 1) * Bucket \in Int
      BY <2>1, LastInstantFacts
    <2>5. (f - h - 1) * Bucket = f * Bucket - (h + 1) * Bucket
      BY <2>1, <2>3
    <2>6. f * Bucket \in Int
      BY <2>1, <2>3
    <2>7. f * Bucket - (h + 1) * Bucket < Bucket + HistoryTtl + (at - asOf) + (now - since)
      BY <2>1, <2>3, <2>4, <2>6
    <2> QED BY <2>5, <2>7 DEF f, h, at, asOf, since
  <1> QED BY <1>1, SpecInv, PTL

(* set_cached_history keeps only what the first caller asked for, and all  *)
(* are served from it: still an answer is never shorter than the most      *)
(* modest caller's limit.                                                  *)
THEOREM AnswersLongEnough == Spec => []AnswerNotShort
  <1>1. Inv => AnswerNotShort
    BY DEF Inv, ReaderInv, AnswerNotShort
  <1> QED BY <1>1, SpecInv, PTL

(* Only the bar a roll closes can go out with less than clients have of    *)
(* it: a frame that handle_candle publishes, however long it queued and    *)
(* whatever backfill came between, includes all they have of its bucket.   *)
THEOREM FramesNeverStepBack ==
  Spec => [][Publish => shown.newest[handler.frame.bucket] <= handler.frame.upTo]_vars
  <1>1. Inv /\ Publish => shown.newest[handler.frame.bucket] <= handler.frame.upTo
    BY DEF Inv, SeenNearly, Handling, Publish
  <1>2. Inv /\ [Next]_vars =>
          [Publish => shown.newest[handler.frame.bucket] <= handler.frame.upTo]_vars
    BY <1>1
  <1> QED BY <1>2, SpecInv, PTL DEF Spec
=============================================================================
