---------------------------- MODULE Orders_proofs ------------------------------
(***************************************************************************)
(* Proofs about Orders: its types, that a kept key is the ticket's, and    *)
(* that Orders implements Intents.                                         *)
(*                                                                         *)
(* OInv is inductive.  Its parts say how keys, intents and pairs belong    *)
(* together over everything sent so far: an intent has one pair; unless it *)
(* is in doubt it has one key; a key reaches a second intent only in       *)
(* doubt; and a row is what one of the requests asked for.                 *)
(***************************************************************************)
EXTENDS Orders, TLAPS

Sent(r) == requests[r].stage # "unsent"

(* No request is numbered after the present intent. *)
Numbered == \A r \in Request : Sent(r) => requests[r].intent <= intent

(* A row is what a request asked for. *)
RowAsked ==
  \A k \in Key : KeyUsed(k) =>
    \E r \in Request : /\ Sent(r) /\ requests[r].key = k
                       /\ requests[r].intent = rows[k].intent
                       /\ requests[r].pair = rows[k].pair

(* An intent has one pair, the present one the ticket's. *)
OnePair ==
  /\ \A r, q \in Request :
       Sent(r) /\ Sent(q) /\ requests[r].intent = requests[q].intent
         => requests[r].pair = requests[q].pair
  /\ \A r \in Request :
       Sent(r) /\ requests[r].intent = intent => requests[r].pair = pair

(* Not in doubt, it has one key, the present one the ticket's. *)
OneKey ==
  /\ \A r, q \in Request :
       Sent(r) /\ Sent(q) /\ requests[r].intent = requests[q].intent
         => requests[r].key = requests[q].key \/ requests[r].intent \in doubt
  /\ \A r \in Request :
       Sent(r) /\ requests[r].intent = intent
         => key = requests[r].key \/ intent \in doubt

(* While the ticket awaits a request of an earlier intent, nothing has     *)
(* been sent for the present one.                                          *)
CallFirst ==
  call # None => \/ requests[call].intent = intent
                 \/ \A r \in Request : Sent(r) => requests[r].intent # intent

(* The key of the ticket, and of the request it awaits, was sent for no    *)
(* other intent unless in doubt.                                           *)
KeyOwned ==
  /\ key # None => \A r \in Request :
       Sent(r) /\ requests[r].key = key
         => requests[r].intent = intent \/ intent \in doubt
  /\ call # None => \A r \in Request :
       Sent(r) /\ requests[r].key = requests[call].key
         => requests[r].intent = requests[call].intent
            \/ requests[call].intent \in doubt

(* An answer of success has a row to show; the opened one is its own. *)
Answers ==
  /\ call # None => Sent(call)
  /\ \A r \in Request :
       /\ requests[r].stage \in {"opened", "replayed"} => KeyUsed(requests[r].key)
       /\ requests[r].stage = "opened" => rows[requests[r].key].intent = requests[r].intent

(* One open row to a pair. *)
OneOpen ==
  \A k, c \in Key :
    rows[k].status = "open" /\ rows[c].status = "open" /\ rows[k].pair = rows[c].pair => k = c

OInv == TypeOK /\ Numbered /\ RowAsked /\ OnePair /\ OneKey /\ CallFirst
          /\ KeyOwned /\ Answers /\ OneOpen

(* A step that changes no more than the stages of requests already sent.   *)
SameSent ==
  \A r \in Request :
    /\ Sent(r)' <=> Sent(r)
    /\ requests[r].key' = requests[r].key
    /\ requests[r].intent' = requests[r].intent
    /\ requests[r].pair' = requests[r].pair

(* Moving a request to a later stage is such a step. *)
LEMMA StageMoves ==
  ASSUME TypeOK, NEW r \in Request, NEW s \in Stage \ {"unsent"}, Sent(r),
         requests' = [requests EXCEPT ![r].stage = s]
  PROVE  /\ SameSent
         /\ requests'[r].stage = s
         /\ \A q \in Request \ {r} : requests'[q] = requests[q]
         /\ requests' \in [Request -> [key : Key \cup {None}, intent : Intent,
                                       pair : Pair \cup {None}, stage : Stage]]
BY DEF TypeOK, SameSent, Sent

(* The initial states satisfy the invariant. *)
LEMMA InitOInv == Init => OInv
<1> SUFFICES ASSUME Init PROVE OInv
  OBVIOUS
<1>1. TypeOK
  BY OrdersAssumption DEF Init, TypeOK, Unsent, NoRow, Row, Intent, Stage
<1>2. \A r \in Request : ~Sent(r)
  BY DEF Init, Sent, Unsent
<1>3. \A k \in Key : rows[k].status = "none"
  BY DEF Init, NoRow
<1>4. \A r \in Request : requests[r].stage = "unsent"
  BY DEF Init, Unsent
<1> QED
  BY <1>1, <1>2, <1>3, <1>4 DEF Init, OInv, Numbered, RowAsked, OnePair, OneKey, CallFirst,
     KeyOwned, Answers, OneOpen, KeyUsed

(* resetIntent preserves the invariant. *)
LEMMA EditStep ==
  ASSUME OInv, Edit
  PROVE  OInv'
<1> USE DEF OInv
<1>1. TypeOK'
  BY OrdersAssumption DEF Edit, TypeOK, Intent, Row, Stage
<1>2. Numbered'
  BY <1>1 DEF Edit, TypeOK, Intent, Numbered, Sent
<1>3. RowAsked'
  BY <1>1 DEF Edit, TypeOK, Intent, RowAsked, KeyUsed, Sent
<1>4. OnePair'
  BY <1>1 DEF Edit, TypeOK, Intent, OnePair, Numbered, Sent
<1>5. OneKey'
  BY <1>1 DEF Edit, TypeOK, Intent, OneKey, Numbered, Sent
<1>6. CallFirst'
  BY <1>1 DEF Edit, TypeOK, Intent, CallFirst, Numbered, Sent
<1>7. KeyOwned'
  BY <1>1 DEF Edit, TypeOK, Intent, KeyOwned, Numbered, Sent
<1>8. Answers'
  BY <1>1 DEF Edit, TypeOK, Intent, Answers, KeyUsed, Sent
<1>9. OneOpen'
  BY <1>1 DEF Edit, TypeOK, Intent, OneOpen
<1> QED
  BY <1>1, <1>2, <1>3, <1>4, <1>5, <1>6, <1>7, <1>8, <1>9

(* So does a change of the pair on the chart. *)
LEMMA ChartPairStep ==
  ASSUME OInv, ChartPair
  PROVE  OInv'
<1> USE DEF OInv
<1>1. TypeOK'
  BY OrdersAssumption DEF ChartPair, TypeOK, Intent, Row, Stage
<1>2. Numbered'
  BY <1>1 DEF ChartPair, TypeOK, Intent, Numbered, Sent
<1>3. RowAsked'
  BY <1>1 DEF ChartPair, TypeOK, Intent, RowAsked, KeyUsed, Sent
<1>4. OnePair'
  BY <1>1 DEF ChartPair, TypeOK, Intent, OnePair, Numbered, Sent
<1>5. OneKey'
  BY <1>1 DEF ChartPair, TypeOK, Intent, OneKey, Numbered, Sent
<1>6. CallFirst'
  BY <1>1 DEF ChartPair, TypeOK, Intent, CallFirst, Numbered, Sent
<1>7. KeyOwned'
  BY <1>1 DEF ChartPair, TypeOK, Intent, KeyOwned, Numbered, Sent
<1>8. Answers'
  BY <1>1 DEF ChartPair, TypeOK, Intent, Answers, KeyUsed, Sent
<1>9. OneOpen'
  BY <1>1 DEF ChartPair, TypeOK, Intent, OneOpen
<1> QED
  BY <1>1, <1>2, <1>3, <1>4, <1>5, <1>6, <1>7, <1>8, <1>9

(* A submission: a minted key is nobody's, a kept one the intent's. *)
LEMMA SubmitStep ==
  ASSUME OInv, NEW r \in Request, Submit(r)
  PROVE  OInv'
<1> USE DEF OInv
<1>1. TypeOK'
  BY OrdersAssumption DEF Submit, Fresh, TypeOK, Intent, Row, Stage
<1>2. Numbered'
  BY <1>1 DEF Submit, Fresh, TypeOK, Intent, Numbered, Sent
<1>3. RowAsked'
  BY <1>1 DEF Submit, Fresh, TypeOK, Intent, RowAsked, KeyUsed, Sent
<1>4. OnePair'
  BY <1>1 DEF Submit, Fresh, TypeOK, Intent, OnePair, Numbered, Sent
<1>5. OneKey'
  BY <1>1 DEF Submit, Fresh, TypeOK, Intent, OneKey, Numbered, Sent
<1>6. CallFirst'
  BY <1>1 DEF Submit, Fresh, TypeOK, Intent, CallFirst, Numbered, Sent
<1>7. KeyOwned'
  BY <1>1 DEF Submit, Fresh, TypeOK, Intent, KeyOwned, Numbered, Sent
<1>8. Answers'
  BY <1>1 DEF Submit, Fresh, TypeOK, Intent, Answers, KeyUsed, Sent
<1>9. OneOpen'
  BY <1>1 DEF Submit, Fresh, TypeOK, Intent, OneOpen
<1> QED
  BY <1>1, <1>2, <1>3, <1>4, <1>5, <1>6, <1>7, <1>8, <1>9

(* The ticket takes a success, *)
LEMMA ToldOpenedStep ==
  ASSUME OInv, NEW r \in Request, ToldOpened(r)
  PROVE  OInv'
<1> USE DEF OInv
<1>1. SameSent
  BY StageMoves DEF ToldOpened, Arrived, Answers, Sent, Stage
<1>2. rows' = rows /\ intent' = intent + 1 /\ key' = None /\ call' = None /\ doubt' = doubt
  BY DEF ToldOpened, Arrived
<1>3. TypeOK'
  BY OrdersAssumption DEF ToldOpened, Arrived, TypeOK, Intent, Row, Stage
<1>4. Numbered'
  BY <1>3 DEF ToldOpened, Arrived, TypeOK, Intent, Numbered, Sent, SameSent
<1>5. RowAsked'
  BY <1>1, <1>2 DEF RowAsked, KeyUsed, SameSent
<1>6. OnePair'
  BY <1>1, <1>2 DEF TypeOK, Intent, OnePair, Numbered, SameSent
<1>7. OneKey'
  BY <1>3 DEF ToldOpened, Arrived, TypeOK, Intent, OneKey, Numbered, Sent, SameSent
<1>8. CallFirst'
  BY <1>3 DEF ToldOpened, Arrived, TypeOK, Intent, CallFirst, Numbered, Sent, SameSent
<1>9. KeyOwned'
  BY <1>3 DEF ToldOpened, Arrived, TypeOK, Intent, KeyOwned, Numbered, Sent, SameSent
<1>10. Answers'
  BY <1>3 DEF ToldOpened, Arrived, TypeOK, Intent, Answers, KeyUsed, Sent, SameSent
<1>11. OneOpen'
  BY <1>3 DEF ToldOpened, Arrived, TypeOK, Intent, OneOpen, SameSent
<1> QED
  BY <1>3, <1>4, <1>5, <1>6, <1>7, <1>8, <1>9, <1>10, <1>11

(* a refusal, *)
LEMMA ToldRefusedStep ==
  ASSUME OInv, NEW r \in Request, ToldRefused(r)
  PROVE  OInv'
<1> USE DEF OInv
<1>1. TypeOK'
  BY OrdersAssumption DEF ToldRefused, Arrived, TypeOK, Intent, Row, Stage
<1>2. Numbered'
  BY <1>1 DEF ToldRefused, Arrived, TypeOK, Intent, Numbered, Sent
<1>3. RowAsked'
  BY <1>1 DEF ToldRefused, Arrived, TypeOK, Intent, RowAsked, KeyUsed, Sent
<1>4. OnePair'
  BY <1>1 DEF ToldRefused, Arrived, TypeOK, Intent, OnePair, Numbered, Sent
<1>5. OneKey'
  BY <1>1 DEF ToldRefused, Arrived, TypeOK, Intent, OneKey, Numbered, Sent
<1>6. CallFirst'
  BY <1>1 DEF ToldRefused, Arrived, TypeOK, Intent, CallFirst, Numbered, Sent
<1>7. KeyOwned'
  BY <1>1 DEF ToldRefused, Arrived, TypeOK, Intent, KeyOwned, Numbered, Sent
<1>8. Answers'
  BY <1>1 DEF ToldRefused, Arrived, TypeOK, Intent, Answers, KeyUsed, Sent
<1>9. OneOpen'
  BY <1>1 DEF ToldRefused, Arrived, TypeOK, Intent, OneOpen
<1> QED
  BY <1>1, <1>2, <1>3, <1>4, <1>5, <1>6, <1>7, <1>8, <1>9

(* a 503, *)
LEMMA ToldUnavailableStep ==
  ASSUME OInv, NEW r \in Request, ToldUnavailable(r)
  PROVE  OInv'
<1> USE DEF OInv
<1>1. TypeOK'
  BY OrdersAssumption DEF ToldUnavailable, Arrived, TypeOK, Intent, Row, Stage
<1>2. Numbered'
  BY <1>1 DEF ToldUnavailable, Arrived, TypeOK, Intent, Numbered, Sent
<1>3. RowAsked'
  BY <1>1 DEF ToldUnavailable, Arrived, TypeOK, Intent, RowAsked, KeyUsed, Sent
<1>4. OnePair'
  BY <1>1 DEF ToldUnavailable, Arrived, TypeOK, Intent, OnePair, Numbered, Sent
<1>5. OneKey'
  BY <1>1 DEF ToldUnavailable, Arrived, TypeOK, Intent, OneKey, Numbered, Sent
<1>6. CallFirst'
  BY <1>1 DEF ToldUnavailable, Arrived, TypeOK, Intent, CallFirst, Numbered, Sent
<1>7. KeyOwned'
  BY <1>1 DEF ToldUnavailable, Arrived, TypeOK, Intent, KeyOwned, Numbered, Sent
<1>8. Answers'
  BY <1>1 DEF ToldUnavailable, Arrived, TypeOK, Intent, Answers, KeyUsed, Sent
<1>9. OneOpen'
  BY <1>1 DEF ToldUnavailable, Arrived, TypeOK, Intent, OneOpen
<1> QED
  BY <1>1, <1>2, <1>3, <1>4, <1>5, <1>6, <1>7, <1>8, <1>9

(* one of a gateway, *)
LEMMA GatewayUnavailableStep ==
  ASSUME OInv, NEW r \in Request, GatewayUnavailable(r)
  PROVE  OInv'
<1> USE DEF OInv
<1>1. TypeOK'
  BY OrdersAssumption DEF GatewayUnavailable, TypeOK, Intent, Row, Stage
<1>2. Numbered'
  BY <1>1 DEF GatewayUnavailable, TypeOK, Intent, Numbered, Sent
<1>3. RowAsked'
  BY <1>1 DEF GatewayUnavailable, TypeOK, Intent, RowAsked, KeyUsed, Sent
<1>4. OnePair'
  BY <1>1 DEF GatewayUnavailable, TypeOK, Intent, OnePair, Numbered, Sent
<1>5. OneKey'
  BY <1>1 DEF GatewayUnavailable, TypeOK, Intent, OneKey, Numbered, Sent
<1>6. CallFirst'
  BY <1>1 DEF GatewayUnavailable, TypeOK, Intent, CallFirst, Numbered, Sent
<1>7. KeyOwned'
  BY <1>1 DEF GatewayUnavailable, TypeOK, Intent, KeyOwned, Numbered, Sent
<1>8. Answers'
  BY <1>1 DEF GatewayUnavailable, TypeOK, Intent, Answers, KeyUsed, Sent
<1>9. OneOpen'
  BY <1>1 DEF GatewayUnavailable, TypeOK, Intent, OneOpen
<1> QED
  BY <1>1, <1>2, <1>3, <1>4, <1>5, <1>6, <1>7, <1>8, <1>9

(* or any other failure. *)
LEMMA ToldErrorStep ==
  ASSUME OInv, NEW r \in Request, ToldError(r)
  PROVE  OInv'
<1> USE DEF OInv
<1>1. TypeOK'
  BY OrdersAssumption DEF ToldError, TypeOK, Intent, Row, Stage
<1>2. Numbered'
  BY <1>1 DEF ToldError, TypeOK, Intent, Numbered, Sent
<1>3. RowAsked'
  BY <1>1 DEF ToldError, TypeOK, Intent, RowAsked, KeyUsed, Sent
<1>4. OnePair'
  BY <1>1 DEF ToldError, TypeOK, Intent, OnePair, Numbered, Sent
<1>5. OneKey'
  BY <1>1, OrdersAssumption DEF ToldError, TypeOK, Intent, OneKey, CallFirst, Sent
<1>6. CallFirst'
  BY <1>1 DEF ToldError, TypeOK, Intent, CallFirst, Numbered, Sent
<1>7. KeyOwned'
  BY <1>1 DEF ToldError, TypeOK, Intent, KeyOwned, Numbered, Sent
<1>8. Answers'
  BY <1>1 DEF ToldError, TypeOK, Intent, Answers, KeyUsed, Sent
<1>9. OneOpen'
  BY <1>1 DEF ToldError, TypeOK, Intent, OneOpen
<1> QED
  BY <1>1, <1>2, <1>3, <1>4, <1>5, <1>6, <1>7, <1>8, <1>9

(* The server moves a request on, or answers it without writing a row.     *)
LEMMA StageStep ==
  ASSUME OInv, NEW r \in Request, NEW s \in Stage \ {"unsent", "opened"}, Sent(r),
         s = "replayed" => KeyUsed(requests[r].key),
         requests' = [requests EXCEPT ![r].stage = s],
         UNCHANGED <<pair, key, intent, call, doubt, told, rows>>
  PROVE  OInv'
<1>1. TypeOK
  BY DEF OInv
<1>2. /\ requests'[r].stage = s
      /\ \A q \in Request \ {r} : requests'[q] = requests[q]
      /\ requests' \in [Request -> [key : Key \cup {None}, intent : Intent,
                                    pair : Pair \cup {None}, stage : Stage]]
  BY <1>1, StageMoves
<1>3. \A q \in Request : /\ Sent(q)' <=> Sent(q)
                         /\ requests'[q].key = requests[q].key
                         /\ requests'[q].intent = requests[q].intent
                         /\ requests'[q].pair = requests[q].pair
  BY <1>1, StageMoves DEF SameSent
<1>4. \A k \in Key : KeyUsed(k)' <=> KeyUsed(k)
  BY DEF KeyUsed
<1>5. TypeOK'
  BY <1>1, <1>2, <1>3 DEF TypeOK, Sent
<1>6. Numbered' /\ OneOpen'
  BY <1>3 DEF OInv, Numbered, OneOpen
<1>7. RowAsked'
  BY <1>3, <1>4 DEF OInv, RowAsked
<1>8. OnePair'
  BY <1>3 DEF OInv, OnePair
<1>9. OneKey'
  BY <1>3 DEF OInv, OneKey
<1>10. CallFirst'
  BY <1>1, <1>3, OrdersAssumption DEF OInv, CallFirst, TypeOK
<1>11. KeyOwned'
  BY <1>1, <1>3, OrdersAssumption DEF OInv, KeyOwned, TypeOK
<1>12. Answers'
  <2>1. call' # None => Sent(call)'
    BY <1>1, <1>3 DEF OInv, Answers, TypeOK
  <2>2. \A q \in Request : requests'[q].stage \in {"opened", "replayed"} =>
          KeyUsed(requests[q].key)
    BY <1>2 DEF OInv, Answers
  <2>3. \A q \in Request : requests'[q].stage = "opened" =>
          rows[requests[q].key].intent = requests[q].intent
    BY <1>2 DEF OInv, Answers
  <2>4. \A q \in Request : requests'[q].stage \in {"opened", "replayed"} =>
          KeyUsed(requests[q].key)'
    BY <2>2 DEF KeyUsed
  <2> QED
    BY <1>3, <2>1, <2>3, <2>4 DEF Answers, KeyUsed
<1> QED
  BY <1>5, <1>6, <1>7, <1>8, <1>9, <1>10, <1>11, <1>12 DEF OInv

(* The server looks the key up, *)
LEMMA LookupStep ==
  ASSUME OInv, NEW r \in Request, Lookup(r)
  PROVE  OInv'
<1>1. PICK s \in {"replayed", "priced", "refused", "unavailable"} :
        At(r, "sent", s) /\ (s = "replayed" => KeyUsed(requests[r].key))
  BY DEF Lookup
<1>2. s \in Stage \ {"unsent", "opened"} /\ Sent(r)
  BY <1>1 DEF At, Stage, Sent
<1>3. UNCHANGED <<pair, key, intent, call, doubt, told, rows>>
  BY <1>1 DEF Lookup, At
<1>4. requests' = [requests EXCEPT ![r].stage = s]
  BY <1>1 DEF At
<1> QED
  BY <1>1, <1>2, <1>3, <1>4, StageStep

(* refuses, *)
LEMMA RefuseStep ==
  ASSUME OInv, NEW r \in Request, Refuse(r)
  PROVE  OInv'
<1>1. At(r, "priced", "refused") /\ UNCHANGED rows
  BY DEF Refuse
<1>2. "refused" \in Stage \ {"unsent", "opened"} /\ Sent(r)
  BY <1>1 DEF At, Stage, Sent
<1>3. requests' = [requests EXCEPT ![r].stage = "refused"]
  BY <1>1 DEF At
<1>4. UNCHANGED <<pair, key, intent, call, doubt, told, rows>>
  BY <1>1 DEF At
<1> QED
  BY <1>2, <1>3, <1>4, StageStep

(* commits or replays, *)
LEMMA CommitStep ==
  ASSUME OInv, NEW r \in Request, Commit(r)
  PROVE  OInv'
<1> DEFINE k == requests[r].key
           row == [intent |-> requests[r].intent, pair |-> requests[r].pair, status |-> "open"]
<1>1. TypeOK /\ requests[r].stage = "priced" /\ Sent(r) /\ ~PairOpen(requests[r].pair)
      /\ UNCHANGED <<pair, key, intent, call, doubt, told>>
  BY DEF OInv, Commit, At, Sent
<1>2. CASE KeyUsed(k) /\ At(r, "priced", "replayed") /\ UNCHANGED rows
  <2>1. "replayed" \in Stage \ {"unsent", "opened"}
    BY DEF Stage
  <2>2. requests' = [requests EXCEPT ![r].stage = "replayed"]
    BY <1>2 DEF At
  <2> QED
    BY <1>1, <1>2, <2>1, <2>2, StageStep
<1>3. CASE /\ ~KeyUsed(k) /\ At(r, "priced", "opened")
           /\ rows' = [rows EXCEPT ![k] = row]
  <2>1. k \in Key /\ k # None
    BY <1>1 DEF TypeOK, Sent
  <2>2. "opened" \in Stage \ {"unsent"} /\ requests' = [requests EXCEPT ![r].stage = "opened"]
    BY <1>3 DEF At, Stage
  <2>3. /\ requests'[r].stage = "opened"
        /\ \A q \in Request \ {r} : requests'[q] = requests[q]
        /\ requests' \in [Request -> [key : Key \cup {None}, intent : Intent,
                                      pair : Pair \cup {None}, stage : Stage]]
    BY <1>1, <2>2, StageMoves
  <2>4. \A q \in Request : /\ Sent(q)' <=> Sent(q)
                           /\ requests'[q].key = requests[q].key
                           /\ requests'[q].intent = requests[q].intent
                           /\ requests'[q].pair = requests[q].pair
    BY <1>1, <2>2, StageMoves DEF SameSent
  <2>5. row \in Row /\ row.intent = requests[r].intent /\ row.pair = requests[r].pair
        /\ row.status = "open"
    BY <1>1 DEF TypeOK, Row
  <2> HIDE DEF row
  <2>6. /\ rows'[k] = row /\ \A c \in Key \ {k} : rows'[c] = rows[c]
        /\ rows' \in [Key -> Row]
    BY <1>1, <1>3, <2>1, <2>5 DEF TypeOK
  <2>7. TypeOK'
    BY <1>1, <2>3, <2>4, <2>6 DEF TypeOK, Sent
  <2>8. Numbered'
    BY <1>1, <2>4 DEF OInv, Numbered
  <2>9. RowAsked'
    <3> SUFFICES ASSUME NEW c \in Key, KeyUsed(c)'
                 PROVE  \E q \in Request : /\ Sent(q)' /\ requests'[q].key = c
                                           /\ requests'[q].intent = rows'[c].intent
                                           /\ requests'[q].pair = rows'[c].pair
      BY DEF RowAsked
    <3>1. CASE c = k
      BY <1>1, <2>4, <2>5, <2>6, <3>1
    <3>2. CASE c # k
      <4>1. rows'[c] = rows[c] /\ KeyUsed(c)
        BY <2>6, <3>2 DEF KeyUsed
      <4>2. PICK q \in Request : /\ Sent(q) /\ requests[q].key = c
                                 /\ requests[q].intent = rows[c].intent
                                 /\ requests[q].pair = rows[c].pair
        BY <4>1 DEF OInv, RowAsked
      <4> QED
        BY <2>4, <4>1, <4>2
    <3> QED
      BY <3>1, <3>2
  <2>10. OnePair'
    BY <1>1, <2>4 DEF OInv, OnePair
  <2>11. OneKey'
    BY <1>1, <2>4 DEF OInv, OneKey
  <2>12. CallFirst'
    BY <1>1, <2>4, OrdersAssumption DEF OInv, CallFirst, TypeOK
  <2>13. KeyOwned'
    BY <1>1, <2>4, OrdersAssumption DEF OInv, KeyOwned, TypeOK
  <2>14. Answers'
    <3>1. call' # None => Sent(call)'
      BY <1>1, <2>4 DEF OInv, Answers, TypeOK
    <3> SUFFICES ASSUME NEW q \in Request, requests'[q].stage \in {"opened", "replayed"}
                 PROVE  /\ requests'[q].key # None /\ rows'[requests'[q].key].status # "none"
                        /\ requests'[q].stage = "opened" =>
                             rows'[requests'[q].key].intent = requests'[q].intent
      BY <3>1 DEF Answers, KeyUsed
    <3>2. CASE q = r
      BY <2>1, <2>4, <2>5, <2>6, <3>2
    <3>3. CASE q # r
      <4>1. requests'[q] = requests[q]
        BY <2>3, <3>3
      <4>2. /\ KeyUsed(requests[q].key)
            /\ requests[q].stage = "opened" => rows[requests[q].key].intent = requests[q].intent
        BY <4>1 DEF OInv, Answers
      <4>3. requests[q].key \in Key /\ requests[q].key # k /\ requests[q].key # None
        BY <1>1, <1>3, <4>2 DEF KeyUsed, TypeOK
      <4>4. rows'[requests[q].key] = rows[requests[q].key]
        BY <2>6, <4>3
      <4> QED
        BY <4>1, <4>2, <4>3, <4>4 DEF KeyUsed
    <3> QED
      BY <3>2, <3>3
  <2>15. OneOpen'
    <3>1. \A c \in Key : rows[c].status = "open" => rows[c].pair # row.pair
      BY <1>1, <2>5 DEF PairOpen
    <3> QED
      BY <2>6, <3>1 DEF OInv, OneOpen
  <2> QED
    BY <2>7, <2>8, <2>9, <2>10, <2>11, <2>12, <2>13, <2>14, <2>15 DEF OInv
<1> QED
  BY <1>2, <1>3 DEF Commit

(* and closes. *)
LEMMA ClosePositionStep ==
  ASSUME OInv, NEW k \in Key, ClosePosition(k)
  PROVE  OInv'
<1> USE DEF OInv
<1>1. TypeOK'
  BY OrdersAssumption DEF ClosePosition, TypeOK, Intent, Row, Stage
<1>2. Numbered'
  BY <1>1 DEF ClosePosition, TypeOK, Intent, Numbered, Sent
<1>3. RowAsked'
  BY <1>1 DEF ClosePosition, TypeOK, Intent, RowAsked, KeyUsed, Sent
<1>4. OnePair'
  BY <1>1 DEF ClosePosition, TypeOK, Intent, OnePair, Numbered, Sent
<1>5. OneKey'
  BY <1>1 DEF ClosePosition, TypeOK, Intent, OneKey, Numbered, Sent
<1>6. CallFirst'
  BY <1>1 DEF ClosePosition, TypeOK, Intent, CallFirst, Numbered, Sent
<1>7. KeyOwned'
  BY <1>1 DEF ClosePosition, TypeOK, Intent, KeyOwned, Numbered, Sent
<1>8. Answers'
  BY <1>1 DEF ClosePosition, TypeOK, Intent, Answers, KeyUsed, Sent
<1>9. OneOpen'
  BY <1>1 DEF ClosePosition, TypeOK, Intent, OneOpen
<1> QED
  BY <1>1, <1>2, <1>3, <1>4, <1>5, <1>6, <1>7, <1>8, <1>9


(* OInv is an invariant. *)
THEOREM OrdersInvariant == Spec => []OInv
<1>1. OInv /\ [Next]_vars => OInv'
  <2> SUFFICES ASSUME OInv, [Next]_vars PROVE OInv'
    OBVIOUS
  <2>1. CASE UNCHANGED vars
    BY <2>1 DEF vars, OInv, TypeOK, Numbered, RowAsked, OnePair, OneKey, CallFirst, KeyOwned,
       Answers, OneOpen, KeyUsed, Sent
  <2>2. CASE Next
    BY <2>2, EditStep, ChartPairStep, SubmitStep, ToldOpenedStep, ToldRefusedStep,
       ToldUnavailableStep, GatewayUnavailableStep, ToldErrorStep, LookupStep, RefuseStep,
       CommitStep, ClosePositionStep DEF Next
  <2> QED
    BY <2>1, <2>2
<1> QED
  BY <1>1, InitOInv, PTL DEF Spec

(* Types, for any numbers of requests, keys, pairs and intents. *)
THEOREM OrdersTypes == Spec => []TypeOK
<1>1. OInv => TypeOK
  BY DEF OInv
<1> QED
  BY <1>1, OrdersInvariant, PTL

(* The key kept for a retry has opened nothing but what the ticket says.   *)
THEOREM KeptKeyIsOfTicket == Spec => []KeyIsOfTicket
<1>1. OInv => KeyIsOfTicket
  <2> SUFFICES ASSUME OInv, key # None, intent \notin doubt, KeyUsed(key)
               PROVE  rows[key].intent = intent /\ rows[key].pair = pair
    BY DEF KeyIsOfTicket
  <2>1. PICK r \in Request : /\ Sent(r) /\ requests[r].key = key
                             /\ requests[r].intent = rows[key].intent
                             /\ requests[r].pair = rows[key].pair
    BY DEF OInv, TypeOK, RowAsked
  <2>2. requests[r].intent = intent
    BY <2>1 DEF OInv, KeyOwned
  <2> QED
    BY <2>1, <2>2 DEF OInv, OnePair
<1> QED
  BY <1>1, OrdersInvariant, PTL

LiveIntents == {rows[k].intent : k \in {c \in Key : rows[c].status = "open"}}
SpentIntents == {rows[k].intent : k \in {c \in Key : rows[c].status # "none"}}

(* A commit opens an intent that is not live and, unless in doubt, not     *)
(* spent: a row it had would have the request's own key.                   *)
LEMMA CommitOpens ==
  ASSUME OInv, NEW r \in Request, Commit(r)
  PROVE  Promise!Next \/ UNCHANGED Promise!vars
<1> DEFINE i == requests[r].intent
           k == requests[r].key
<1>1. Sent(r) /\ k \in Key /\ i \in Intent
  BY DEF OInv, TypeOK, Commit, At, Sent
<1>2. CASE KeyUsed(k)
  BY <1>2 DEF Commit, At, Promise!vars
<1>3. CASE ~KeyUsed(k)
  <2>1. /\ rows' = [rows EXCEPT ![k] = [intent |-> i, pair |-> requests[r].pair, status |-> "open"]]
        /\ UNCHANGED <<doubt, told>>
        /\ rows[k].status = "none"
    BY <1>1, <1>3, OrdersAssumption DEF Commit, At, KeyUsed
  <2>2. \A c \in Key : rows[c].status # "none" =>
          \E q \in Request : /\ Sent(q) /\ requests[q].key = c
                             /\ requests[q].intent = rows[c].intent
                             /\ requests[q].pair = rows[c].pair
    BY OrdersAssumption DEF OInv, RowAsked, KeyUsed
  <2>3. i \notin LiveIntents
    <3> SUFFICES ASSUME NEW c \in Key, rows[c].status = "open", rows[c].intent = i
                 PROVE  FALSE
      BY DEF LiveIntents
    <3>1. rows[c].pair = requests[r].pair
      BY <1>1, <2>2 DEF OInv, OnePair
    <3> QED
      BY <3>1 DEF Commit, PairOpen
  <2>4. i \notin SpentIntents \/ i \in doubt
    <3> SUFFICES ASSUME NEW c \in Key, rows[c].status # "none", rows[c].intent = i
                 PROVE  i \in doubt
      BY DEF SpentIntents
    <3>1. PICK q \in Request : Sent(q) /\ requests[q].key = c /\ requests[q].intent = i
      BY <2>2
    <3>2. c # k
      BY <2>1
    <3> QED
      BY <1>1, <3>1, <3>2 DEF OInv, OneKey
  <2>5. LiveIntents' = LiveIntents \cup {i}
    BY <1>1, <2>1 DEF OInv, TypeOK, LiveIntents
  <2>6. SpentIntents' = SpentIntents \cup {i}
    BY <1>1, <2>1 DEF OInv, TypeOK, SpentIntents
  <2> QED
    BY <1>1, <2>1, <2>3, <2>4, <2>5, <2>6
       DEF Promise!Next, Promise!Open, LiveIntents, SpentIntents
<1> QED
  BY <1>2, <1>3

(* A close ends the one live position of its intent.                       *)
LEMMA ClosePositionCloses ==
  ASSUME OInv, NEW k \in Key, ClosePosition(k)
  PROVE  Promise!Next
<1> DEFINE i == rows[k].intent
<1>1. /\ rows' = [rows EXCEPT ![k].status = "closed"]
      /\ rows[k].status = "open" /\ i \in Intent
      /\ UNCHANGED <<doubt, told>>
  BY DEF OInv, TypeOK, Row, ClosePosition
<1>2. \A c \in Key : rows[c].status = "open" /\ rows[c].intent = i => c = k
  <2> SUFFICES ASSUME NEW c \in Key, rows[c].status = "open", rows[c].intent = i
               PROVE  c = k
    OBVIOUS
  <2>1. rows[c].pair = rows[k].pair
    <3>1. PICK r \in Request : Sent(r) /\ requests[r].intent = i /\ requests[r].pair = rows[k].pair
      BY <1>1, OrdersAssumption DEF OInv, RowAsked, KeyUsed
    <3>2. PICK q \in Request : Sent(q) /\ requests[q].intent = i /\ requests[q].pair = rows[c].pair
      BY OrdersAssumption DEF OInv, RowAsked, KeyUsed
    <3> QED
      BY <3>1, <3>2 DEF OInv, OnePair
  <2> QED
    BY <1>1, <2>1 DEF OInv, OneOpen
<1>3. LiveIntents' = LiveIntents \ {i} /\ i \in LiveIntents
  BY <1>1, <1>2 DEF OInv, TypeOK, LiveIntents
<1>4. SpentIntents' = SpentIntents
  BY <1>1 DEF OInv, TypeOK, SpentIntents
<1> QED
  BY <1>1, <1>3, <1>4 DEF Promise!Next, Promise!Close, LiveIntents, SpentIntents

(* A success shown has a row to it, its own unless in doubt.               *)
LEMMA ToldOpenedTells ==
  ASSUME OInv, NEW r \in Request, ToldOpened(r)
  PROVE  Promise!Next
<1> DEFINE i == requests[r].intent
           k == requests[r].key
<1>1. call = r /\ r # None /\ requests[r].stage \in {"opened", "replayed"}
  BY OrdersAssumption DEF ToldOpened, Arrived
<1>2. Sent(r) /\ k \in Key /\ i \in Intent /\ KeyUsed(k)
  BY <1>1 DEF OInv, TypeOK, Answers, Sent
<1>3. PICK q \in Request : Sent(q) /\ requests[q].key = k /\ requests[q].intent = rows[k].intent
  BY <1>2 DEF OInv, RowAsked
<1>4. rows[k].intent = i \/ i \in doubt
  BY <1>1, <1>3 DEF OInv, KeyOwned
<1>5. i \in SpentIntents \/ i \in doubt
  BY <1>2, <1>4 DEF SpentIntents, KeyUsed
<1>6. told' = told \cup {i} /\ UNCHANGED <<rows, doubt>>
  BY DEF ToldOpened
<1>7. LiveIntents' = LiveIntents /\ SpentIntents' = SpentIntents
  BY <1>6 DEF LiveIntents, SpentIntents
<1> QED
  BY <1>2, <1>5, <1>6, <1>7 DEF Promise!Next, Promise!Tell, LiveIntents, SpentIntents

(* Orders implements Intents: an intent not in doubt is executed at most   *)
(* once and told truthfully, and none has two open positions.              *)
THEOREM OrdersKeepIntents == Spec => IntentsKept
<1>1. Init => Promise!Init
  BY DEF Init, NoRow, Promise!Init
<1>2. OInv /\ [Next]_vars => [Promise!Next]_(Promise!vars)
  <2> SUFFICES ASSUME OInv, [Next]_vars
               PROVE  Promise!Next \/ UNCHANGED Promise!vars
    OBVIOUS
  <2>1. ASSUME UNCHANGED <<rows, doubt, told>>
        PROVE  UNCHANGED Promise!vars
    BY <2>1 DEF Promise!vars
  <2>2. ASSUME NEW i \in Intent, doubt' = doubt \cup {i}, UNCHANGED <<rows, told>>
        PROVE  Promise!Next
    BY <2>2 DEF Promise!Next, Promise!Doubt
  <2>3. CASE UNCHANGED vars
    BY <2>1, <2>3 DEF vars
  <2>4. CASE Edit
    BY <2>1, <2>4 DEF Edit
  <2>5. CASE ChartPair
    <3>1. intent + 1 \in Intent
      BY <2>5, OrdersAssumption DEF ChartPair, OInv, TypeOK, Intent
    <3> QED
      BY <2>1, <2>2, <2>5, <3>1 DEF ChartPair
  <2>6. ASSUME NEW r \in Request, ToldError(r)
        PROVE  Promise!Next
    BY <2>2, <2>6 DEF ToldError, OInv, TypeOK
  <2>7. ASSUME NEW r \in Request,
               \/ Submit(r) \/ ToldRefused(r) \/ ToldUnavailable(r) \/ GatewayUnavailable(r)
               \/ Lookup(r) \/ Refuse(r)
        PROVE  UNCHANGED Promise!vars
    BY <2>1, <2>7 DEF Submit, ToldRefused, ToldUnavailable, GatewayUnavailable, Lookup, Refuse, At
  <2> QED
    BY <2>3, <2>4, <2>5, <2>6, <2>7, ToldOpenedTells, CommitOpens, ClosePositionCloses DEF Next
<1> QED
  BY <1>1, <1>2, OrdersInvariant, PTL DEF Spec, IntentsKept, Promise!Spec

=============================================================================
