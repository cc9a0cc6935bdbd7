-------------------------------- MODULE Orders ---------------------------------
(***************************************************************************)
(* The position ticket, its requests and what the server makes of them:    *)
(* how an idempotency key travels.                                         *)
(*                                                                         *)
(* The ticket awaits one request at a time.  A request goes on at the      *)
(* server when the ticket has stopped waiting for it (the network failed,  *)
(* or something between the two answered 503), so an old request can still *)
(* commit while its retry runs.  open_position is here only what decides   *)
(* about keys: lookup by key -> pricing and lock -> clash, key conflict or *)
(* commit; module Trading has the rest.                                    *)
(*                                                                         *)
(* An intent is one filling-in of the ticket: it ends when the user        *)
(* changes the ticket and when an answer settles it.                       *)
(***************************************************************************)
EXTENDS Integers

CONSTANTS
  Request,    \* requests the ticket sends
  Key,        \* values of crypto.randomUUID()
  Pair,       \* supported pairs
  MaxIntent,  \* bound: the number of the last intent
  None

ASSUME OrdersAssumption ==
  /\ MaxIntent \in Nat
  /\ None \notin Key \cup Request

VARIABLES
  pair,      \* the ticket's pair, shared with the chart
  key,       \* idempotencyKey.current
  intent,    \* the number of the present intent
  call,      \* the request the ticket awaits
  requests,  \* each request: its key, intent and pair, and where it stands
  rows,      \* the position committed under each key
  doubt,     \* intents retried, or taken over from another, under the wrong key
  told       \* intents the ticket has shown as opened

vars == <<pair, key, intent, call, requests, rows, doubt, told>>

Intent == 0..MaxIntent
Stage == {"unsent", "sent", "priced", "opened", "replayed", "refused", "unavailable", "over"}
Answered == {"opened", "replayed", "refused", "unavailable"}

Unsent == [key |-> None, intent |-> 0, pair |-> None, stage |-> "unsent"]
NoRow == [intent |-> 0, pair |-> None, status |-> "none"]

Init ==
  /\ pair \in Pair
  /\ key = None /\ intent = 0 /\ call = None
  /\ requests = [r \in Request |-> Unsent]
  /\ rows = [k \in Key |-> NoRow]
  /\ doubt = {} /\ told = {}

KeyUsed(k) == k # None /\ rows[k].status # "none"
PairOpen(p) == \E k \in Key : rows[k].status = "open" /\ rows[k].pair = p
Fresh(k) == k # key /\ \A r \in Request : requests[r].key # k

-----------------------------------------------------------------------------
(* The ticket.                                                             *)

(* Slip: the key is kept. *)
EditKeepsKey ==
  /\ intent < MaxIntent
  /\ pair' \in Pair
  /\ intent' = intent + 1
  /\ UNCHANGED <<key, call, requests, rows, doubt, told>>

(* Side, pair, leverage or collateral is changed on the ticket, or the     *)
(* notice dismissed: resetIntent.                                          *)
Edit ==
  /\ intent < MaxIntent
  /\ pair' \in Pair
  /\ key' = None
  /\ intent' = intent + 1
  /\ UNCHANGED <<call, requests, rows, doubt, told>>

(* The pair is changed on the chart, which shares it with the ticket: the  *)
(* key stays.                                                              *)
ChartPair ==
  /\ intent < MaxIntent
  /\ pair' \in Pair \ {pair}
  /\ intent' = intent + 1
  /\ doubt' = IF key = None THEN doubt ELSE doubt \cup {intent + 1}
  /\ UNCHANGED <<key, call, requests, rows, told>>

(* Slip: a first submission goes out without a key. *)
SubmitUnminted(r) ==
  /\ call = None
  /\ requests[r].stage = "unsent"
  /\ requests' = [requests EXCEPT ![r] =
                    [key |-> key, intent |-> intent, pair |-> pair, stage |-> "sent"]]
  /\ call' = r
  /\ UNCHANGED <<pair, key, intent, rows, doubt, told>>

(* A key is minted unless one is kept. *)
Submit(r) ==
  /\ call = None
  /\ requests[r].stage = "unsent"
  /\ \E k \in Key :
       /\ IF key = None THEN Fresh(k) ELSE k = key
       /\ key' = k
       /\ requests' = [requests EXCEPT ![r] =
                         [key |-> k, intent |-> intent, pair |-> pair, stage |-> "sent"]]
  /\ call' = r
  /\ UNCHANGED <<pair, intent, rows, doubt, told>>

Arrived(r, stage) ==
  /\ call = r
  /\ requests[r].stage = stage
  /\ requests' = [requests EXCEPT ![r].stage = "over"]
  /\ call' = None

(* 201: the order is shown as opened and the ticket emptied. *)
ToldOpened(r) ==
  /\ Arrived(r, "opened") \/ Arrived(r, "replayed")
  /\ intent < MaxIntent
  /\ told' = told \cup {requests[r].intent}
  /\ key' = None
  /\ intent' = intent + 1
  /\ UNCHANGED <<pair, rows, doubt>>

(* 402, 403, 409 or 422: whatever the user submits next is a new intent. *)
ToldRefused(r) ==
  /\ Arrived(r, "refused")
  /\ intent < MaxIntent
  /\ key' = None
  /\ intent' = intent + 1
  /\ UNCHANGED <<pair, rows, doubt, told>>

(* 503 of the server, or 401: the key is kept for the retry. *)
ToldUnavailable(r) ==
  /\ Arrived(r, "unavailable")
  /\ UNCHANGED <<pair, key, intent, rows, doubt, told>>

(* 503 of a gateway while the request goes on. *)
GatewayUnavailable(r) ==
  /\ call = r
  /\ call' = None
  /\ UNCHANGED <<pair, key, intent, requests, rows, doubt, told>>

(* Any other failure - 429, 5xx, no answer at all - with the request       *)
(* anywhere, committed or not.  "Try again" will mint a new key.           *)
ToldError(r) ==
  /\ call = r
  /\ call' = None
  /\ key' = None
  /\ doubt' = doubt \cup {requests[r].intent}
  /\ UNCHANGED <<pair, intent, requests, rows, told>>

-----------------------------------------------------------------------------
(* The server.                                                             *)

At(r, from, to) ==
  /\ requests[r].stage = from
  /\ requests' = [requests EXCEPT ![r].stage = to]
  /\ UNCHANGED <<pair, key, intent, call, doubt, told>>

(* The first SELECT by key finds the row; the request goes on to pricing;  *)
(* or it ends there: refused, no market data, no session.                  *)
Lookup(r) ==
  /\ \/ KeyUsed(requests[r].key) /\ At(r, "sent", "replayed")
     \/ ~KeyUsed(requests[r].key) /\ \E to \in {"priced", "refused"} : At(r, "sent", to)
     \/ At(r, "sent", "unavailable")
  /\ UNCHANGED rows

(* Not enough cash, or a position open on the pair - even if it is this    *)
(* key's. *)
Refuse(r) ==
  /\ At(r, "priced", "refused")
  /\ UNCHANGED rows

(* Slip: the unique violation taken for a success. *)
CommitAgain(r) ==
  LET request == requests[r]
  IN  /\ ~PairOpen(request.pair)
      /\ At(r, "priced", "opened")
      /\ rows' = [rows EXCEPT ![request.key] =
                    [intent |-> request.intent, pair |-> request.pair, status |-> "open"]]

(* The row, if neither the pair nor the key has one; the row of the key,   *)
(* if the insert finds that.                                               *)
Commit(r) ==
  LET request == requests[r]
  IN  /\ ~PairOpen(request.pair)
      /\ \/ /\ ~KeyUsed(request.key)
            /\ At(r, "priced", "opened")
            /\ rows' = [rows EXCEPT ![request.key] =
                          [intent |-> request.intent, pair |-> request.pair, status |-> "open"]]
         \/ /\ KeyUsed(request.key)
            /\ At(r, "priced", "replayed")
            /\ UNCHANGED rows

(* By the user, the liquidator or a reset. *)
ClosePosition(k) ==
  /\ rows[k].status = "open"
  /\ rows' = [rows EXCEPT ![k].status = "closed"]
  /\ UNCHANGED <<pair, key, intent, call, requests, doubt, told>>

Next ==
  \/ Edit \/ ChartPair
  \/ \E r \in Request :
       \/ Submit(r)
       \/ ToldOpened(r) \/ ToldRefused(r) \/ ToldUnavailable(r)
       \/ GatewayUnavailable(r) \/ ToldError(r)
       \/ Lookup(r) \/ Refuse(r) \/ Commit(r)
  \/ \E k \in Key : ClosePosition(k)

Spec == Init /\ [][Next]_vars

-----------------------------------------------------------------------------
Row == [intent : Intent, pair : Pair \cup {None}, status : {"none", "open", "closed"}]

(* Types. *)
TypeOK ==
  /\ pair \in Pair /\ key \in Key \cup {None} /\ intent \in Intent
  /\ call \in Request \cup {None}
  /\ requests \in [Request -> [key : Key \cup {None}, intent : Intent,
                               pair : Pair \cup {None}, stage : Stage]]
  /\ \A r \in Request : requests[r].stage # "unsent" => requests[r].key # None
  /\ rows \in [Key -> Row]
  /\ doubt \subseteq Intent /\ told \subseteq Intent

(* The key the ticket keeps for a retry has opened nothing but what the    *)
(* ticket now says, unless the pair was changed on the chart: a retry      *)
(* never brings back an order the user has since changed.                  *)
KeyIsOfTicket ==
  key # None =>
    \/ intent \in doubt
    \/ ~KeyUsed(key)
    \/ rows[key].intent = intent /\ rows[key].pair = pair

(* The promise of module Intents: executed once, told truthfully, never    *)
(* two positions at a time.                                                *)
Promise == INSTANCE Intents WITH
  live  <- {rows[k].intent : k \in {c \in Key : rows[c].status = "open"}},
  spent <- {rows[k].intent : k \in {c \in Key : rows[c].status # "none"}}

IntentsKept == Promise!Spec

=============================================================================
