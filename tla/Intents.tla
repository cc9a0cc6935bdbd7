------------------------------- MODULE Intents ---------------------------------
(***************************************************************************)
(* What a user may expect of the position ticket and the server together,  *)
(* whatever requests, retries and answers cross between them: an intent -  *)
(* one ticket as filled in and submitted - is executed at most once, and   *)
(* told as opened only if it was.  The exception are intents in doubt.     *)
(* Even those never have two open positions at a time.                     *)
(***************************************************************************)
CONSTANT Intent

VARIABLES
  live,    \* intents with an open position
  spent,   \* intents that have been executed
  doubt,   \* intents for which no more than `live` is promised
  told     \* intents the user was told have opened

vars == <<live, spent, doubt, told>>

Init == live = {} /\ spent = {} /\ doubt = {} /\ told = {}

Open(i) ==
  /\ i \notin live
  /\ i \notin spent \/ i \in doubt
  /\ live' = live \cup {i}
  /\ spent' = spent \cup {i}
  /\ UNCHANGED <<doubt, told>>

Close(i) ==
  /\ i \in live
  /\ live' = live \ {i}
  /\ UNCHANGED <<spent, doubt, told>>

Doubt(i) ==
  /\ doubt' = doubt \cup {i}
  /\ UNCHANGED <<live, spent, told>>

Tell(i) ==
  /\ i \in spent \/ i \in doubt
  /\ told' = told \cup {i}
  /\ UNCHANGED <<live, spent, doubt>>

Next == \E i \in Intent : Open(i) \/ Close(i) \/ Doubt(i) \/ Tell(i)

Spec == Init /\ [][Next]_vars

=============================================================================
