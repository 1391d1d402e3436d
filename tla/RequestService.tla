--------------------------- MODULE RequestService ---------------------------
(***************************************************************************)
(* What a client of the dispatcher may rely on, with no word of hashing,   *)
(* budgets or migration: requests are accepted in the order they are sent, *)
(* wait, are posted once, are held by at most one replica at a time and    *)
(* only while their post is under way, and are finished when nobody holds  *)
(* them any more.                                                          *)
(***************************************************************************)
EXTENDS Workload

VARIABLES
  waiting,       \* requests accepted and not posted yet
  posted,        \* requests posted and not finished
  held,          \* [Replica -> requests it is prefilling or decoding]
  finished       \* requests whose answer, or failure, is known

serviceVars == <<waiting, posted, held, finished>>

ServiceInit ==
  /\ waiting = {} /\ posted = {} /\ finished = {}
  /\ held = [r \in Replica |-> {}]

Seen == waiting \union posted \union finished

Accept(q) ==
  /\ q \notin Seen
  /\ \A p \in Request : p < q => p \in Seen
  /\ waiting' = waiting \union {q}
  /\ UNCHANGED <<posted, held, finished>>

Post(q) ==
  /\ q \in waiting
  /\ waiting' = waiting \ {q}
  /\ posted' = posted \union {q}
  /\ UNCHANGED <<held, finished>>

Hold(r, q) ==
  /\ q \in posted
  /\ \A s \in Replica : q \notin held[s]
  /\ held' = [held EXCEPT ![r] = @ \union {q}]
  /\ UNCHANGED <<waiting, posted, finished>>

Release(r, q) ==
  /\ q \in posted
  /\ q \in held[r]
  /\ held' = [held EXCEPT ![r] = @ \ {q}]
  /\ UNCHANGED <<waiting, posted, finished>>

Finish(q) ==
  /\ q \in posted
  /\ \A s \in Replica : q \notin held[s]
  /\ posted' = posted \ {q}
  /\ finished' = finished \union {q}
  /\ UNCHANGED <<waiting, held>>

ServiceNext ==
  \E q \in Request :
    \/ Accept(q) \/ Post(q) \/ Finish(q)
    \/ \E r \in Replica : Hold(r, q) \/ Release(r, q)

ServiceSpec == ServiceInit /\ [][ServiceNext]_serviceVars
=============================================================================
