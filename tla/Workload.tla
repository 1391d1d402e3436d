------------------------------ MODULE Workload ------------------------------
(***************************************************************************)
(* What the dispatcher is given: the replicas it serves and the requests   *)
(* the generator produces (entities/request.py).  A request is its arrival *)
(* number: the generator hands requests out one at a time, so the order of *)
(* _id and the order of _arrived_at coincide, and _arrived_at is needed    *)
(* only as an order.  A prompt is abstracted to its length and to the      *)
(* length of the prefix it shares with earlier prompts of its session.     *)
(***************************************************************************)
EXTENDS Integers

CONSTANTS
  NumReplicas,   \* replicas of the experiment, numbered from 0
  NumRequests,   \* requests of the dataset that pass the generator's filter
  Sessions,      \* families of prompts that share a prefix
  SessionOf,     \* the family of each request
  Prefill,       \* _num_prefill_tokens, which is len(_input_ids)
  Shared,        \* tokens in the full KV blocks a cached family saves a request
  Blocks,        \* ceil((len(_input_ids) + _output_len) / block_size)
  Hash1, Hash2   \* ring positions of the request's shortest prefix

Replica == 0 .. NumReplicas - 1
Request == 1 .. NumRequests

ASSUME ReplicasAssumption == NumReplicas \in Nat \ {0}

ASSUME RequestsAssumption ==
  /\ NumRequests \in Nat
  /\ SessionOf \in [Request -> Sessions]
  /\ Prefill \in [Request -> Nat \ {0}]
  /\ Shared \in [Request -> Nat]
  /\ \A q \in Request : Shared[q] <= Prefill[q]
  /\ Blocks \in [Request -> Nat]
  /\ Hash1 \in [Request -> Replica]
  /\ Hash2 \in [Request -> Replica]

(* The two replicas a request may be mapped to.  A collision of the rings  *)
(* is resolved by taking the next replica.                                 *)
First(q) == Hash1[q]
Second(q) == IF Hash2[q] = Hash1[q] THEN (Hash1[q] + 1) % NumReplicas
                                    ELSE Hash2[q]
=============================================================================
