------------------------------ MODULE AckService ------------------------------
(***************************************************************************)
(* What a pair of connections promises the programs that use it: each       *)
(* packet an end submits is pending until it settles, once and for good, as *)
(* acknowledged or as lost; one the socket refused has failed from the      *)
(* start and never arrives.  What an end takes as acknowledged did arrive,  *)
(* as long as the numbers of its packets tell them apart.                   *)
(*                                                                         *)
(* Nothing is promised about when a packet settles, and a packet deemed     *)
(* lost may have arrived, or arrive later.                                  *)
(***************************************************************************)
EXTENDS Integers

CONSTANTS
  Endpoint,
  Peer          \* Peer[e] is the end that the packets of e are for

VARIABLES
  sent,         \* the number of packets submitted; they count from 1
  pending,      \* of each end, the packets in each state
  acked,
  lost,
  failed,
  received,     \* the packets of its peer that arrived at each end
  unambiguous   \* the ends that have given no two packets the same number

vars == <<sent, pending, acked, lost, failed, received, unambiguous>>

Init ==
  /\ sent = [e \in Endpoint |-> 0]
  /\ pending = [e \in Endpoint |-> {}]
  /\ acked = [e \in Endpoint |-> {}]
  /\ lost = [e \in Endpoint |-> {}]
  /\ failed = [e \in Endpoint |-> {}]
  /\ received = [e \in Endpoint |-> {}]
  /\ unambiguous = Endpoint

Add(packets, e, S) == [packets EXCEPT ![e] = @ \cup S]

Submit(e) ==
  /\ sent' = [sent EXCEPT ![e] = @ + 1]
  /\ \/ /\ pending' = Add(pending, e, {sent[e] + 1})
        /\ UNCHANGED failed
     \/ /\ failed' = Add(failed, e, {sent[e] + 1})
        /\ UNCHANGED pending
  /\ unambiguous' \subseteq unambiguous
  /\ UNCHANGED <<acked, lost, received>>

\* A packet arrives at e, and tells it that packets of its own did arrive.
Arrive(e) ==
  \E n \in 1 .. sent[Peer[e]], S \in SUBSET pending[e] :
    /\ n \notin failed[Peer[e]]
    /\ e \in unambiguous => S \subseteq received[Peer[e]]
    /\ received' = Add(received, e, {n})
    /\ pending' = [pending EXCEPT ![e] = @ \ S]
    /\ acked' = Add(acked, e, S)
    /\ UNCHANGED <<sent, lost, failed, unambiguous>>

\* Packets are given up for their age, or because the end starts anew, and
\* counts from 1 again.
GiveUp(e) ==
  \E S \in SUBSET pending[e] :
    /\ pending' = [pending EXCEPT ![e] = @ \ S]
    /\ lost' = Add(lost, e, S)
    /\ unambiguous' \subseteq unambiguous
    /\ UNCHANGED <<sent, acked, failed, received>>

Next == \E e \in Endpoint : Submit(e) \/ Arrive(e) \/ GiveUp(e)

Spec == Init /\ [][Next]_vars
=============================================================================
