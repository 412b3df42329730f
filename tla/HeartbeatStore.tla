--------------------------- MODULE HeartbeatStore ---------------------------
(***************************************************************************)
(* coordinator/node_liveness_store.rs: the last heartbeat of every node,   *)
(* and the change of the device that speaks for it.                        *)
(*                                                                         *)
(* Heartbeats arrive in any order and more than once: they are signed      *)
(* messages, and a session may carry an old one.  A row keeps the columns  *)
(* and, in body, the message they were taken from.                         *)
(***************************************************************************)
EXTENDS SchedulerKernels

CONSTANTS
    Nodes, Devices,
    MaxIssued,             \* bound: instants at which heartbeats are issued
    MaxEpoch, MaxAttempts  \* bounds: what a heartbeat tells

VARIABLES
    row,        \* coordinator_node_liveness
    pending,    \* coordinator_node_pending_rebind: the expected device, or None
    received,   \* history: heartbeats taken for the node since it was last bound
    named       \* history: the device the operator named last, or None

hbVars == <<row, pending, received, named>>

Heartbeat ==
    [device : Devices, issued : 0 .. MaxIssued, epoch : 0 .. MaxEpoch,
     attempts : 0 .. MaxAttempts]

HeartbeatRows ==
    [device : Devices, issued : 0 .. MaxIssued, epoch : 0 .. MaxEpoch,
     attempts : 0 .. MaxAttempts, signer : Devices, body : Heartbeat]

ASSUME HeartbeatAssumption ==
    /\ MaxIssued \in Nat /\ MaxEpoch \in Nat /\ MaxAttempts \in Nat
    /\ None \notin Devices \cup HeartbeatRows

Stored(hb, device) ==
    [device |-> device, issued |-> hb.issued, epoch |-> hb.epoch,
     attempts |-> hb.attempts, signer |-> device, body |-> hb]

\* decode_row: the columns must repeat what the body says.
DecodeRow(r) ==
    IF /\ r.body.device = r.device /\ r.body.device = r.signer
       /\ r.body.issued = r.issued
       /\ r.body.epoch = r.epoch
       /\ r.body.attempts = r.attempts
    THEN r.body
    ELSE Refused

HeartbeatInit ==
    /\ row = [n \in Nodes |-> None]
    /\ pending = [n \in Nodes |-> None]
    /\ received = [n \in Nodes |-> {}]
    /\ named = [n \in Nodes |-> None]

-----------------------------------------------------------------------------

\* Mutant of the next definition: only the time of the heartbeat is compared.
OvertakesByTime(hb, r) == hb.issued > r.issued

\* The comparison is that of the classification (rank of the scheduler): if the
\* store compared less than that, the result would depend on the order of arrival.
Overtakes(hb, r) == OutRanks(hb, r)

\* observe.  Without a row the node is open to any device, unless the operator
\* named one; with a row, to the device of that row.
Observe(n, hb, signer) ==
    /\ hb.issued > 0
    /\ signer = hb.device
    /\ \/ /\ row[n] = None
          /\ pending[n] \in {None, hb.device}
          /\ pending' = [pending EXCEPT ![n] = None]
          /\ row' = [row EXCEPT ![n] = Stored(hb, hb.device)]
       \/ /\ row[n] # None
          /\ row[n].device = hb.device
          /\ row' = IF Overtakes(hb, row[n])
                    THEN [row EXCEPT ![n] = Stored(hb, hb.device)]
                    ELSE row
          /\ UNCHANGED pending
    /\ received' = [received EXCEPT ![n] = @ \cup {hb}]
    /\ UNCHANGED named

\* rebind_device: the row goes, and the next heartbeat must come from the device
\* that is named.  There must be something to change.
RebindDevice(n, d) ==
    /\ row[n] # None \/ pending[n] # None
    /\ d # IF row[n] # None THEN row[n].device ELSE pending[n]
    /\ row' = [row EXCEPT ![n] = None]
    /\ pending' = [pending EXCEPT ![n] = d]
    /\ received' = [received EXCEPT ![n] = {}]
    /\ named' = [named EXCEPT ![n] = d]

\* cancel_rebind.
CancelRebind(n) ==
    /\ pending[n] # None
    /\ pending' = [pending EXCEPT ![n] = None]
    /\ named' = [named EXCEPT ![n] = None]
    /\ UNCHANGED <<row, received>>

HeartbeatNext ==
    \E n \in Nodes :
        \/ \E hb \in Heartbeat, signer \in Devices : Observe(n, hb, signer)
        \/ \E d \in Devices : RebindDevice(n, d)
        \/ CancelRebind(n)

-----------------------------------------------------------------------------

\* load_all: what a reader of the table gets.
LoadAll == {DecodeRow(row[n]) : n \in {m \in Nodes : row[m] # None}}

\* What the store keeps of a node is what the classification would select from
\* all heartbeats it took for it, whatever the order and however often they came
\* (node_liveness_store.rs:499-505); nothing it reads back is corrupt.
LatestHeartbeatKept ==
    LoadAll = {SelectObservation(received[n]) : n \in {m \in Nodes : received[m] # {}}}

\* Once the operator has named a device for a node, no other device speaks for
\* it until he takes that back, whether the named one has spoken yet or not
\* (rebind_device).
NamedDeviceSpeaks ==
    \A n \in Nodes :
        named[n] # None =>
            /\ row[n] = None => pending[n] = named[n]
            /\ row[n] # None => row[n].device = named[n]

=============================================================================
