------------------------------ MODULE Runtime ------------------------------
(***************************************************************************)
(* The federation as the FederateAmbassador sees it through the external   *)
(* _rti1516 runtime (not in the repository; modelled from the HLA          *)
(* delivery rules).  Another federate registers object instances, updates  *)
(* their attribute and deletes them.  Each event travels in receive order  *)
(* (RO) or timestamp order (TSO): the two channels are each FIFO and are   *)
(* drained in any interleaving, a TSO message at the next time grant.      *)
(* Discovery is always RO.  The runtime keeps its own record of the        *)
(* instances it has announced to this federate (known), holds an update    *)
(* or delete back until the instance's discover has been delivered, and    *)
(* drops one for an instance it has already removed.  A name is free for a new registration once its instance is    *)
(* deleted at its owner, which may be before this federate has received   *)
(* the (TSO) remove.                                                       *)
(***************************************************************************)
EXTENDS Naturals, Sequences, TLC

CONSTANTS
  Handles,     \* object instance handles
  Names,       \* object instance names
  Values,      \* decoded attribute values
  MaxUpdates   \* attribute updates the other federate sends

Orders == {"RO", "TSO"}

VARIABLES
  remote,    \* remote[h]: "unused", "live" or "deleted" at the owning federate
  nameOf,    \* the name each registered handle was registered with
  chan,      \* chan[o]: the callbacks in flight in order o
  known,     \* the instances the runtime has announced and not yet removed
  announced, \* the instances the runtime has ever announced
  updates    \* updates sent so far

envVars == <<remote, nameOf, chan, known, announced, updates>>

RuntimeInit ==
  /\ remote = [h \in Handles |-> "unused"]
  /\ nameOf = [h \in {} |-> CHOOSE n \in Names : TRUE]
  /\ chan = [o \in Orders |-> <<>>]
  /\ known = {}
  /\ announced = {}
  /\ updates = 0

Send(o, m) == chan' = [chan EXCEPT ![o] = Append(@, m)]

(* registerObjectInstance(name) at the owner, discovered here in RO.       *)
Register(h, n) ==
  /\ remote[h] = "unused"
  /\ \A g \in DOMAIN nameOf : remote[g] = "live" => nameOf[g] # n
  /\ remote' = [remote EXCEPT ![h] = "live"]
  /\ nameOf' = (h :> n) @@ nameOf
  /\ Send("RO", [type |-> "discover", h |-> h, name |-> n])
  /\ UNCHANGED <<known, announced, updates>>

(* updateAttributeValues at the owner.                                     *)
Update(h, v, o) ==
  /\ remote[h] = "live"
  /\ updates < MaxUpdates
  /\ Send(o, [type |-> "reflect", h |-> h, value |-> v])
  /\ updates' = updates + 1
  /\ UNCHANGED <<remote, nameOf, known, announced>>

(* deleteObjectInstance at the owner; the name is free from now on.        *)
Delete(h, o) ==
  /\ remote[h] = "live"
  /\ remote' = [remote EXCEPT ![h] = "deleted"]
  /\ Send(o, [type |-> "remove", h |-> h])
  /\ UNCHANGED <<nameOf, known, announced, updates>>

Owner ==
  \E h \in Handles :
    \/ \E n \in Names : Register(h, n)
    \/ \E v \in Values, o \in Orders : Update(h, v, o)
    \/ \E o \in Orders : Delete(h, o)

(* The next callback of channel o, whether the runtime hands it to the     *)
(* federate ambassador now, and whether it drops it as stale.              *)
Pending(o) == Head(chan[o])
Deliverable(o) == chan[o] # <<>> /\ (Pending(o).type = "discover" \/ Pending(o).h \in known)
Stale(o) == chan[o] # <<>> /\ Pending(o).type # "discover" /\ Pending(o).h \in announced \ known

(* The runtime's side of handing Pending(o) to the ambassador.             *)
Consume(o) ==
  /\ chan' = [chan EXCEPT ![o] = Tail(@)]
  /\ known' = CASE Pending(o).type = "discover" -> known \cup {Pending(o).h}
                [] Pending(o).type = "remove"   -> known \ {Pending(o).h}
                [] OTHER                        -> known
  /\ announced' = IF Pending(o).type = "discover" THEN announced \cup {Pending(o).h} ELSE announced
  /\ UNCHANGED <<remote, nameOf, updates>>

(* An update or delete of an instance already removed here is dropped.    *)
DropStale(o) ==
  /\ Stale(o)
  /\ chan' = [chan EXCEPT ![o] = Tail(@)]
  /\ UNCHANGED <<remote, nameOf, known, announced, updates>>
=============================================================================
