-------------------------- MODULE AbstractInstances --------------------------
(***************************************************************************)
(* What the federate ambassador's object instance table promises: it holds *)
(* exactly the instances the runtime has announced and not removed, each    *)
(* with the name it was discovered under and the value of the last         *)
(* reflect delivered for it (Empty before the first).  Its steps are the   *)
(* deliveries of the runtime; the owner's steps leave it alone.            *)
(***************************************************************************)
EXTENDS Runtime

CONSTANT Empty   \* the attribute slot before any reflect ([] in the code)

VARIABLE live    \* handle -> [name, value]

absVars == <<envVars, live>>

Init == RuntimeInit /\ live = [h \in {} |-> [name |-> Empty, value |-> Empty]]

(* One callback handed over: the table follows it.                         *)
Deliver(o) ==
  /\ Deliverable(o)
  /\ Consume(o)
  /\ LET m == Pending(o) IN
     live' = CASE m.type = "discover" -> (m.h :> [name |-> m.name, value |-> Empty]) @@ live
               [] m.type = "reflect"  -> [live EXCEPT ![m.h].value = m.value]
               [] m.type = "remove"   -> [g \in DOMAIN live \ {m.h} |-> live[g]]

Next ==
  \/ Owner /\ UNCHANGED live
  \/ \E o \in Orders : Deliver(o) \/ (DropStale(o) /\ UNCHANGED live)

Spec == Init /\ [][Next]_absVars
=============================================================================
