---------------------------- MODULE InstanceTable ----------------------------
(***************************************************************************)
(* FederateAmbassador's object instance table: the NameHandleMap           *)
(* __objectInstanceMap (two dicts, handle -> instance and name ->          *)
(* instance) and the discover / reflect / remove callbacks that change it, *)
(* driven by the runtime of module Runtime.  An instance object is         *)
(* identified by its handle; its one attribute slot holds Empty ([]) until *)
(* a reflect stores the decoded value.  An exception a callback raises is   *)
(* recorded in raised and leaves the dicts as the code left them.          *)
(***************************************************************************)
EXTENDS Runtime

CONSTANT Empty

VARIABLES
  handleMap,  \* __handleMap: handle -> [name, value] (the instance)
  nameMap,    \* __nameMap: name -> handle of the instance stored under it
  raised      \* the callbacks that raised: [callback, h, error]

vars == <<envVars, handleMap, nameMap, raised>>

tableVars == <<handleMap, nameMap, raised>>

Drop(f, k) == [x \in DOMAIN f \ {k} |-> f[x]]

Raise(cb, h, e) == raised' = raised \cup {[callback |-> cb, h |-> h, error |-> e]}

(* createObjectInstance: an ObjectInstance whose insertAttribute set its   *)
(* slot to [].                                                             *)
NewInstance(n) == [name |-> n, value |-> Empty]

(* ObjectInstance.reflectAttributeValues: the decoded value into the slot. *)
SetSlot(inst, v) == [inst EXCEPT !.value = v]

(* NameHandleMap.insert: both dicts, the name entry overwritten.           *)
(* Mutation: the name dict keyed by the handle.                           *)
InsertKeyedByHandle(h, n) ==
  /\ handleMap' = (h :> NewInstance(n)) @@ handleMap
  /\ nameMap' = (h :> h) @@ nameMap

Insert(h, n) ==
  /\ handleMap' = (h :> NewInstance(n)) @@ handleMap
  /\ nameMap' = (n :> h) @@ nameMap

(* NameHandleMap.get(key): the handle dict, then the name dict.            *)
Get(key) ==
  IF key \in DOMAIN handleMap THEN key
  ELSE IF key \in DOMAIN nameMap THEN nameMap[key] ELSE "KeyError"

(* Mutations of Erase: the name entry deleted first, so a missing one      *)
(* raises before the handle entry goes; and the instance the name maps to  *)
(* erased in place of the one given.                                       *)
EraseNameFirst(h) ==
  LET n == handleMap[h].name IN
  IF n \in DOMAIN nameMap
    THEN /\ handleMap' = Drop(handleMap, h)
         /\ nameMap' = Drop(nameMap, n)
         /\ UNCHANGED raised
    ELSE /\ Raise("removeObjectInstance", h, "KeyError")
         /\ UNCHANGED <<handleMap, nameMap>>

EraseByName(h) ==
  LET n == handleMap[h].name
      g == IF n \in DOMAIN nameMap THEN nameMap[n] ELSE h
  IN  /\ handleMap' = Drop(handleMap, g)
      /\ nameMap' = Drop(nameMap, n)
      /\ UNCHANGED raised

(* NameHandleMap.erase(instance): del __handleMap[handle], then            *)
(* del __nameMap[name], which raises KeyError if another erase already     *)
(* deleted that name entry.                                                *)
Erase(h) ==
  LET n == handleMap[h].name IN
  /\ handleMap' = Drop(handleMap, h)
  /\ IF n \in DOMAIN nameMap
       THEN nameMap' = Drop(nameMap, n) /\ UNCHANGED raised
       ELSE UNCHANGED nameMap /\ Raise("removeObjectInstance", h, "KeyError")

(* discoverObjectInstance: the class's createObjectInstance (attribute     *)
(* slots set to []), then insertObjectInstance.                            *)
DiscoverObjectInstance(o) ==
  /\ Deliverable(o)
  /\ Pending(o).type = "discover"
  /\ Consume(o)
  /\ Insert(Pending(o).h, Pending(o).name)
  /\ UNCHANGED raised

(* reflectAttributeValues: getObjectInstance(handle), then the decoded     *)
(* value into the instance's slot.                                         *)
ReflectAttributeValues(o) ==
  /\ Deliverable(o)
  /\ Pending(o).type = "reflect"
  /\ Consume(o)
  /\ LET h == Get(Pending(o).h) IN
     IF h = "KeyError"
       THEN Raise("reflectAttributeValues", Pending(o).h, "KeyError") /\ UNCHANGED <<handleMap, nameMap>>
       ELSE handleMap' = [handleMap EXCEPT ![h] = SetSlot(@, Pending(o).value)] /\ UNCHANGED <<nameMap, raised>>

(* removeObjectInstance: getObjectInstance(handle), then erase it.         *)
RemoveObjectInstance(o) ==
  /\ Deliverable(o)
  /\ Pending(o).type = "remove"
  /\ Consume(o)
  /\ LET h == Get(Pending(o).h) IN
     IF h = "KeyError"
       THEN Raise("removeObjectInstance", Pending(o).h, "KeyError") /\ UNCHANGED <<handleMap, nameMap>>
       ELSE Erase(h)

Init ==
  /\ RuntimeInit
  /\ handleMap = [h \in {} |-> [name |-> Empty, value |-> Empty]]
  /\ nameMap = [n \in {} |-> CHOOSE h \in Handles : TRUE]
  /\ raised = {}

(* Evoking a callback: the runtime hands the ambassador its next one.      *)
Callback(o) ==
  \/ DiscoverObjectInstance(o)
  \/ ReflectAttributeValues(o)
  \/ RemoveObjectInstance(o)
  \/ DropStale(o) /\ UNCHANGED tableVars

Next ==
  \/ Owner /\ UNCHANGED tableVars
  \/ \E o \in Orders : Callback(o)

(* An assumption about the application and the runtime, not code of this  *)
(* module: the application keeps calling evokeCallback, and, for the TSO   *)
(* channel, keeps requesting time advances that the runtime grants, so a   *)
(* callback that stays pending in a channel is eventually delivered.      *)
Fairness == \A o \in Orders : WF_vars(Callback(o))

Spec == Init /\ [][Next]_vars /\ Fairness
-----------------------------------------------------------------------------
TypeOK ==
  /\ DOMAIN handleMap \subseteq Handles
  /\ \A h \in DOMAIN handleMap : handleMap[h].name \in Names /\ handleMap[h].value \in Values \cup {Empty}
  /\ DOMAIN nameMap \subseteq Names
  /\ \A n \in DOMAIN nameMap : nameMap[n] \in Handles

(* The code's handle dict implements the abstract table, through every     *)
(* interleaving of RO and TSO callbacks and every exception a callback     *)
(* raises half way.                                                        *)
Abs == INSTANCE AbstractInstances WITH live <- handleMap

ImplementsAbstractInstances == Abs!Spec

(* An instance the owner deleted is eventually gone from the table, even   *)
(* when its remove raises.                                                 *)
EventuallyForgotten == \A h \in Handles : remote[h] = "deleted" ~> h \notin DOMAIN handleMap

(* getObjectInstance(name) finds every live instance whose name no other   *)
(* live instance carries.                                                  *)
NameLookupFindsInstance ==
  \A h \in DOMAIN handleMap :
    (\A g \in DOMAIN handleMap \ {h} : handleMap[g].name # handleMap[h].name)
      => Get(handleMap[h].name) = h
=============================================================================
