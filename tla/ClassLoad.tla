----------------------------- MODULE ClassLoad -----------------------------
(***************************************************************************)
(* The class half of Federate.readFOM, composed with the parse of module   *)
(* ClassParser, and the FederateAmbassador's object class table it fills:  *)
(* getInteractionClassList, then one iteration per interaction class       *)
(* (createInteractionClass, insertInteractionClass, publish and subscribe), *)
(* then getObjectClassList and one iteration per object class              *)
(* (createObjectClass, an ObjectClassAttribute per entry of the attribute  *)
(* list inserted into the class's NameHandleMap, insertObjectClass, then   *)
(* publish and subscribe of the attribute handle set).  After the load,    *)
(* discoverObjectInstance creates instances through createObjectInstance.  *)
(*                                                                         *)
(* Handles come from the external runtime: a class's handle stands for its *)
(* position in the list and an attribute's for its name, both unique as   *)
(* the FOM's names are.  createObjectClass and createInteractionClass are  *)
(* the hooks a Federate subclass overrides; either may decline a class     *)
(* (return None), which the loop skips.  The runtime discovers instances   *)
(* of subscribed classes only, so objectClassMap[classHandle] finds the    *)
(* class.  setEncoder is module SchemaLoad's; data types are left out.     *)
(***************************************************************************)
EXTENDS ClassParser, TLC

VARIABLES
  load,            \* the loop readFOM is in: "parse", a kind, or "done"
  cursor,          \* 0 before get<Kind>ClassList, then the next position
  declared,        \* history: the class lists as the parse left them
  classMap,        \* classMap[k]: __<kind>ClassMap, position -> attribute handles
  subscribed,      \* subscribed[k]: position -> the handles subscribed at the runtime
  instances        \* the instances discovered: [cls, slots]

loadVars == <<load, cursor, declared, classMap, subscribed, instances>>

allVars == <<vars, loadVars>>

NextKind == [interactionClass |-> "objectClass", objectClass |-> "done"]

LoadInit ==
  /\ Init
  /\ load = "parse"
  /\ cursor = 0
  /\ declared = [k \in Kinds |-> <<>>]
  /\ classMap = [k \in Kinds |-> [c \in {} |-> {}]]
  /\ subscribed = [k \in Kinds |-> [c \in {} |-> {}]]
  /\ instances = {}

(* A step of parser.parse(filename).                                      *)
Parse ==
  /\ \E k \in Kinds : StartClass(k) \/ EndClass(k) \/ Member(k) \/ MemberOutsideClass(k)
  /\ UNCHANGED loadVars

(* The parser returns; readFOM goes on to the interaction classes.         *)
ParseDone ==
  /\ EndDocument
  /\ load' = "interactionClass"
  /\ declared' = classes
  /\ UNCHANGED <<cursor, classMap, subscribed, instances>>

(* contentHandler.get<Kind>ClassList().                                    *)
FetchList(k) ==
  /\ load = k
  /\ cursor = 0
  /\ GetClassList(k)
  /\ cursor' = 1
  /\ UNCHANGED <<load, declared, classMap, subscribed, instances>>

(* The attribute handle set of an attribute list: one ObjectClassAttribute *)
(* per entry, inserted into a NameHandleMap, which keeps one per handle.   *)
AttributeHandles(list) == {list[j] : j \in DOMAIN list}

(* Mutation of LoadClass: the loop over the list as the parse left it,     *)
(* before get<Kind>ClassList materialized inheritance.                    *)
LoadClassBeforeList(k, made) ==
  /\ load = k
  /\ cursor \in DOMAIN classes[k]
  /\ IF made
       THEN LET hs == IF k = "objectClass" THEN AttributeHandles(declared[k][cursor].members) ELSE {} IN
            /\ classMap' = [classMap EXCEPT ![k] = (cursor :> hs) @@ @]
            /\ subscribed' = [subscribed EXCEPT ![k] = (cursor :> hs) @@ @]
       ELSE UNCHANGED <<classMap, subscribed>>
  /\ cursor' = cursor + 1
  /\ UNCHANGED <<vars, load, declared, instances>>

(* One iteration of readFOM's loop over the classes of kind k: unless the  *)
(* create hook declines, the class with its attributes (none are bound for *)
(* interaction classes: the parameter loop is commented out) is inserted  *)
(* into the ambassador's map, then published and subscribed.              *)
LoadClass(k, made) ==
  /\ load = k
  /\ cursor \in DOMAIN classes[k]
  /\ IF made
       THEN LET hs == IF k = "objectClass" THEN AttributeHandles(classes[k][cursor].members) ELSE {} IN
            /\ classMap' = [classMap EXCEPT ![k] = (cursor :> hs) @@ @]
            /\ subscribed' = [subscribed EXCEPT ![k] = (cursor :> hs) @@ @]
       ELSE UNCHANGED <<classMap, subscribed>>
  /\ cursor' = cursor + 1
  /\ UNCHANGED <<vars, load, declared, instances>>

(* The loop over kind k has run out of classes.                            *)
EndLoop(k) ==
  /\ load = k
  /\ cursor = Len(classes[k]) + 1
  /\ load' = NextKind[k]
  /\ cursor' = 0
  /\ UNCHANGED <<vars, declared, classMap, subscribed, instances>>

(* discoverObjectInstance of an instance of subscribed class c:           *)
(* objectClassMap[c].createObjectInstance, one slot per item of the        *)
(* class's attribute map, then insertObjectInstance.                       *)
DiscoverObjectInstance(c) ==
  /\ load = "done"
  /\ c \in DOMAIN subscribed["objectClass"]
  /\ instances' = instances \cup {[cls |-> c, slots |-> classMap["objectClass"][c]]}
  /\ UNCHANGED <<vars, load, cursor, declared, classMap, subscribed>>

LoadNext ==
  \/ Parse
  \/ ParseDone
  \/ \E k \in Kinds :
       \/ FetchList(k)
       \/ \E made \in BOOLEAN : LoadClass(k, made)
       \/ EndLoop(k)
  \/ \E c \in 1..MaxClasses : DiscoverObjectInstance(c)

LoadSpec == LoadInit /\ [][LoadNext]_allVars
-----------------------------------------------------------------------------
LoadTypeOK ==
  /\ TypeOK
  /\ load \in Kinds \cup {"parse", "done"}
  /\ \A k \in Kinds : DOMAIN classMap[k] \subseteq DOMAIN classes[k]

(* Spec 4.4: every ObjectInstance the ambassador creates, and the          *)
(* attribute set readFOM subscribes for its class, hold exactly the        *)
(* attributes the document declares in that class and in the classes       *)
(* enclosing it, whatever the in-place materialization repeats: each       *)
(* inherited attribute once, none missing, none of an unrelated class.     *)
InstanceSlotsAreEffective ==
  LET Eff(c) == UNION {AttributeHandles(declared["objectClass"][j].members) :
                        j \in {c} \cup docAncestors["objectClass"][c]}
  IN  /\ \A c \in DOMAIN subscribed["objectClass"] : subscribed["objectClass"][c] = Eff(c)
      /\ \A i \in instances : i.slots = Eff(i.cls)
=============================================================================
