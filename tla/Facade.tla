------------------------------- MODULE Facade -------------------------------
(***************************************************************************)
(* The Ambassador facade and the Federate it creates on join: the          *)
(* __rtiAmbassador and __federate references and every forwarding method.  *)
(* What the forwarded calls do inside this repository (readFOM, the class  *)
(* and instance lookups, the callbacks) is modelled by SchemaLoad,         *)
(* ClassLoad and InstanceTable; here a call either reaches its target or   *)
(* raises on the way.  The runtime behind an RTIambassador is external     *)
(* (_rti1516) and is modelled from the HLA rules: one federation           *)
(* execution, a connection joins it at most once, a resign or a class      *)
(* handle lookup needs a joined connection, and a connection the program  *)
(* no longer references is closed, which resigns its federate.  Every      *)
(* connect opens a new connection, numbered.                               *)
(***************************************************************************)
EXTENDS Naturals

CONSTANT MaxConnects   \* connect calls in a behaviour

None == 0

VARIABLES
  rtiAmbassador,  \* Ambassador.__rtiAmbassador: a connection, or None
  federate,       \* Ambassador.__federate: None, or the connection its Federate holds
  connections,    \* connections opened so far
  execution,      \* runtime: the federation execution exists
  members,        \* runtime: the connections joined to it
  raised          \* the exception the last call raised, or "none"

vars == <<rtiAmbassador, federate, connections, execution, members, raised>>

Init ==
  /\ rtiAmbassador = None
  /\ federate = None
  /\ connections = 0
  /\ execution = FALSE
  /\ members = {}
  /\ raised = "none"

(* A call that raises e and changes nothing.                               *)
Raise(e) ==
  /\ raised' = e
  /\ UNCHANGED <<rtiAmbassador, federate, connections, execution, members>>

(* A forwarded call that returns without changing the facade's state.    *)
Return == Raise("none")

(* A method call on a None reference.                                      *)
OnNone == Raise("AttributeError")

(* connect: a new RTIambassador replaces the reference; the Federate keeps *)
(* the one it was created with, which stays open.                          *)
Connect ==
  /\ connections < MaxConnects
  /\ connections' = connections + 1
  /\ rtiAmbassador' = connections + 1
  /\ raised' = "none"
  /\ UNCHANGED <<federate, execution, members>>

(* disconnect drops both references; no connection is referenced any more, *)
(* so the runtime closes them and resigns their federates.                 *)
Disconnect ==
  /\ rtiAmbassador' = None
  /\ federate' = None
  /\ members' = {}
  /\ raised' = "none"
  /\ UNCHANGED <<connections, execution>>

CreateFederationExecution ==
  IF rtiAmbassador = None THEN OnNone
  ELSE IF execution THEN Raise("FederationExecutionAlreadyExists")
  ELSE execution' = TRUE /\ raised' = "none"
       /\ UNCHANGED <<rtiAmbassador, federate, connections, members>>

DestroyFederationExecution ==
  IF rtiAmbassador = None THEN OnNone
  ELSE IF ~ execution THEN Raise("FederationExecutionDoesNotExist")
  ELSE IF members # {} THEN Raise("FederatesCurrentlyJoined")
  ELSE execution' = FALSE /\ raised' = "none"
       /\ UNCHANGED <<rtiAmbassador, federate, connections, members>>

(* joinFederationExecution: raise "Ambassador already joined" while        *)
(* __federate is set (a string, which Python raises as a TypeError), else  *)
(* join through the current connection and createFederate over it.        *)
JoinFederationExecution ==
  IF federate # None THEN Raise("AlreadyJoined")
  ELSE IF rtiAmbassador = None THEN OnNone
  ELSE IF ~ execution THEN Raise("FederationExecutionDoesNotExist")
  ELSE IF rtiAmbassador \in members THEN Raise("FederateAlreadyExecutionMember")
  ELSE /\ members' = members \cup {rtiAmbassador}
       /\ federate' = rtiAmbassador
       /\ raised' = "none"
       /\ UNCHANGED <<rtiAmbassador, connections, execution>>

(* resignFederationExecution forwards to the Federate's connection; the    *)
(* facade keeps __federate.                                               *)
ResignFederationExecution ==
  IF federate = None THEN OnNone
  ELSE IF federate \notin members THEN Raise("FederateNotExecutionMember")
  ELSE /\ members' = members \ {federate}
       /\ raised' = "none"
       /\ UNCHANGED <<rtiAmbassador, federate, connections, execution>>

(* readFOM forwards to Federate.readFOM, whose first handle lookup at the  *)
(* runtime needs a joined connection.                                      *)
ReadFOM ==
  IF federate = None THEN OnNone
  ELSE IF federate \notin members THEN Raise("FederateNotExecutionMember")
  ELSE Return

(* get<Kind>Class(es), getObjectInstance(s): forwarded to the Federate and *)
(* on to its FederateAmbassador, which holds the tables.                   *)
Lookup == IF federate = None THEN OnNone ELSE Return

(* insertInteractionClass / insertObjectClass forward to methods Federate  *)
(* does not have.                                                          *)
InsertClass == OnNone

(* evokeCallback / evokeMultipleCallbacks on the current connection.       *)
EvokeCallback == IF rtiAmbassador = None THEN OnNone ELSE Return

Next ==
  \/ Connect
  \/ Disconnect
  \/ CreateFederationExecution
  \/ DestroyFederationExecution
  \/ JoinFederationExecution
  \/ ResignFederationExecution
  \/ ReadFOM
  \/ Lookup
  \/ InsertClass
  \/ EvokeCallback

Spec == Init /\ [][Next]_vars
-----------------------------------------------------------------------------
TypeOK ==
  /\ rtiAmbassador \in 0..MaxConnects
  /\ federate \in 0..MaxConnects
  /\ members \subseteq 1..MaxConnects

(* The runtime's rule as the facade's own error message states it: join   *)
(* refuses with "Ambassador already joined" only while the ambassador's    *)
(* federate is a member of the federation execution; after a resign the    *)
(* application can join again.                                             *)
AlreadyJoinedOnlyWhenMember == raised = "AlreadyJoined" => federate \in members
=============================================================================
