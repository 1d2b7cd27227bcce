----------------------------- MODULE SchemaLoad -----------------------------
(***************************************************************************)
(* Federate.readFOM's schema half: the SAX parse fills the typeMap through *)
(* the data-type branches of the content handler (module TypeParser), and  *)
(* once the document has ended getTypeMap runs both resolution passes      *)
(* (module TypeResolution) over exactly the catalog the parse produced.    *)
(* Then every object class attribute is bound to its data type            *)
(* (ObjectClassAttribute.setEncoder); AttrTypes are the dataType           *)
(* attributes of the document's attribute elements.                        *)
(***************************************************************************)
EXTENDS TypeParser

CONSTANT AttrTypes   \* dataType attributes of attribute elements

VARIABLES
  phase,      \* "parsing", then the phases of TypeResolution
  resolved,   \* types whose resolveTypes has run
  boundary,   \* __octetBoundary of every type that has one
  order,      \* the types pass 2 has visited
  containers, \* containers[a]: the Container of an attribute of data type a
  bound       \* "no", "yes", or "RecursionError" once setEncoder raised

passVars == <<phase, resolved, boundary, order>>

bindVars == <<containers, bound>>

vars == <<parserVars, passVars, bindVars>>

(* The passes over the parsed catalog; the constant set of catalogs        *)
(* TypeResolution starts from on its own is not used.                      *)
Resolution == INSTANCE TypeResolution WITH Catalogs <- {}

(* Container.__init__: no data type, no encoder, no references.           *)
NewContainer == [dataType |-> None, encoder |-> None, references |-> <<>>]

Init ==
  /\ ParserInit
  /\ phase = "parsing"
  /\ resolved = {}
  /\ boundary = [n \in {} |-> 0]
  /\ order = <<>>
  /\ containers = [a \in AttrTypes |-> NewContainer]
  /\ bound = "no"

(* parser.parse(filename): one element event.                              *)
Parse ==
  /\ phase = "parsing"
  /\ ParserNext
  /\ UNCHANGED <<passVars, bindVars>>

(* The parse has returned; readFOM calls contentHandler.getTypeMap(),      *)
(* whose passes start from the boundaries the constructors set.          *)
GetTypeMap ==
  /\ phase = "parsing"
  /\ Parsed
  /\ phase' = "resolveTypes"
  /\ resolved' = {}
  /\ boundary' = [n \in OwnNames(typeMap) |-> InitialBoundary(typeMap[n])]
  /\ order' = <<>>
  /\ UNCHANGED <<parserVars, bindVars>>

(* Container.setEncoder: typemap[dataType] (a KeyError is swallowed and    *)
(* leaves the container unbound), then encoder.referenceTypes([]).         *)
SetEncoder(c, a) ==
  IF a \notin DOMAIN typeMap THEN c
  ELSE [dataType |-> a, encoder |-> a, references |-> ReferenceTypes(typeMap, a).list]

(* readFOM's object class loop, after getTypeMap returned: setEncoder of    *)
(* every attribute.  A RecursionError out of referenceTypes leaves readFOM; *)
(* the containers of the aborted load are not kept.                        *)
SetEncoders ==
  /\ phase = "done"
  /\ bound = "no"
  /\ IF \A a \in AttrTypes \cap DOMAIN typeMap : ReferenceTypes(typeMap, a).ok
       THEN /\ containers' = [a \in AttrTypes |-> SetEncoder(containers[a], a)]
            /\ bound' = "yes"
       ELSE /\ bound' = "RecursionError"
            /\ UNCHANGED containers
  /\ UNCHANGED <<parserVars, passVars>>

Next ==
  \/ Parse
  \/ GetTypeMap
  \/ Resolution!Next /\ UNCHANGED <<currentEnumeratedData, currentFixedRecord, currentVariant, open, elements, bindVars>>
  \/ SetEncoders

Spec == Init /\ [][Next]_vars
-----------------------------------------------------------------------------
TypeOK ==
  /\ ParserTypeOK
  /\ phase = "parsing" \/ Resolution!TypeOK
  /\ bound \in {"no", "yes", "RecursionError"}
  /\ \A a \in AttrTypes : containers[a].encoder \in {None, a}

(* TypeResolution's NeverOverAligned, over every catalog a document of the *)
(* bounds yields: pass 2 never leaves a boundary above the HLA rule's.     *)
NeverOverAligned == Resolution!NeverOverAligned

(* TypeResolution's BottomUpSweepExact over the parsed catalogs: a pass 2  *)
(* that happened to visit types bottom-up leaves every boundary exact.     *)
BottomUpSweepExact == Resolution!BottomUpSweepExact

G == INSTANCE Graphs

(* The reference for referenceTypes: the type and every type its resolved  *)
(* references reach, in the graph of the catalog.                          *)
TypeGraph(tm) == [node |-> DOMAIN tm,
                  edge |-> {<<x, y>> \in (DOMAIN tm) \X (DOMAIN tm) : y \in Refs(tm[x])}]

Reachable(tm, n) == {n} \cup G!Descendants(TypeGraph(tm), n)

(* Every attribute readFOM binds carries, in __encoderReferences, exactly  *)
(* the types its data type reaches through fields, elements, discriminants *)
(* and alternatives, however records and aliases nest and recur.           *)
ReferencesReachable ==
  bound = "yes" =>
    \A a \in AttrTypes \cap DOMAIN typeMap : SeqSet(containers[a].references) = Reachable(typeMap, a)

(* Spec 7: binding a container never throws, and no step of loading the    *)
(* schema terminates the host; once getTypeMap has returned, readFOM binds *)
(* every attribute.                                                        *)
SetEncoderNeverRaises == bound # "RecursionError"
=============================================================================
