---------------------------- MODULE ClassParser ----------------------------
(***************************************************************************)
(* The class half of FOMContentHandler: startElement/endElement of         *)
(* objectClass / attribute and interactionClass / parameter elements, and  *)
(* the inheritance materialization of getObjectClassList and              *)
(* getInteractionClassList that readFOM calls after the parse.  The two   *)
(* class kinds run the same code over separate lists and stacks.  A class  *)
(* is the dict the handler builds: its member list and a link to the dict  *)
(* of its parent, here the parent's position in the class list (0: None).  *)
(* Member names are distinct numbers, as the names of a well-formed FOM    *)
(* are; the SAX parser delivers the elements properly nested.              *)
(***************************************************************************)
EXTENDS Naturals, Sequences

CONSTANTS
  Kinds,       \* {"objectClass", "interactionClass"}
  MaxClasses,  \* class elements in a document
  MaxMembers,  \* attribute / parameter elements in a document
  MaxCalls     \* calls of get<Kind>ClassList on one handler

VARIABLES
  classes,  \* classes[k]: the __<kind>ClassList, in document order
  stack,    \* stack[k]: the __<kind>ClassStack of open classes (positions)
  nextName, \* the name the next member element carries
  phase,    \* "parsing", "parsed", or "IndexError" once startElement raised
  calls,    \* calls[k]: how often get<Kind>ClassList has run
  docOpen,      \* history: the class elements of kind k the document has open
  docAncestors  \* history: docAncestors[k][i], the class elements enclosing class i

vars == <<classes, stack, nextName, phase, calls, docOpen, docAncestors>>

(* The document's side of a class element's start and end, kept apart from *)
(* the handler's stack.                                                    *)
DocStart(k) ==
  /\ docAncestors' = [docAncestors EXCEPT ![k] = Append(@, {docOpen[k][j] : j \in DOMAIN docOpen[k]})]
  /\ docOpen' = [docOpen EXCEPT ![k] = Append(@, Len(docAncestors[k]) + 1)]

DocEnd(k) ==
  /\ docOpen' = [docOpen EXCEPT ![k] = SubSeq(@, 1, Len(@) - 1)]
  /\ UNCHANGED docAncestors

ClassCount == LET F[S \in SUBSET Kinds] ==
                    IF S = {} THEN 0
                    ELSE LET k == CHOOSE k \in S : TRUE IN Len(classes[k]) + F[S \ {k}]
              IN F[Kinds]

Top(s) == s[Len(s)]

Init ==
  /\ classes = [k \in Kinds |-> <<>>]
  /\ stack = [k \in Kinds |-> <<>>]
  /\ nextName = 1
  /\ phase = "parsing"
  /\ calls = [k \in Kinds |-> 0]
  /\ docOpen = [k \in Kinds |-> <<>>]
  /\ docAncestors = [k \in Kinds |-> <<>>]

(* Mutation of StartClass: the parent read from the bottom of the stack. *)
StartClassOutermostParent(k) ==
  /\ phase = "parsing"
  /\ ClassCount < MaxClasses
  /\ LET new == [members |-> <<>>,
                 parent  |-> IF Len(stack[k]) > 0 THEN stack[k][1] ELSE 0]
     IN  /\ classes' = [classes EXCEPT ![k] = Append(@, new)]
         /\ stack' = [stack EXCEPT ![k] = Append(@, Len(classes'[k]))]
  /\ DocStart(k)
  /\ UNCHANGED <<nextName, phase, calls>>

(* Mutation of StartClass: the position taken before the append.          *)
PushClassBeforeAppend(k) ==
  /\ phase = "parsing"
  /\ ClassCount < MaxClasses
  /\ LET new == [members |-> <<>>,
                 parent  |-> IF Len(stack[k]) > 0 THEN Top(stack[k]) ELSE 0]
     IN  /\ classes' = [classes EXCEPT ![k] = Append(@, new)]
         /\ stack' = [stack EXCEPT ![k] = Append(@, Len(classes[k]))]
  /\ DocStart(k)
  /\ UNCHANGED <<nextName, phase, calls>>

(* startElement("objectClass"): a new class dict linked to the innermost   *)
(* open class of its kind, pushed and appended to the list.                *)
StartClass(k) ==
  /\ phase = "parsing"
  /\ ClassCount < MaxClasses
  /\ LET new == [members |-> <<>>,
                 parent  |-> IF Len(stack[k]) > 0 THEN Top(stack[k]) ELSE 0]
     IN  /\ classes' = [classes EXCEPT ![k] = Append(@, new)]
         /\ stack' = [stack EXCEPT ![k] = Append(@, Len(classes'[k]))]
  /\ DocStart(k)
  /\ UNCHANGED <<nextName, phase, calls>>

(* endElement("objectClass") pops the stack.                               *)
EndClass(k) ==
  /\ phase = "parsing"
  /\ stack[k] # <<>>
  /\ stack' = [stack EXCEPT ![k] = SubSeq(@, 1, Len(@) - 1)]
  /\ DocEnd(k)
  /\ UNCHANGED <<classes, nextName, phase, calls>>

(* startElement("attribute") appends to the class on top of the stack.     *)
Member(k) ==
  /\ phase = "parsing"
  /\ nextName =< MaxMembers
  /\ stack[k] # <<>>
  /\ classes' = [classes EXCEPT ![k][Top(stack[k])].members = Append(@, nextName)]
  /\ nextName' = nextName + 1
  /\ UNCHANGED <<stack, phase, calls, docOpen, docAncestors>>

(* An attribute element with no objectClass open: stack[len - 1] of the    *)
(* empty list raises IndexError out of the parse.                          *)
MemberOutsideClass(k) ==
  /\ phase = "parsing"
  /\ nextName =< MaxMembers
  /\ stack[k] = <<>>
  /\ phase' = "IndexError"
  /\ UNCHANGED <<classes, stack, nextName, calls, docOpen, docAncestors>>

(* The parser returns once the document element has closed.                *)
EndDocument ==
  /\ phase = "parsing"
  /\ \A k \in Kinds : stack[k] = <<>>
  /\ phase' = "parsed"
  /\ UNCHANGED <<classes, stack, nextName, calls, docOpen, docAncestors>>

(* The members of the classes on the parent chain from p, each as the      *)
(* class's list stands when it is read.                                    *)
RECURSIVE ChainMembers(_, _)
ChainMembers(cl, p) ==
  IF p = 0 THEN <<>> ELSE cl[p].members \o ChainMembers(cl, cl[p].parent)

(* The loop of getObjectClassList from class i on: each class appends the  *)
(* lists of its ancestors, which earlier iterations have already extended. *)
RECURSIVE MaterializeFrom(_, _)
MaterializeFrom(cl, i) ==
  IF i > Len(cl) THEN cl
  ELSE MaterializeFrom([cl EXCEPT ![i].members = @ \o ChainMembers(cl, cl[i].parent)], i + 1)

(* get<Kind>ClassList: materialize inheritance in place, return the list.  *)
GetClassList(k) ==
  /\ phase = "parsed"
  /\ calls[k] < MaxCalls
  /\ classes' = [classes EXCEPT ![k] = MaterializeFrom(@, 1)]
  /\ calls' = [calls EXCEPT ![k] = @ + 1]
  /\ UNCHANGED <<stack, nextName, phase, docOpen, docAncestors>>

Next ==
  \/ EndDocument
  \/ \E k \in Kinds :
       \/ StartClass(k)
       \/ EndClass(k)
       \/ Member(k)
       \/ MemberOutsideClass(k)
       \/ GetClassList(k)

Spec == Init /\ [][Next]_vars

-----------------------------------------------------------------------------
(* Spec 3: a class's effective list is its own declarations followed by    *)
(* its parent's effective list, walking the parent chain.                  *)
RECURSIVE Effective(_, _)
Effective(cl, i) == IF i = 0 THEN <<>> ELSE cl[i].members \o Effective(cl, cl[i].parent)

SeqSet(s) == {s[i] : i \in DOMAIN s}

TypeOK ==
  /\ phase \in {"parsing", "parsed", "IndexError"}
  /\ nextName \in 1..MaxMembers + 1
  /\ calls \in [Kinds -> 0..MaxCalls]
  /\ \A k \in Kinds :
       /\ \A i \in DOMAIN classes[k] : classes[k][i].parent \in 0..i - 1
       /\ stack[k] \in Seq(DOMAIN classes[k])

(* The first materialization gives every class exactly the members its     *)
(* own element and the class elements enclosing it in the document        *)
(* declare, its own first and in document order.                           *)
InheritedMembersComplete ==
  [][\A k \in Kinds :
       calls[k] = 0 /\ calls'[k] = 1 =>
         \A i \in DOMAIN classes[k] :
           /\ SeqSet(classes'[k][i].members)
                = UNION {SeqSet(classes[k][j].members) : j \in {i} \cup docAncestors[k][i]}
           /\ SubSeq(classes'[k][i].members, 1, Len(classes[k][i].members))
                = classes[k][i].members]_vars

(* Spec 3 and its "inheritance idempotence": the first materialization    *)
(* makes each list own ++ parent's effective list, without repeating an    *)
(* ancestor's members, and every later one leaves the lists as they are.   *)
InheritedListIsSpec ==
  [][\A k \in Kinds :
       calls'[k] = calls[k] + 1 =>
         \A i \in DOMAIN classes[k] :
           classes'[k][i].members = IF calls[k] = 0 THEN Effective(classes[k], i)
                                                    ELSE classes[k][i].members]_vars

(* Spec 7: an element outside its required context is ignored; the parse  *)
(* never raises.                                                           *)
ParseNeverRaises == phase # "IndexError"
=============================================================================
