# TLA+ models of the OpenRTI Python FOM data-type engine

The system is `src/python/rti1516/__init__.py`. It is the Python side of OpenRTI's
HLA 1516 bindings. It reads a FOM (Federation Object Model) XML file. From it, it
builds a catalog of data types and the object and interaction classes. It then
encodes and decodes attribute values as HLA byte layouts. Network transport, handle
assignment and callback delivery are done by the extension module `_rti1516`, which is
not in this repository. The byte-level scalar codecs are the functions of `_fom`,
which is not in this repository either.

The project is a sequence of TLC-checkable modules. Each one is translated from the
Python source. Each module names the code lines it models in `PROJECT.json` under "map".

## 1. Inventory

### Components, their state and operations

| Component | Source (lines) | State | Operations |
|---|---|---|---|
| `alignTo` | 27-28 | none | pure: round an offset up to a boundary |
| DataType kinds (`BasicData`, `SimpleData`, `FixedRecordData` + `Field`, `FixedArrayData`, `DynamicArrayData`, `EnumeratedData`, `VariantRecordData` + `Alternative`) | 30-449 | name, referenced type names, weakrefs bound by `resolveTypes`, `__octetBoundary` (records, dynamic arrays, variant records), enumerator maps, alternative maps | `resolveTypes`, `resolveOctetBoundary`, `getOctetBoundary`, `referenceTypes`, `encode`, `decode`, `addField`, `addEnumerator`, `addAlternative` |
| Type catalog resolution (`FOMContentHandler.getTypeMap`) | 474-479 | the `__typeMap` dict | pass 1: `resolveTypes` on every type. Pass 2: `resolveOctetBoundary` on every type. Both loops run in dict order. |
| Schema parser (`FOMContentHandler.startElement` / `endElement`) | 458-472, 499-646 | class lists, class stacks, `__typeMap`, the "current" enumerated / record / variant pointers | one branch per element name |
| Inheritance materialization (`getObjectClassList`, `getInteractionClassList`) | 481-497 | the class dicts' member lists (mutated in place) | walks every class's parent chain and appends the parents' lists |
| `NameHandlePair` / `NameHandleMap` | 664-699 | two dicts: handle -> pair and name -> pair | `insert`, `erase`, `get` (tries the handle first, then the name) |
| `Container` (`Parameter`, `ObjectClassAttribute`) | 701-741 | bound data type, encoder, reference closure | `setEncoder` (swallows KeyError), `encode`, `decode` |
| `ObjectClass`, `ObjectInstance`, `ObjectInstanceAttribute` | 743-798 | attribute map; an instance's value slots in `__dict__` | `createObjectInstance`, `insertAttribute`, `reflectAttributeValues` |
| `FederateAmbassador` (callbacks from `_rti1516`) | 886-934 | class maps and the object instance map | `discoverObjectInstance`, `reflectAttributeValues`, `removeObjectInstance` |
| `Federate.readFOM` | 835-881 | none of its own | parse, `getTypeMap`, class lists, then handle lookups and publish/subscribe through the RTI ambassador |
| `Federate` / `Ambassador` facade | 800-834, 936-1003 | the RTI ambassador and the federate | forwarding calls to `_rti1516`; join refuses while `__federate` is set |
| Primitive codec `_fom`, runtime `_rti1516` | outside the repository | n/a | external |

### How the components interact

`readFOM` drives a SAX parse. The parse calls `startElement` and `endElement` on the
handler. These fill `__typeMap` and the class lists. `readFOM` then calls
`getTypeMap`, which runs the two resolution passes. Next it calls the class-list
getters, which materialize inheritance. For every class it asks `_rti1516` for
handles, builds `ObjectClass` / `ObjectClassAttribute` objects, and binds each
attribute to a data type (`setEncoder`). Later the runtime calls the
`FederateAmbassador` back with discover, reflect and remove events. A reflect decodes
the bytes through the bound data type. The data types point at each other through
weakrefs into the one `__typeMap`.

### What is hard

- **Order of the resolution passes.** `getTypeMap` iterates a dict, so the order is
  the hash order of the names. It is arbitrary across schemas. Pass 2 reads each
  child's current `__octetBoundary`, and a child that comes later in the order
  still holds its initial value there.
- **Recursion over a cyclic type graph.** `getOctetBoundary` of aliases and
  `referenceTypes` follow references with no cycle check, except for the kinds that
  test `self in typeList`.
- **In-place materialization.** `getObjectClassList` appends to the same lists it
  later reads.
- **Callback ordering.** Discover, reflect and remove come from a runtime that may
  deliver them in receive order or in timestamp order. The instance table is keyed
  by handle and by name at once.
- **Byte layout.** Alignment padding, count prefixes, off-by-one indices and
  discriminant lookups.

### What makes each component correct

- Resolution: after both passes, each record's, dynamic array's and variant
  record's boundary follows the HLA rule. Loading never aborts on a dangling name
  (spec section 7).
- Parser: each class's effective member list is its own members followed by its
  parent's effective list. Materializing twice changes nothing. A misplaced element
  is ignored.
- Codec: `decode(encode(v)) = v` at any start offset. Every value starts at a
  multiple of its type's boundary. Unknown enumerators and discriminants fail.
- Instance table: the handle map and the name map hold the same instances. A
  reflect or remove reaches only a live instance. A removed instance is gone under
  both keys.

## 2. Plan

Modules, in order of importance. Status is as of this sitting.

1. `DataTypes` (done): the data-type records, `getOctetBoundary` with its recursion,
   `alignTo`.
2. `TypeResolution` + `MC_TypeResolution` (done): the two passes of `getTypeMap` over
   every two-composite schema and every dict order.
3. `ClassParser` (done): class elements, stacks, and inheritance materialization.
4. `Codec` + `MC_Codec` (done): `encode` / `decode` of every kind as RECURSIVE
   operators over a byte sequence, with `Container.encode` / `decode` as actions,
   under every boundary assignment pass 2 can leave.
5. `TypeParser` + `SchemaLoad` (done): the data-type elements of `startElement`
   (`basicData` table, `arrayData`, `enumeratedData` / `enumerator`,
   `fixedRecordData` / `field`, `variantRecordData` / `alternative`, and the
   current-pointer resets in `endElement`), composed with `TypeResolution`, so the
   pass run resolves catalogs that come from parsed documents.
6. `Runtime` + `InstanceTable` + `AbstractInstances` (done): `NameHandleMap` and the
   `FederateAmbassador` callbacks (discover / reflect / remove), under a runtime
   that reuses names and delivers in receive order and in timestamp order. The
   handle dict is shown to implement `AbstractInstances` through
   `INSTANCE AbstractInstances WITH live <- handleMap`.
7. `ClassLoad` (done): the class half of `readFOM` and the class table.
8. `Facade` (done): the `Ambassador` / `Federate` forwarding methods.
9. `SchemaLoad` binding (done): after `getTypeMap`, `Container.setEncoder` of every
   attribute's data type, with `referenceTypes` in `DataTypes`.
Not composed: `ClassLoad` with `SchemaLoad`, and `ClassLoad` with the instance table.
Data types and the class structure meet only in `setEncoder`, which `SchemaLoad`
covers. The instance table's behaviour does not depend on the class, because
`createObjectInstance` only creates the slots.

Not modelled: `_fom` and `_rti1516`, which are external and not in the repository.
Their behaviour at the boundary is assumed from the HLA rules: in `Runtime` for
callback delivery, and in `Facade` for join and resign. The `_fom` scalar codecs are
modelled in `Codec` as fixed-width integer writes.

## 3. Modules and runs so far

### `DataTypes`

A typeMap is a function from declared names to records, one record shape per data
type class. `GetOctetBoundary` follows aliases (`simple`, `fixedArray`, `enumerated`)
to the type whose own `__octetBoundary` it returns. It returns `Raises` when the alias
chain is a cycle, because there Python exceeds its recursion limit
(RuntimeError under Python 2, which this code targets, RecursionError under
Python 3; the model's name for either is RecursionError). `InitialBoundary` is
what each constructor stores: the size for basic types, 4 for dynamic arrays
(line 238), and 0 for records and variant records (134, 387).

### `TypeResolution`

Variables: `typeMap`, `phase` (a pass, `"done"`, or the exception that left
`getTypeMap`), `resolved` (pass 1 progress), `boundary` (every own
`__octetBoundary`) and `order` (the order in which pass 2 has visited the types).

Actions:
- `ResolveTypes(n)` / `ResolveTypesKeyError(n)`: one iteration of pass 1.
- `ResolveOctetBoundary(n)` / `ResolveOctetBoundaryRecursionError(n)`: one iteration
  of pass 2.

The iteration picks any type not yet visited. This is the dict order, which is
arbitrary over all schemas. Basic types are left out of the loops because both of
their methods are no-ops.

`HLAAlignment` is the reference. It is written independently of the passes. It is
the least fixpoint of the HLA rule: a record or variant record takes the max over
its fields or alternatives, a dynamic array takes max(4, element), and an alias takes
its target's value.

`MC_TypeResolution` enumerates every typeMap with two composites, "A" and "B". Each
composite is of any kind and refers to A, B, HLAoctet (1), HLAfloat64BE (8) or an
undeclared "Missing", with 1-2 fields or alternatives. Two composites are enough for
every nesting of one composite in another, for self-reference and mutual reference,
for alias cycles and for dangling names. The two violation runs use it.
`CHECK_DEADLOCK FALSE`: `getTypeMap` returns, so the model stops.

| run | expect | checks |
|---|---|---|
| `resolution_order` | violation | `AlignmentIsChildMax`. Record A{B} and record B{HLAoctet}, visited in the order A, B, give A the boundary 0. |
| `resolution_abort` | violation | `SchemaLoadNeverAborts`. A reference to an undeclared type raises KeyError out of `getTypeMap`. |

The pass run of the passes is `resolution` below, over parsed catalogs.

### `TypeParser`, `SchemaLoad`

`TypeParser` is the data-type half of the content handler. Its variables are
`typeMap` (`__typeMap`), the three pointers `currentEnumeratedData`,
`currentFixedRecord` and `currentVariant` (the name of the open composite, or
`None`), and two history variables of the document: `open`, the composite element
open around the reader, and `elements`, the elements read so far.

One action per branch:
- `BasicData(n)` looks `n` up in `BasicTable`, the whole if/elif chain of lines
  544-588. An unrecognized name declares nothing.
- `ArrayData(n, t, c)` makes a dynamic or a fixed array from the cardinality.
  `isString` is set for HLAASCIIstring and HLAunicodeString.
- `SimpleData(n, t)` declares an alias.
- `EnumeratedData`, `FixedRecordData` and `VariantRecordData` declare the composite
  and set its pointer.
- `Enumerator`, `Field` and `Alternative` append to the composite the pointer names.
  With no pointer set they do nothing (`return`).
- `EndEnumeratedData`, `EndFixedRecordData` and `EndVariantRecordData` reset the
  pointer.

A declaration replaces an earlier one of the same name, as the dict assignment does.

The documents keep type declarations at the top level. Child elements may appear
anywhere: inside their composite, at the top level, or inside a composite of another
kind. The last two are the stray elements that spec section 7 says are ignored.
With top-level declarations a pointer is set exactly while its element is open, so
the object it holds is the one the catalog holds under its name. That is why the
model keeps a name.

`SchemaLoad` is `readFOM`'s schema half. `Parse` is one element event. `GetTypeMap`
starts the passes once the document has ended. From then on
`INSTANCE TypeResolution` takes the steps. Once they are done, `SetEncoders` is the
object class loop's `attribute.setEncoder(dataType, typeMap)` for every data type
named by an attribute (`AttrTypes`; "Missing" is one no declaration has).
`containers[a]` is the `Container` of an attribute of type `a`: `SetEncoder` leaves it
unbound on the KeyError, otherwise it stores the type and
`encoder.referenceTypes([])`. `DataTypes!RefWalk` is `referenceTypes`: records,
arrays and variants stop at a type already in the list; simple and enumerated
types have no such check, so a cycle of aliases alone recurses until Python raises.
If it raises, `bound` becomes `"RecursionError"`: the error leaves `readFOM`. The
loop is one step because `readFOM` runs on one thread and nothing observes the
containers of a load that raised. `MC_SchemaLoad.cfg` reads documents of up
to 6 elements:
- declarations of "A" and "B" of every kind;
- the basic names HLAoctet, HLAfloat64BE and the unrecognized "HLAbyte";
- references to those names and to "Missing";
- cardinalities "Dynamic" and "1".

Six elements are enough for a record of an 8- and a 1-byte field (the
mutant of `NewBoundary` that keeps the last child shows the difference). They are
also enough for a record over a dynamic array (pass-2 order matters there), for alias
cycles, and for a stray child after a closed composite.

| run | expect | checks |
|---|---|---|
| `resolution` | pass | `TypeOK`. `NeverOverAligned`: under every order, pass 2 never exceeds the HLA boundary. `BottomUpSweepExact`: when the dict order visits each type after the composites it reads, the result is exact. `ChildrenThreadedIntoOpenComposite`: every enumerator, field and alternative lands in the composite open around it, and a stray one leaves the catalog unchanged. `ReferencesReachable`: every bound attribute's `__encoderReferences` holds exactly the types reachable from its data type in the catalog's reference graph (`Graphs!Descendants`); a second alternative of one name replaces the first (`__nameAlternativeMap`), so the reference is the graph of `Refs`, which uses the same dict. 4.0M states, about 2 min 40 s. |
| `setencoder_cycle` | violation | `SetEncoderNeverRaises`, from spec section 7. `<simpleData name="A" representation="A"/>` passes both passes: no record or array asks A's boundary. `setEncoder` of an attribute of type A then exceeds the recursion limit (RuntimeError under Python 2, RecursionError under Python 3), which its `except KeyError` lets through. `MC_SchemaLoad_bind.cfg`: documents of up to 2 elements. |

### `ClassParser`

Variables:
- `classes[k]` and `stack[k]`, for k in {objectClass, interactionClass}. A class is
  `[members, parent]`, where parent is the position of the parent dict in the list.
- `nextName`, `phase` and `calls`.
- History variables `docOpen` and `docAncestors`. They record the document's nesting
  apart from the handler's stack, so a handler that records the wrong parent is
  caught.

Actions: `StartClass`, `EndClass`, `Member` and `MemberOutsideClass` are branches of
`startElement` and `endElement`. `EndDocument` is the end of `parser.parse`.
`GetClassList(k)` is the materialization loop. It is modelled whole, as
`MaterializeFrom`, because each iteration reads the lists the earlier iterations
extended.

Bounds: 4 class elements, 4 member elements and 2 calls of the getter. Depth 3 is
the smallest at which the double append shows. Two calls are enough to show
non-idempotence. Both class kinds interleave, although a real FOM puts them in
separate sections.

| run | expect | checks |
|---|---|---|
| `parser` | pass | Module `ClassLoad` (below), `MC_ClassLoad.cfg`. `LoadTypeOK`. `InheritedMembersComplete` (action property): after the first materialization, every class holds exactly the members of itself and of the classes enclosing it in the document, with its own first. `InstanceSlotsAreEffective`: see `ClassLoad`. 678k states, seconds. |
| `parser_inherit` | violation | `InheritedListIsSpec`, which also covers the spec's "inheritance idempotence". A second `getObjectClassList` on the same handler gives B (in A, attribute 1 on A) the list <<1, 1>>. Within one call, A > B > C with attribute 1 on A gives C <<1, 1>>. |
| `parser_malformed` | violation | `ParseNeverRaises`. An `attribute` element outside any `objectClass` raises IndexError, but spec section 7 says it is ignored. |

### `ClassLoad`

`ClassLoad` EXTENDS `ClassParser` with the class half of `readFOM` and the
`FederateAmbassador` class table:
- `Parse` is a parse step. `ParseDone` is the parser returning; the history variable
  `declared` keeps the lists as the parse left them.
- `FetchList(k)` is `get<Kind>ClassList`: `GetClassList`, called once per kind,
  interaction classes first.
- `LoadClass(k, made)` is one iteration of the loop over kind k. `made` is the
  `create<Kind>Class` hook, which a `Federate` subclass may override to decline a
  class (`if not objectClass: continue`). An object class gets the attribute handle
  set of its list; `AttributeHandles` is the `NameHandleMap`, which keeps one entry
  per handle. The class goes into `classMap[k]`, and the same set is subscribed.
  Interaction classes get no parameters: that loop is commented out.
- `EndLoop(k)` moves on to the next kind.
- `DiscoverObjectInstance(c)`: `createObjectInstance` on a subscribed class gives one
  slot per item of its attribute map.

Handles come from the external runtime. A class's handle stands for its position
and an attribute's for its name, both unique as a FOM's names are. The runtime
discovers instances of subscribed classes only, so the `objectClassMap[...]`
KeyError cannot happen and is not an action.

`InstanceSlotsAreEffective` (spec 4.4): every subscribed attribute set and every
instance's slots are exactly the attributes the document declares in the class and
in the classes enclosing it (`docAncestors`). It holds although the materialized list
repeats a grandparent's attributes (`parser_inherit`): the handle-keyed attribute map
absorbs the repeats. The mutant that loops over the unmaterialized list loses the
inherited attributes and is caught.

The dynamic-array rule (the code gives max(4, element), the spec's table 4) and the
boundary of 0 that a bad order can leave show on the wire; the `codec_spec` run
below shows the first.

### `Codec`

The schema `MC_Codec` holds one type of each class: basic types of widths 1, 2, 4
and 8 in both byte orders, `Position{x, y}` of 8-byte fields, the enumerated
`OnOff` over a 4-byte integer, the dynamic arrays `Bytes`, `HLAASCIIstring`
(text) and `Path` (of `Position`), the fixed array `Pair`, the records
`Tagged{flag, pair, pos}` and `Track{flag, path}`, and the variant `Choice`
discriminated by `OnOff`.

Variables:
- `boundary`: the `__octetBoundary` fields. `Init` takes every result of
  `Pass2` over every dict order of the own-boundary types (`Resolutions`). This
  is the composition with `TypeResolution`.
- `dataType`, `value`, `source`, `wire`, `phase` and `result`: one attribute's
  trip from sender to receiver.

Actions:
- `EncodeLocal(v)` is `Container.encode`. It applies `Enc`, or records the
  exception.
- `EncodeStandard(v, peer)` is another federate that writes the standard layout
  `StdEnc` under the alignment of the HLA rule (`hla`) or of the spec's table
  (`spec`).
- `Decode` is `Container.decode`, through `Dec`.

`Enc` / `Dec` have one operator per class, each translating its method. The
external `_fom` leaf codecs are modelled as fixed-width integer writes that pad
the buffer with zeros up to the aligned offset (`Put`), and as reads that raise
`struct.error` past the end. Local encode of text values is not modelled: what
`_fom` does with a character is not in the repository. `StdEnc` is written from
the HLA layout rules and does not use the code's operators.

Bounds: basic values are one or two per width, chosen so that the bytes differ
and the byte order shows. Dynamic arrays hold at most 2 elements. Every local
encode starts at offset 0, as `Container.encode` does. The interesting offsets
arise inside records, where a 1-byte field precedes 2-, 4- and 8-byte aligned
values.

| run | expect | checks |
|---|---|---|
| `codec` | pass | Attributes of every type but `Pair` and `Path`, which `Tagged` and `Track` hold. `DecodeInvertsHLALayout`: once the boundaries are exact, a peer's HLA layout decodes to the value sent and consumes the buffer, enumerators (`OnOff`) and variant records (`Choice`, both alternatives) included. `LocalEncodeIsLayout`: whenever the code's encode returns, its bytes are the standard layout under the boundaries in force. Every non-empty array, enumerated and variant encode raises (see below), so this property judges the basic types, records of basic fields and empty arrays: it guards the padding and byte order, not the array index bug of line 214. 906 states. |
| `codec_spec` | violation | `DecodesSpecPeer`. `Track{flag 0, path <<>>}` from a peer using the spec's 4-byte dynamic-array alignment puts the count at offset 4. The code reads it at 8 and raises. |

### `Runtime`, `AbstractInstances`, `InstanceTable`

`Runtime` is the environment: the external `_rti1516` runtime and another
federate. It is modelled from the HLA delivery rules, not from code.
- The owner registers, updates and deletes instances. A name is free again once
  its instance is deleted at the owner.
- Each event goes into an RO or a TSO channel. Each channel is FIFO, and the two
  interleave arbitrarily. Discovery is always RO.
- The runtime holds an update or remove back until the instance's discover has
  been delivered. It drops one for an instance it already removed (`known`,
  `announced`).

`AbstractInstances` is the promise of the table: after every delivered callback, the
table holds exactly the announced and not-yet-removed instances, with their
discover name and their last reflected value.

`InstanceTable` translates the code:
- `handleMap` and `nameMap` are the two dicts of the `NameHandleMap`.
- `Insert`, `Get` and `Erase` are its methods.
- `DiscoverObjectInstance`, `ReflectAttributeValues` and `RemoveObjectInstance`
  are the callbacks, with `NewInstance` (`createObjectInstance`) and `SetSlot`
  (the instance's reflect).
- An exception is recorded in `raised`, and the dicts stay as the code left them
  half way.

Bounds: 3 handles, 2 names, 1 value and 1 update. Three handles let a name be
reused while the first instance's remove is still in flight, and still leave one
handle for an unrelated instance.

| run | expect | checks |
|---|---|---|
| `instances` | pass | `TypeOK`. `ImplementsAbstractInstances`: `Abs!Spec` under the mapping `live <- handleMap`. `EventuallyForgotten`: a deleted instance eventually leaves the handle dict. 63269 states. |
| `instances_names` | violation | `NameLookupFindsInstance`. A (h1, named n1) is discovered and deleted by TSO; B (h2) is registered under the freed name n1 and its RO discover is delivered before A's TSO remove, overwriting `__nameMap["n1"]`; A's remove then deletes `__nameMap["n1"]`, which is B's entry. |

### `Facade`

The `Ambassador` facade with the `Federate` it creates on join. Variables:
`rtiAmbassador` and `federate` (the facade's two references; a connection number or
None), `connections` (connects so far), and `raised` (what the last call raised).
The runtime, which is external, adds `execution` and `members`. It follows the HLA
rules: one execution, one join per connection, and resign and handle lookups need a
joined connection. Dropping every reference closes a connection, which resigns it.

There is one action per method:
- `Connect` and `Disconnect`;
- `Create`/`DestroyFederationExecution`, `JoinFederationExecution` and
  `ResignFederationExecution`;
- `ReadFOM`, `Lookup` (the getters), `InsertClass` and `EvokeCallback`.

Each action takes the code's early exits in the code's order:
- a call on a None reference raises AttributeError;
- a join while `__federate` is set raises the string "Ambassador already joined".

What a forwarded call does past the facade is modelled by `SchemaLoad`, `ClassLoad`
and `InstanceTable`.

| run | expect | checks |
|---|---|---|
| `facade_rejoin` | violation | `AlreadyJoinedOnlyWhenMember`, the rule the error message states. The trace is connect, create, join, resign, join: the second join raises "Ambassador already joined" after a successful resign. `resignFederationExecution` never clears `__federate`. `MC_Facade.cfg`: up to 2 connects. |
### Seen but not held as runs

The runs are capped at 12, so these behaviours seen while modelling have no run.
- `EnumeratedData.encode` (line 338) calls `self.__type.encode`, where `self.__type`
  is the weakref, so encoding any enumerator raises AttributeError. A variant
  record's encode goes through its enumerated discriminant and fails the same way,
  before the NameError of line 438. TLC found it with `Phase # "encodeError"` for
  enumerated types in `MC_Codec`; any unit test of an enumerated attribute finds it
  too, so its run went to the `setEncoder` recursion.
- `FixedArrayData.encode` and `DynamicArrayData.encode` (lines 214, 274) increment
  `i` before reading `value[i]`. Every non-empty array raises IndexError. TLC found it
  with `Phase # "encodeError"` for arrays in `MC_Codec` (`Pair` <<258, 258>>). Any
  unit test of an array attribute finds it too, so its run went to the facade.
- `Ambassador.insertInteractionClass` and `insertObjectClass` call methods that
  `Federate` lacks, so they always raise AttributeError (`Facade!InsertClass`).
- A `connect` while joined leaves the `Federate` on the old connection. Callbacks
  are then evoked on the new connection (line 942).
- A variant record's boundary ignores its discriminant, against spec section 3
  (line 416; see `DataTypes!SpecAlignment`).
- `addEnumerator` calls `int(values)` (line 307). A values attribute that lists
  several values raises ValueError out of the parse after the enumerated type is
  already in the typeMap. `TypeParser` takes values as digits.
- A type declaration nested inside an open composite is outside the documents
  modelled. If a `fixedRecordData` is nested in a `fixedRecordData`, the inner
  `endElement` resets the shared pointer. The outer record then drops the fields
  that follow.

## 4. Fairness

Resolution, parsing, the class load and the codec are sequential steps over finite
input, and they always end. Their runs exhaust the state space with
`CHECK_DEADLOCK FALSE`. The facade's calls are the application's choice, so no call
is assumed to happen. Its run looks for a violation only.

The instance table assumes `WF_vars(Callback(o))` for each channel. An application
drives callbacks by calling `Ambassador.evokeCallback` / `evokeMultipleCallbacks`
in its loop. So a callback that stays deliverable is eventually handed to the
ambassador. For the TSO channel this also assumes what lies outside the
repository: the application keeps requesting time advances and the runtime keeps
granting them, since a TSO callback is only delivered once logical time reaches
it. `Fairness` is this assumption, not a translation of code, and has no map
entry. The owner's actions have no fairness: another federate need not ever
delete its instances. `CHECK_DEADLOCK FALSE` holds because the federation can go
quiet.
