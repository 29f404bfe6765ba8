--------------------------- MODULE BACnetRequests ---------------------------
(***************************************************************************)
(* Queries and updates of the BACnet provider (internal/query,             *)
(* internal/mutation, the reads of internal/transport) on one device whose *)
(* objects and values change meanwhile.  The device and the network are    *)
(* external: a device answers or refuses a request, and requests or        *)
(* answers get lost.                                                       *)
(*                                                                         *)
(* A query takes one snapshot of the registry and reads the device request *)
(* by request; how ReadPropertyMultiple is cut into batches is not fixed,  *)
(* so each property is read at a time of its own.  An object is <<type,    *)
(* instance>>.  A text is the sequence of its parts, a number in it its    *)
(* digits.  Real numbers are integers that both float widths represent.    *)
(***************************************************************************)
EXTENDS BACnetProfiles

CONSTANTS
    RawCatalogs,      \* the profile documents that may be configured
    Snapshots,        \* what the registry may list: scopes with their devices
    Policies,         \* MutationPolicy by scope
    DeviceRequests,   \* the calls
    Worlds,           \* what the device may hold
    ObjectLimit,      \* maximumObjectsPerDevice
    IntMax, EnumMax, LongMax, UnsignedMax, RealMax,   \* int32, uint32, int64, uint64, float32
    NotFinite,        \* stands for an infinity or no number among the floats
    MaxChanges,       \* bound on the changes of the device during a call
    MaxLost           \* bound on the reads of a call that fail one by one

VARIABLES
    profiles,    \* the compiled profiles by identifier
    metadata,    \* the published tables
    snapshot,    \* what the registry lists
    multiple,    \* whether the device knows ReadPropertyMultiple
    world,       \* the device: its object list, the values by object and property,
                 \* and the values commanded over them
    pending,     \* the call in progress
    reply,       \* its answer
    since,       \* auxiliary: what the device has held since the call began
    changes

requestVars == <<profiles, metadata, snapshot, multiple, world, pending, reply, since, changes>>
environment == <<profiles, metadata, snapshot, multiple>>

DeviceObjectType == 8
PropertyObjectList == 76
PropertyObjectIdentifier == 75

NullValue == [kind |-> "null"]
Text(parts) == [kind |-> "string", text |-> parts]
Integer(n) == [kind |-> "integer", v |-> n]

-----------------------------------------------------------------------------
(* values.go: what a query makes of a native value, or no result *)

objectTypeName(selected, type) ==
    LET names == {name \in DOMAIN selected.objectTypes : selected.objectTypes[name] = type}
    IN IF names = {} THEN ToString(type) ELSE CHOOSE name \in names : TRUE

formatObjectIdentifier(selected, object) ==
    <<objectTypeName(selected, object[1]), ToString(object[2])>>

integerTypeValue(type, n) ==
    CASE type = "INTEGER" -> Accept(n \in (-IntMax - 1)..IntMax, Integer(n))
      [] type = "LONG" -> Accept(n <= LongMax, [kind |-> "long", v |-> n])
      [] type = "BIGINTEGER" -> {[kind |-> "biginteger", v |-> n]}

floatTypeValue(type, native) ==
    Accept(native.n # NotFinite,
           [kind |-> CASE type = "FLOAT" -> "float" [] type = "DOUBLE" -> "double" [] OTHER -> "bigdecimal",
            v |-> native.n])

enumeratedTypeValue(column, n) ==
    IF column.type # "STRING" THEN integerTypeValue(column.type, n)
    ELSE {Text(<<IF n \in DOMAIN column.enum THEN column.enum[n] ELSE ToString(n)>>)}

\* formatDate and formatTime: a date is plain, has wildcards, has a special
\* month or day, or is none at all.
temporalValue(type, native) ==
    IF type = "STRING" THEN Accept(native.form # "invalid", Text(<<native.form>>))
    ELSE Accept(native.form = "plain", [kind |-> native.kind, form |-> native.form])

convertScalar(column, native, selected) ==
    IF native.kind = "null" THEN {NullValue}
    ELSE IF native.kind # column.native THEN {}
    ELSE CASE native.kind = "boolean" -> {[kind |-> "boolean", b |-> native.b]}
           [] native.kind \in {"unsigned", "signed"} -> integerTypeValue(column.type, native.n)
           [] native.kind \in {"real", "double"} -> floatTypeValue(column.type, native)
           [] native.kind = "octetstring" -> {[kind |-> "varbinary", bytes |-> native.bytes]}
           [] native.kind = "character" -> Accept(native.decodes, Text(native.text))
           [] native.kind = "bitstring" ->
                 {IF column.type = "STRING" THEN Text(native.bits) ELSE [kind |-> "varbinary", bytes |-> native.bits]}
           [] native.kind = "enumerated" -> enumeratedTypeValue(column, native.n)
           [] native.kind \in {"date", "time"} -> temporalValue(column.type, native)
           [] native.kind = "objectid" -> {Text(formatObjectIdentifier(selected, native.object))}

convertBACnetValue(column, native, selected) ==
    IF native.kind = "null" THEN Accept(column.nullable, NullValue)
    ELSE IF ~column.array THEN convertScalar(column, native, selected)
    ELSE LET items == IF native.kind = "constructed" THEN native.items ELSE <<native>>
             converted == [i \in DOMAIN items |-> convertScalar(column, items[i], selected)]
         IN Accept(\A i \in DOMAIN items : converted[i] # {},
                   [kind |-> "array", type |-> column.type,
                    items |-> [i \in DOMAIN items |-> CHOOSE v \in converted[i] : TRUE]])

-----------------------------------------------------------------------------
(* plan.go.  A filter is a comparison [op, cmp, field, value], whichever    *)
(* side the field is on, a conjunction [op, args], nothing, or another      *)
(* expression.                                                              *)

\* equalityTerms: the comparisons of a filter, or no result.
RECURSIVE equalityTerms(_)
equalityTerms(e) ==
    CASE e.op = "cmp" -> Accept(e.cmp = "=" /\ e.value # NullValue, <<[field |-> e.field, value |-> e.value]>>)
      [] e.op = "and" ->
            IF Len(e.args) < 2 THEN {}
            ELSE Each(e.args, <<>>, LAMBDA terms, arg : {terms \o more : more \in equalityTerms(arg)})
      [] OTHER -> {}

LiteralKind(type) == CASE type = "STRING" -> "string" [] type = "INTEGER" -> "integer" [] OTHER -> "none"

\* parseConstraints: a constraint per column, and whether two exclude each other.
parseConstraints(filter, columns) ==
    IF filter.op = "none" THEN {[constraints |-> <<>>, impossible |-> FALSE]}
    ELSE UNION {
        Accept(\A i \in DOMAIN terms :
                  LET name == terms[i].field
                  IN /\ name \in DOMAIN columns /\ ~columns[name].generated /\ columns[name].searchable
                     /\ terms[i].value.kind = LiteralKind(columns[name].type),
               LET names == {terms[i].field : i \in DOMAIN terms}
                   first(name) == CHOOSE i \in DOMAIN terms :
                                     terms[i].field = name /\ \A j \in 1..(i - 1) : terms[j].field # name
               IN [constraints |-> [name \in names |-> terms[first(name)].value],
                   impossible |-> \E i \in DOMAIN terms : terms[i].value # terms[first(terms[i].field)].value]) :
        terms \in equalityTerms(filter)}

\* A query without projections projects all columns but the generated key.
Projected(request, columns) ==
    IF request.projections = <<>> THEN {name \in DOMAIN columns : ~columns[name].generated}
    ELSE ToSet(request.projections)

buildPlan(request) ==
    IF request.table \notin DOMAIN metadata \/ request.pushes THEN {}
    ELSE LET columns == metadata[request.table].columns
             projected == Projected(request, columns)
         IN UNION {
            Accept(/\ projected \subseteq DOMAIN columns
                   /\ \A name \in projected :
                         ~columns[name].generated /\ (columns[name].array => request.arrays),
                   [table |-> request.table, projected |-> projected,
                    constraints |-> parsed.constraints, impossible |-> parsed.impossible,
                    needed |-> projected \cup DOMAIN parsed.constraints]) :
            parsed \in parseConstraints(request.filter, columns)}

-----------------------------------------------------------------------------
(* executor.go: rows *)

matchesConstraints(plan, values) ==
    \A name \in DOMAIN plan.constraints : values[name] = plan.constraints[name]

projectTuple(plan, values) == [name \in plan.projected |-> values[name]]

NullableText(text) == IF text = "" THEN NullValue ELSE Text(<<text>>)

\* The rows of what is listed, in the order of the snapshot.
Tuples(plan, listed) ==
    LET matching == SelectSeq(listed, LAMBDA values : matchesConstraints(plan, values))
    IN [i \in DOMAIN matching |-> projectTuple(plan, matching[i])]

scopeTuples(plan) ==
    Tuples(plan, [i \in DOMAIN snapshot |->
        LET scope == snapshot[i]
        IN [namespace |-> Text(<<scope.namespace>>), scope_id |-> Text(<<scope.scope>>),
            attachment_id |-> Text(<<scope.attachment>>),
            last_success_at |-> IF scope.success THEN [kind |-> "timestamp"] ELSE NullValue,
            device_count |-> Integer(Len(scope.devices)), duplicate_device_count |-> Integer(scope.duplicates)]])

\* Manager.RefreshScope selects the profile of a device; none when that fails.
ListedProfile(scope, device) ==
    Select(profiles, [vendor |-> device.vendor, model |-> device.model, firmware |-> device.firmware,
                      device |-> device.instance, namespace |-> scope.namespace, scope |-> scope.scope])

registryDeviceTuples(plan) ==
    LET Values(scope, device) ==
            [namespace |-> Text(<<scope.namespace>>), scope_id |-> Text(<<scope.scope>>),
             device_instance |-> Integer(device.instance), attachment_id |-> Text(<<scope.attachment>>),
             profile_id |-> IF ListedProfile(scope, device) = {} THEN NullValue
                            ELSE Text(<<ToString(CHOOSE id \in ListedProfile(scope, device) : TRUE)>>),
             vendor_identifier |-> IF device.vendor = 0 THEN NullValue ELSE Integer(device.vendor),
             model_name |-> NullableText(device.model)]
    IN Tuples(plan, FlattenSeq([i \in DOMAIN snapshot |->
           [k \in DOMAIN snapshot[i].devices |-> Values(snapshot[i], snapshot[i].devices[k])]]))

\* findDevice: the device that the identity of a call names, if it is listed.
\* Device instances and scopes are unique in a snapshot (BACnetRegistry).
Listed(identity) ==
    {pair \in UNION {{s} \X ToSet(s.devices) : s \in ToSet(snapshot)} :
        /\ Text(<<pair[1].namespace>>) = identity["namespace"]
        /\ Text(<<pair[1].scope>>) = identity["scope_id"]
        /\ Integer(pair[2].instance) = identity["device_instance"]}

\* The usable profile of a listed device, or no result.
UsableProfile(listed) ==
    LET pair == CHOOSE p \in listed : TRUE
    IN {profiles[id] : id \in {i \in ListedProfile(pair[1], pair[2]) : ~profiles[i].abstract}}

deviceObject(plan) == <<DeviceObjectType, plan.constraints["device_instance"].v>>

neededPropertyColumns(plan, declared) ==
    {declared.columns[name] : name \in (DOMAIN declared.columns \cap plan.needed) \ {"object_type"}}

needsObjectList(plan, declared) ==
    \E name \in DOMAIN declared.columns \cap plan.needed : declared.columns[name].property.id = PropertyObjectList

specialObjectListColumn(column, object) ==
    object[1] = DeviceObjectType /\ column.property.id = PropertyObjectList /\ column.array

\* filterObjects: of the objects listed, those of the table and of the filter.
filterObjects(objects, declared, plan, selected) ==
    LET Identity(o) == [object_type |-> Text(<<objectTypeName(selected, o[1])>>), object_instance |-> Integer(o[2]),
                        object_identifier |-> Text(formatObjectIdentifier(selected, o))]
    IN SelectSeq(objects, LAMBDA o :
           /\ declared.all \/ \E t \in declared.objectTypes : selected.objectTypes[t] = o[1]
           /\ \A name \in DOMAIN plan.constraints \cap {"object_type", "object_instance", "object_identifier"} :
                 plan.constraints[name] = Identity(o)[name])

\* compareObjectIdentifiers
Before(a, b) == a[1] < b[1] \/ (a[1] = b[1] /\ a[2] < b[2])

\* The properties to read, in order, as <<object, property>>.
Specifications(plan, declared, objects) ==
    LET properties(o) == {c.property.id : c \in {d \in neededPropertyColumns(plan, declared) :
                                                   ~specialObjectListColumn(d, o)}}
    IN FlattenSeq([i \in DOMAIN objects |->
           LET sorted == SetToSortSeq(properties(objects[i]), <)
           IN [k \in DOMAIN sorted |-> <<objects[i], sorted[k]>>]])

\* The value of a column of a row, or no result.  An unreadable property is
\* null where the column is optional.
ColumnValue(q, object, column) ==
    IF specialObjectListColumn(column, object)
    THEN convertBACnetValue(column, [kind |-> "constructed", items |->
             [i \in DOMAIN q.list |-> [kind |-> "objectid", object |-> q.list[i]]]], q.selected)
    ELSE IF q.results[<<object, column.property.id>>] = {}
    THEN Accept(column.nullable /\ ~column.required, NullValue)
    ELSE LET native == CHOOSE n \in q.results[<<object, column.property.id>>] : TRUE
         IN IF column.property.id = PropertyObjectIdentifier /\ native # [kind |-> "objectid", object |-> object]
            THEN {} ELSE convertBACnetValue(column, native, q.selected)

\* objectIdentityValues
IdentityValues(q, object) ==
    [namespace |-> q.plan.constraints["namespace"], scope_id |-> q.plan.constraints["scope_id"],
     device_instance |-> q.plan.constraints["device_instance"],
     object_type |-> Text(<<objectTypeName(q.selected, object[1])>>), object_instance |-> Integer(object[2]),
     observed_at |-> [kind |-> "timestamp"]]

\* The row of an object, none when a constraint excludes it.  Columns of other
\* profiles are null (fillProfileUnionNulls).
ObjectRow(q, object) ==
    LET columns == {c.name : c \in neededPropertyColumns(q.plan, q.declared)}
        read == [name \in columns |-> CHOOSE v \in ColumnValue(q, object, q.declared.columns[name]) : TRUE]
        values == read @@ IdentityValues(q, object) @@ [name \in q.plan.needed |-> NullValue]
    IN IF matchesConstraints(q.plan, values) THEN <<projectTuple(q.plan, values)>> ELSE <<>>

Convertible(q) ==
    \A i \in DOMAIN q.objects : \A c \in neededPropertyColumns(q.plan, q.declared) :
        ColumnValue(q, q.objects[i], c) # {}

Rows(q) == FlattenSeq([i \in DOMAIN q.objects |-> ObjectRow(q, q.objects[i])])

-----------------------------------------------------------------------------
(* mutation/executor.go: the plan of an update *)

\* parseIdentityFilter: exactly the columns of an object's identity.
parseIdentityFilter(filter) ==
    UNION {Accept(/\ {terms[i].field : i \in DOMAIN terms} = objectIdentityColumns
                  /\ \A i, j \in DOMAIN terms :
                        terms[i].field = terms[j].field => terms[i].value = terms[j].value,
                  [name \in objectIdentityColumns |->
                      terms[CHOOSE i \in DOMAIN terms : terms[i].field = name].value]) :
           terms \in equalityTerms(filter)}

requiredString(value) == value.kind = "string" /\ value.text # <<"">>
requiredInstance(value) == value.kind = "integer" /\ value.v \in 0..MaximumDeviceInstance

ValidIdentity(identity) ==
    /\ \A name \in {"namespace", "scope_id", "object_type"} : requiredString(identity[name])
    /\ \A name \in {"device_instance", "object_instance"} : requiredInstance(identity[name])

integerValue(column, value) ==
    Accept(value.kind = CASE column.type = "INTEGER" -> "integer" [] column.type = "LONG" -> "long"
                          [] OTHER -> "biginteger",
           value.v)

floatingValue(column, value) ==
    Accept(value.kind = CASE column.type = "FLOAT" -> "float" [] column.type = "DOUBLE" -> "double"
                          [] OTHER -> "bigdecimal",
           value.v)

enumeratedValue(column, value) ==
    IF column.type = "STRING"
    THEN IF value.kind # "string" THEN {}
         ELSE {n \in DOMAIN column.enum : <<column.enum[n]>> = value.text}
    ELSE {n \in integerValue(column, value) : n \in 0..EnumMax}

\* The conversion to float32.
ToReal(n) == IF n \in -RealMax..RealMax THEN n ELSE NotFinite

Literal(value, kind) == {v \in {value} : v.kind = kind}
Numbers(kind, numbers) == {[kind |-> kind, n |-> n] : n \in numbers}

\* applicationValue: the native value of a literal, or no result.
applicationValue(column, value) ==
    IF value = NullValue THEN {value}
    ELSE CASE column.native = "boolean" -> {[kind |-> "boolean", b |-> v.b] : v \in Literal(value, "boolean")}
           [] column.native = "unsigned" -> Numbers("unsigned", integerValue(column, value) \cap 0..UnsignedMax)
           [] column.native = "signed" ->
                 Numbers("signed", integerValue(column, value) \cap (-LongMax - 1)..LongMax)
           [] column.native = "real" -> Numbers("real", {ToReal(n) : n \in floatingValue(column, value)} \ {NotFinite})
           [] column.native = "double" -> Numbers("double", floatingValue(column, value) \ {NotFinite})
           [] column.native = "octetstring" ->
                 {[kind |-> "octetstring", bytes |-> v.bytes] : v \in Literal(value, "varbinary")}
           [] column.native = "character" ->
                 {[kind |-> "character", text |-> v.text, decodes |-> TRUE] : v \in Literal(value, "string")}
           [] column.native = "enumerated" -> Numbers("enumerated", enumeratedValue(column, value))
           [] OTHER -> {}

WritableFor(column, typeName) == \E w \in column.write : typeName \in w.objectTypes
Commandable(column) == \E w \in column.write : w.commandable

-----------------------------------------------------------------------------
(* The opening of a call: its answer, or the requests to the device that    *)
(* are pending.                                                             *)

Idle == [stage |-> "idle"]
NoReply == [code |-> "none"]
Refused == [code |-> "Refused"]     \* INVALID_ARGUMENT and FAILED_PRECONDITION
Rowset(rows) == [code |-> "OK", rows |-> rows]
affectedRows(count) == [code |-> "OK", affected |-> count]

Answer(answer) == [pending |-> Idle, reply |-> answer]
Proceed(work) == [pending |-> work, reply |-> NoReply]

\* A query whose objects are known reads their properties.
ReadingOf(q, objects) ==
    [q EXCEPT !.stage = "properties", !.objects = objects,
              !.todo = Specifications(q.plan, q.declared, objects)]

\* The object list has been read: sorted, without duplicates, and filtered.
ListRead(q) ==
    LET sorted == [q EXCEPT !.list = SortSeq(@, Before)]
    IN IF ~NoDuplicates(q.list) THEN Answer(Refused)
       ELSE Proceed(ReadingOf(sorted,
                IF q.plan.table = DeviceObjectsTable THEN <<deviceObject(q.plan)>>
                ELSE filterObjects(sorted.list, q.declared, q.plan, q.selected)))

\* deviceTuples, up to its first request
deviceTuples(plan) ==
    LET listed == Listed(plan.constraints)
        usable == UsableProfile(listed)
        selected == CHOOSE p \in usable : TRUE
        declared == selected.tables[plan.table]
        q == [stage |-> "count", plan |-> plan, selected |-> selected, declared |-> declared,
              list |-> <<>>, count |-> 0, objects |-> <<>>, todo |-> <<>>, results |-> <<>>, lost |-> {}]
    IN IF ~({"namespace", "scope_id", "device_instance"} \subseteq DOMAIN plan.constraints) THEN Answer(Refused)
       ELSE IF listed = {} THEN Answer(Rowset(<<>>))
       ELSE IF usable = {} THEN Answer(Refused)
       ELSE IF plan.table \notin DOMAIN selected.tables THEN Answer(Rowset(<<>>))
       ELSE IF plan.table # DeviceObjectsTable \/ needsObjectList(plan, declared) THEN Proceed(q)
       ELSE Proceed(ReadingOf(q, <<deviceObject(plan)>>))

ExecuteQuery(request) ==
    LET plans == buildPlan(request)
        plan == CHOOSE p \in plans : TRUE
    IN IF plans = {} THEN Answer(Refused)
       ELSE IF plan.impossible THEN Answer(Rowset(<<>>))
       ELSE IF plan.table = ScopesTable THEN Answer(Rowset(scopeTuples(plan)))
       ELSE IF plan.table = DevicesTable THEN Answer(Rowset(registryDeviceTuples(plan)))
       ELSE deviceTuples(plan)

\* Execute of an update up to its request: buildPlan's checks in order.
ExecuteUpdate(request) ==
    LET identities == parseIdentityFilter(request.filter)
        identity == CHOOSE i \in identities : TRUE
        scope == <<identity["namespace"].text[1], identity["scope_id"].text[1]>>
        listed == Listed(identity)
        usable == UsableProfile(listed)
        selected == CHOOSE p \in usable : TRUE
        declared == selected.tables[request.table]
        typeName == identity["object_type"].text[1]
        assignment == request.assignments[1]
        column == declared.columns[assignment.field]
        natives == applicationValue(column, assignment.value)
    IN IF \/ Len(request.assignments) # 1
          \/ request.table \notin DOMAIN metadata \/ ~metadata[request.table].updatable
          \/ identities = {} \/ ~ValidIdentity(identity)
          \/ scope \notin DOMAIN Policies \/ ~Policies[scope].enabled
       THEN Answer(Refused)
       ELSE IF listed = {} THEN Answer(affectedRows(0))
       ELSE IF \/ usable = {} \/ request.table \notin DOMAIN selected.tables
               \/ typeName \notin DOMAIN selected.objectTypes
               \/ ~declared.all /\ typeName \notin declared.objectTypes
               \/ assignment.field \notin DOMAIN declared.columns
               \/ ~WritableFor(column, typeName)
               \/ natives = {}
               \/ assignment.value = NullValue /\ ~Commandable(column)
       THEN Answer(Refused)
       ELSE Proceed([stage |-> "write", identity |-> identity, selected |-> selected, column |-> column,
                     object |-> <<selected.objectTypes[typeName], identity["object_instance"].v>>,
                     native |-> CHOOSE n \in natives : TRUE, literal |-> assignment.value,
                     outcome |-> "none", cancelled |-> FALSE, applied |-> FALSE])

-----------------------------------------------------------------------------
(* The device, external *)

\* What a read of a property finds, or nothing.
Held(w, object, property) ==
    IF object \notin ToSet(w.list) \/ <<object, property>> \notin DOMAIN w.values THEN {}
    ELSE IF <<object, property>> \in DOMAIN w.commanded THEN {w.commanded[<<object, property>>]}
    ELSE {w.values[<<object, property>>]}

\* A write with a priority commands the property, or with null ends the command.
Written(w, key, native, prioritized) ==
    IF ~prioritized THEN [w EXCEPT !.values[key] = native]
    ELSE [w EXCEPT !.commanded = [k \in (DOMAIN @ \ {key}) \cup {k \in {key} : native # NullValue} |->
                                      IF k = key THEN native ELSE @[k]]]

-----------------------------------------------------------------------------

RequestsInit ==
    /\ profiles = <<>> /\ metadata = <<>>
    /\ snapshot \in Snapshots /\ multiple \in BOOLEAN /\ world \in Worlds
    /\ pending = Idle /\ reply = NoReply /\ since = {} /\ changes = 0

Compiled == DOMAIN profiles # {}

\* New: the process starts when its documents compile and have metadata.
Configure(docs) ==
    /\ ~Compiled /\ reply = NoReply
    /\ LET compiled == {p \in compile(docs) : buildMetadata(p) # {}}
       IN \/ /\ compiled = {}
             /\ reply' = Refused /\ UNCHANGED <<profiles, metadata>>
          \/ /\ profiles' \in compiled
             /\ metadata' \in buildMetadata(profiles')
             /\ UNCHANGED reply
    /\ UNCHANGED <<snapshot, multiple, world, pending, since, changes>>

\* Applies the opening of a call, or a step that may end it.
Becomes(next) == pending' = next.pending /\ reply' = next.reply

Call(request) ==
    /\ Compiled /\ pending = Idle /\ reply = NoReply
    /\ Becomes(IF request.op = "query" THEN ExecuteQuery(request) ELSE ExecuteUpdate(request))
    /\ since' = {world}
    /\ UNCHANGED <<environment, world, changes>>

\* readObjectList: the length, then each element.
ReadCount ==
    /\ pending.stage = "count"
    /\ LET count == Len(world.list)
           counted == [pending EXCEPT !.stage = "elements", !.count = count]
       IN Becomes(IF count > ObjectLimit THEN Answer([code |-> "ResourceExhausted"])
                  ELSE IF count = 0 THEN ListRead(counted) ELSE Proceed(counted))
    /\ UNCHANGED <<environment, world, since, changes>>

ReadElement ==
    /\ pending.stage = "elements"
    /\ LET index == Len(pending.list) + 1
           read == [pending EXCEPT !.list = Append(@, world.list[index])]
       IN Becomes(IF index > Len(world.list) THEN Answer([code |-> "Unavailable"])
                  ELSE IF index = pending.count THEN ListRead(read) ELSE Proceed(read))
    /\ UNCHANGED <<environment, world, since, changes>>

ReadNextProperty ==
    /\ pending.stage = "properties" /\ pending.todo # <<>>
    /\ LET key == Head(pending.todo)
       IN pending' = [pending EXCEPT !.todo = Tail(@), !.results = @ @@ (key :> Held(world, key[1], key[2]))]
    /\ UNCHANGED <<environment, world, reply, since, changes>>

\* A read without an answer fails the query, but for the single reads that
\* replace an unknown ReadPropertyMultiple.
LoseRead ==
    /\ pending.stage \in {"count", "elements", "properties"}
    /\ pending.stage = "properties" => pending.todo # <<>> /\ (multiple \/ DOMAIN pending.results = {})
    /\ Becomes(Answer([code |-> "Unavailable"]))
    /\ UNCHANGED <<environment, world, since, changes>>

LoseSingleRead ==
    /\ pending.stage = "properties" /\ pending.todo # <<>> /\ ~multiple
    /\ Cardinality(pending.lost) < MaxLost
    /\ LET key == Head(pending.todo)
       IN pending' = [pending EXCEPT !.todo = Tail(@), !.results = @ @@ (key :> {}), !.lost = @ \cup {key}]
    /\ UNCHANGED <<environment, world, reply, since, changes>>

Finish ==
    /\ pending.stage = "properties" /\ pending.todo = <<>>
    /\ Becomes(Answer(IF Convertible(pending) THEN Rowset(Rows(pending)) ELSE Refused))
    /\ UNCHANGED <<environment, world, since, changes>>

\* The caller's context ends; sourceError and the loop over the rows see it.
CancelQuery ==
    /\ pending.stage \in {"count", "elements", "properties"}
    /\ Becomes(Answer([code |-> "Canceled"]))
    /\ UNCHANGED <<environment, world, since, changes>>

CancelUpdate ==
    /\ pending.stage \in {"write", "written"} /\ ~pending.cancelled
    /\ pending' = [pending EXCEPT !.cancelled = TRUE]
    /\ UNCHANGED <<environment, world, reply, since, changes>>

Outcome(outcome, applied) ==
    pending' = [pending EXCEPT !.stage = "written", !.outcome = outcome, !.applied = applied]

\* The client reports that it sent nothing.
SendNothing ==
    /\ pending.stage = "write"
    /\ Outcome("nothing sent", FALSE)
    /\ UNCHANGED <<environment, world, reply, since, changes>>

\* The device carries the write out; the answer arrives or gets lost.
WriteProperty ==
    /\ pending.stage = "write"
    /\ Held(world, pending.object, pending.column.property.id) # {}
    /\ world' = Written(world, <<pending.object, pending.column.property.id>>, pending.native,
                        Commandable(pending.column))
    /\ \E outcome \in {"done", "unknown"} : Outcome(outcome, TRUE)
    /\ since' = since \cup {world'}
    /\ UNCHANGED <<environment, reply, changes>>

\* The device refuses it, or the request gets lost.
WriteRejected ==
    /\ pending.stage = "write"
    /\ \E outcome \in {IF pending.object \in ToSet(world.list) THEN "rejected" ELSE "unknown object", "unknown"} :
          Outcome(outcome, FALSE)
    /\ UNCHANGED <<environment, world, reply, since, changes>>

MutWriteError(outcome, cancelled) ==
    [code |-> IF cancelled THEN "Canceled"
              ELSE CASE outcome = "unknown" -> "Unknown" [] outcome = "unknown object" -> "NotFound"
                     [] outcome = "rejected" -> "Refused" [] OTHER -> "Unavailable"]

writeError(outcome, cancelled) ==
    [code |-> IF outcome = "unknown" THEN "Unknown"
              ELSE IF cancelled THEN "Canceled"
              ELSE CASE outcome = "unknown object" -> "NotFound" [] outcome = "rejected" -> "Refused"
                     [] OTHER -> "Unavailable"]

EndUpdate ==
    /\ pending.stage = "written"
    /\ Becomes(Answer(IF pending.outcome = "done" THEN affectedRows(1)
                      ELSE writeError(pending.outcome, pending.cancelled)))
    /\ UNCHANGED <<environment, world, since, changes>>

\* The device changes by itself.
Change ==
    /\ pending # Idle /\ changes < MaxChanges
    /\ world' \in Worlds \ {world}
    /\ changes' = changes + 1 /\ since' = since \cup {world'}
    /\ UNCHANGED <<environment, pending, reply>>

RequestsNext ==
    \/ \E docs \in RawCatalogs : Configure(docs)
    \/ \E request \in DeviceRequests : Call(request)
    \/ ReadCount \/ ReadElement \/ ReadNextProperty \/ LoseRead \/ LoseSingleRead \/ Finish
    \/ CancelQuery \/ CancelUpdate \/ SendNothing \/ WriteProperty \/ WriteRejected \/ EndUpdate
    \/ Change

-----------------------------------------------------------------------------
(* Properties, of a step *)

\* A selector that names all that another one names, and more.
Narrower(s, t) ==
    /\ s # t
    /\ \A f \in {"vendor", "device"} : t[f] \in {Absent, s[f]}
    /\ \A f \in {"model", "firmware", "namespace", "scope"} : t[f] \in {"", s[f]}

\* Identities made of what the selectors of some profiles name.
Identities(ps) ==
    LET selectors == UNION {ToSet(ps[id].selectors) : id \in DOMAIN ps}
        Numbered(f) == ({s[f] : s \in selectors} \ {Absent}) \cup {0}
        Named(f) == {s[f] : s \in selectors} \cup {""}
        Placed(f) == ({s[f] : s \in selectors} \ {""}) \cup {"other"}
    IN [vendor : Numbered("vendor"), device : Numbered("device"), model : Named("model"),
        firmware : Named("firmware"), namespace : Placed("namespace"), scope : Placed("scope")]

\* Documents that are accepted select one profile for every device: the standard
\* one when no selector matches, and otherwise one that matches and that neither
\* a narrower selector of another profile nor a profile that extends it competes
\* with (Catalog.Select, validateSelectorAmbiguity, validateInheritancePrecedence).
SelectionExact(ps) ==
    \A identity \in Identities(ps) :
        LET Matching(id) == {s \in ToSet(ps[id].selectors) : matches(s, identity)}
            matched == {id \in DOMAIN ps : Matching(id) # {}}
        IN \E id \in DOMAIN ps :
              /\ Select(ps, identity) = {id}
              /\ IF matched = {} THEN id = StandardProfileID
                 ELSE /\ id \in matched
                      /\ \E s \in Matching(id) : \A other \in matched \ {id} :
                            ~\E t \in Matching(other) : Narrower(t, s)
                      /\ \A child \in matched : id \notin ps[child].extends

\* A profile has every table and column of its parents, whatever they are
\* overridden with, and a table it can be queried through is published with all
\* its columns (mergeParent, buildMetadata).
InheritanceExact(ps, published) ==
    \A id \in DOMAIN ps :
        /\ \A parent \in ps[id].extends : \A t \in DOMAIN ps[parent].tables :
              /\ t \in DOMAIN ps[id].tables
              /\ DOMAIN ps[parent].tables[t].columns \subseteq DOMAIN ps[id].tables[t].columns
              /\ ps[parent].tables[t].objectTypes \subseteq ps[id].tables[t].objectTypes \/ ps[id].tables[t].all
        /\ ~ps[id].abstract => \A t \in DOMAIN ps[id].tables :
              DOMAIN ps[id].tables[t].columns \subseteq DOMAIN published[t].columns

KindOf ==
    [STRING |-> "string", VARBINARY |-> "varbinary", BOOLEAN |-> "boolean", INTEGER |-> "integer",
     LONG |-> "long", BIGINTEGER |-> "biginteger", FLOAT |-> "float", DOUBLE |-> "double",
     BIGDECIMAL |-> "bigdecimal", DATE |-> "date", TIME |-> "time", TIMESTAMP |-> "timestamp"]

\* Every value of a row has the type that the column is published with, and is
\* null only where null is published.
RowsTyped(table, rows) ==
    \A i \in DOMAIN rows : \A name \in DOMAIN rows[i] :
        LET column == metadata[table].columns[name]
        IN IF rows[i][name] = NullValue THEN column.nullable
           ELSE rows[i][name].kind = IF column.array THEN "array" ELSE KindOf[column.type]

\* The objects of a list that are rows of a query.
ObjectsOf(q, list) ==
    LET typed(o) == \E t \in DOMAIN q.selected.objectTypes :
                       /\ q.selected.objectTypes[t] = o[1] /\ t \in q.declared.objectTypes
        all == IF q.plan.table = DeviceObjectsTable THEN {deviceObject(q.plan)}
               ELSE {o \in ToSet(list) : q.declared.all \/ typed(o)}
        Identifier(o) == IF "object_identifier" \in DOMAIN q.declared.columns
                         THEN Text(formatObjectIdentifier(q.selected, o)) ELSE NullValue
    IN {o \in all : /\ \A name \in DOMAIN q.plan.constraints :
                         /\ name = "object_type" => q.plan.constraints[name] = Text(<<objectTypeName(q.selected, o[1])>>)
                         /\ name = "object_instance" => q.plan.constraints[name] = Integer(o[2])
                         /\ name = "object_identifier" => q.plan.constraints[name] = Identifier(o)}

\* The value of a column is what the device held at some time of the call; null
\* also stands for a property that could not be read then.
ValueTrue(q, object, column, value) ==
    \/ \E w \in since : \E native \in Held(w, object, column.property.id) :
          value \in convertBACnetValue(column, native, q.selected)
    \/ /\ value = NullValue /\ column.nullable
       /\ \/ <<object, column.property.id>> \in q.lost
          \/ \E w \in since : Held(w, object, column.property.id) = {}

\* The rows of a device query: one for each object of the table that the filter
\* selects, in the order of identifiers, each value true; when the list changed
\* during the call, no object has two rows or a row without ever being listed.
RowsExact(q, rows) ==
    LET lists == {w.list : w \in since}
        objects == SetToSortSeq(ObjectsOf(q, CHOOSE l \in lists : TRUE), Before)
        declared == DOMAIN q.declared.columns \ {"object_type"}
    IN /\ RowsTyped(q.plan.table, rows)
       /\ NoDuplicates(q.objects)
       /\ \A i \in DOMAIN q.objects : \E list \in lists : q.objects[i] \in ObjectsOf(q, list)
       /\ Cardinality(lists) = 1 =>
            /\ Len(rows) = Len(objects)
            /\ \A i \in DOMAIN objects : \A name \in DOMAIN rows[i] :
                  LET column == q.declared.columns[name]
                      value == rows[i][name]
                  IN CASE name = "object_type" -> value = Text(<<objectTypeName(q.selected, objects[i][1])>>)
                       [] name = "object_instance" -> value = Integer(objects[i][2])
                       [] name \in declared /\ specialObjectListColumn(column, objects[i]) ->
                             {value.items[k] : k \in DOMAIN value.items}
                             = {Text(formatObjectIdentifier(q.selected, o)) : o \in UNION {ToSet(l) : l \in lists}}
                       [] name \in declared /\ ~specialObjectListColumn(column, objects[i]) ->
                             ValueTrue(q, objects[i], column, value)
                       [] name \in DOMAIN q.plan.constraints /\ name \notin declared -> value = q.plan.constraints[name]
                       [] OTHER -> name = "observed_at" \/ value = NullValue

\* A value that was read, written to the property it came from, is the value that
\* the device held, or is refused: as a number without a label is.
WriteBackExact(q) ==
    \A key \in DOMAIN q.results : \A c \in neededPropertyColumns(q.plan, q.declared) :
        c.property.id = key[2] /\ c.write # {} /\ ~specialObjectListColumn(c, key[1]) =>
            \A native \in q.results[key] : \A value \in convertBACnetValue(c, native, q.selected) :
                /\ applicationValue(c, value) \subseteq {native}
                /\ applicationValue(c, value) = {} =>
                      native.kind = "enumerated" /\ c.type = "STRING" /\ native.n \notin DOMAIN c.enum

\* A write reaches the object that the filter names and no other property, and
\* reads back as the literal; null uncovers what the command hid.
WriteExact(w) ==
    LET key == <<w.object, w.column.property.id>>
    IN /\ Text(<<objectTypeName(w.selected, w.object[1])>>) = w.identity["object_type"]
       /\ Integer(w.object[2]) = w.identity["object_instance"]
       /\ world'.list = world.list /\ DOMAIN world'.values = DOMAIN world.values
       /\ \A k \in DOMAIN world.values \ {key} : Held(world', k[1], k[2]) = Held(world, k[1], k[2])
       /\ IF w.literal = NullValue THEN Held(world', key[1], key[2]) = {world.values[key]}
          ELSE \A native \in Held(world', key[1], key[2]) :
                  convertBACnetValue(w.column, native, w.selected) = {w.literal}

\* An update says that a row is affected only when the write was carried out, and
\* leaves open whether it was only with the code UNKNOWN, cancelled or not.
OutcomeExact(w, answer) ==
    /\ answer.code = "OK" => w.applied
    /\ w.applied => answer.code \in {"OK", "Unknown"}

\* One step of the requests.
RequestStepExact ==
    /\ ~Compiled /\ DOMAIN profiles' # {} => SelectionExact(profiles') /\ InheritanceExact(profiles', metadata')
    /\ pending.stage = "properties" /\ pending' = Idle /\ reply'.code = "OK" =>
          RowsExact(pending, reply'.rows) /\ WriteBackExact(pending)
    /\ pending.stage = "write" /\ pending'.stage = "written" /\ pending'.applied => WriteExact(pending)
    /\ pending.stage = "written" /\ pending' = Idle => OutcomeExact(pending, reply')
=============================================================================
