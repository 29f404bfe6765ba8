--------------------------- MODULE OpenAPISchema ----------------------------
(***************************************************************************)
(* The catalog of the OpenAPI provider: which configurations are accepted, *)
(* which operations of the document become tables, and what the tables     *)
(* promise about their columns and their writes.                           *)
(*                                                                         *)
(* The document is parsed and every schema builds.  Schemas refer to each  *)
(* other by name, so a composition may be circular.  Names are trimmed.    *)
(* The properties of a schema keep the case the document spells them in;   *)
(* LookupName gives the form in which names are compared where the code    *)
(* ignores case, and names in configurations and requests have that form.  *)
(* The properties of one row differ in more than case.  A JSON pointer is  *)
(* the sequence of its tokens.  A path is a sequence of segments, a        *)
(* segment a sequence of parts of the kinds "text", "param" and "brace",   *)
(* the last for a brace that is not matched.  Absent names and schemas are *)
(* NoName.                                                                 *)
(***************************************************************************)
EXTENDS Integers, Sequences, FiniteSets, SequencesExt

CONSTANTS
    SchemaNamed,      \* from schema names to [types, format, props, required, allOf,
                      \*   alternatives, items, nullable, readOnly, component, title]
    LookupName(_),    \* strings.ToUpper of a property's name
    IdentifierOf(_),  \* relationalIdentifier of a title or an operationId, or NoName
    HeaderNames       \* the headers that are valid HTTP tokens

NoName == ""
EmptyText == 0     \* texts are the places of strings in their order; this one is empty
Rejected == [ok |-> FALSE]

-----------------------------------------------------------------------------
(* metadata.go: shapes of schemas *)

hasSchemaType(schema, expected) ==
    \/ expected \in schema.types
    \/ expected = "object" /\ DOMAIN schema.props # {}
    \/ expected = "array" /\ schema.items # NoName

\* The properties and the required names of an object: those of its allOf
\* components, in order, then its own, which replace them.
Layered(layers, names, required) ==
    LET Latest(p) == CHOOSE i \in DOMAIN layers :
                        p \in DOMAIN layers[i] /\ \A j \in DOMAIN layers : p \in DOMAIN layers[j] => j <= i
    IN IF names = {} THEN Rejected
       ELSE [ok |-> TRUE, props |-> [p \in names |-> layers[Latest(p)][p]], required |-> required]

Merged(schema, parts) ==
    IF \/ schema.alternatives # {}
       \/ ~hasSchemaType(schema, "object") /\ schema.allOf = <<>>
       \/ \E i \in DOMAIN parts : ~parts[i].ok
    THEN Rejected
    ELSE Layered([i \in DOMAIN parts |-> parts[i].props] \o <<schema.props>>,
                 DOMAIN schema.props \cup UNION {DOMAIN parts[i].props : i \in DOMAIN parts},
                 schema.required \cup UNION {parts[i].required : i \in DOMAIN parts})

RECURSIVE objectShape(_, _)
ShapeOf(schema, visiting) == Merged(schema, [i \in DOMAIN schema.allOf |-> objectShape(schema.allOf[i], visiting)])

objectShape(name, visiting) ==
    IF name \in visiting THEN Rejected ELSE ShapeOf(SchemaNamed[name], visiting \cup {name})

Property(shape, token) ==
    IF ~shape.ok THEN NoName ELSE IF token \in DOMAIN shape.props THEN shape.props[token] ELSE NoName

RECURSIVE schemaAtJSONPointer(_, _)
schemaAtJSONPointer(name, tokens) ==
    IF name = NoName \/ tokens = <<>> THEN name
    ELSE schemaAtJSONPointer(Property(objectShape(name, {}), Head(tokens)), Tail(tokens))

ItemsOf(schema) == IF hasSchemaType(schema, "array") THEN schema.items ELSE NoName
arrayItemSchema(name) == IF name = NoName THEN NoName ELSE ItemsOf(SchemaNamed[name])

RECURSIVE collectSchemaTypes(_, _)
TypesOf(schema, visiting) ==
    (IF schema.types # {} THEN schema.types
     ELSE (IF DOMAIN schema.props # {} \/ schema.allOf # <<>> THEN {"object"} ELSE {})
          \cup (IF schema.items # NoName THEN {"array"} ELSE {}))
    \cup UNION {collectSchemaTypes(a, visiting) : a \in schema.alternatives}

collectSchemaTypes(name, visiting) ==
    IF name \in visiting THEN {} ELSE TypesOf(SchemaNamed[name], visiting \cup {name})

nonNullSchemaTypes(name) == collectSchemaTypes(name, {}) \ {"null"}

RECURSIVE schemaAllowsNull(_)
AllowsNull(schema) ==
    schema.nullable \/ "null" \in schema.types \/ \E a \in schema.alternatives : schemaAllowsNull(a)

schemaAllowsNull(name) == AllowsNull(SchemaNamed[name])

ValueTypeOf(type, format) ==
    CASE type = "boolean" -> "boolean"
      [] type = "integer" -> (CASE format = "int32" -> "integer" [] format = "int64" -> "long"
                                [] OTHER -> "biginteger")
      [] type = "number" -> (CASE format = "float" -> "float" [] format = "double" -> "double"
                               [] OTHER -> "bigdecimal")
      [] type = "string" -> (CASE format \in {"date", "time"} -> format [] format = "date-time" -> "timestamp"
                               [] format \in {"byte", "binary"} -> "varbinary" [] OTHER -> "string")
      [] OTHER -> "json"

\* A single type decides with the format; anything else is passed on as JSON.
TypedBy(types, format) ==
    IF Cardinality(types) # 1 THEN "json" ELSE ValueTypeOf(CHOOSE t \in types : TRUE, format)

schemaValueType(name) == TypedBy(nonNullSchemaTypes(name), SchemaNamed[name].format)

schemaProxyReadOnly(name) == name # NoName /\ SchemaNamed[name].readOnly

columnMetadata(name, schema, required) ==
    [name |-> name, type |-> schemaValueType(schema), nullable |-> ~required \/ schemaAllowsNull(schema),
     updatable |-> FALSE, searchable |-> FALSE, generated |-> FALSE]

-----------------------------------------------------------------------------
(* metadata.go: operations.  A path item is [path, params, ops], with ops   *)
(* from methods to [id, params, responses, body, tags]; a parameter is      *)
(* [in, name, required, schema, plain], plain when its style is simple and  *)
(* it does not explode.                                                     *)

PathParams(path) ==
    {path[i][j].name : <<i, j>> \in {<<k, l>> \in (DOMAIN path) \X (1 .. 3) :
                                        l \in DOMAIN path[k] /\ path[k][l].kind = "param"}}
PathBroken(path) == \E i \in DOMAIN path : \E j \in DOMAIN path[i] : path[i][j].kind = "brace"

\* Places of the operations with an identifier; the lookup fails unless it is one.
OperationsNamed(document, methods, id) ==
    {<<i, m>> \in (DOMAIN document) \X methods :
        m \in DOMAIN document[i].ops /\ document[i].ops[m].id = id}

Only(document, found) ==
    LET at == CHOOSE f \in found : TRUE
    IN IF Cardinality(found) # 1 THEN Rejected
       ELSE [ok |-> TRUE, item |-> document[at[1]], method |-> at[2], op |-> document[at[1]].ops[at[2]]]

findOperation(document, id) ==
    Only(document, OperationsNamed(document, {"GET", "PUT", "POST", "DELETE", "PATCH"}, id))

findGETOperation(document, id) == Only(document, OperationsNamed(document, {"GET"}, id))

\* The parameters of the path item, each replaced by the operation's own
\* parameter of the same place and name.
effectiveOperationParameters(item, op) ==
    {p \in ToSet(item.params) : \A q \in ToSet(op.params) : <<q.in, q.name>> # <<p.in, p.name>>}
    \cup ToSet(op.params)

operationParameters(item, op, place) ==
    LET found == {p \in effectiveOperationParameters(item, op) : p.in = place}
    IN [name \in {p.name : p \in found} |-> CHOOSE p \in found : p.name = name]

ScalarTypes(types) == Cardinality(types) = 1 /\ types \subseteq {"boolean", "integer", "number", "string"}
validateEqualityParameter(parameter) ==
    parameter.schema # NoName /\ ScalarTypes(nonNullSchemaTypes(parameter.schema))

validatePathParameter(parameter) ==
    parameter.required /\ parameter.plain /\ validateEqualityParameter(parameter)

\* The schema of the JSON body of a success: status 200 before the others in
\* order (2XX counts as 300), application/json (1) before other JSON types.
successfulJSONResponseSchema(op) ==
    LET usable == {r \in op.responses : r.code \in 200 .. 300 /\ r.media > 0 /\ r.schema # NoName}
        best == CHOOSE r \in usable : \A o \in usable : r.code < o.code \/ (r.code = o.code /\ r.media <= o.media)
    IN IF usable = {} THEN NoName ELSE best.schema

jsonRequestBodySchema(op, bodyPath) ==
    IF op.body = NoName THEN NoName ELSE schemaAtJSONPointer(op.body, bodyPath)

-----------------------------------------------------------------------------
(* config.go: an entity is [name, list, responsePath, primaryKey, stableKey, *)
(* pathParameters, queryParameters, equalityFilters, pagination, mutations]. *)
(* Parameters are sequences of [parameter, field, value]; what is not set is *)
(* NoName, EmptyText, 0, <<>> or a record with on = FALSE.                   *)

Distinct(seq) == Cardinality(ToSet(seq)) = Len(seq)
Names(parameters) == [i \in DOMAIN parameters |-> parameters[i].parameter]
Fields(parameters) == [i \in DOMAIN parameters |-> parameters[i].field]

normalizePathParameters(parameters) ==
    /\ \A i \in DOMAIN parameters :
         /\ parameters[i].parameter # NoName
         /\ (parameters[i].field = NoName) # (parameters[i].value = EmptyText)
    /\ Distinct(Names(parameters))

normalizeStableKey(key) ==
    /\ key.columns # <<>> /\ NoName \notin ToSet(key.columns) /\ Distinct(key.columns)
    /\ (IF key.name = NoName THEN "identifier" ELSE key.name) \notin ToSet(key.columns)

normalizeMutationOperation(mutation) ==
    /\ mutation.operation # NoName
    /\ normalizePathParameters(mutation.pathParameters)
    /\ NoName \notin ToSet(Names(mutation.queryParameters)) /\ Distinct(Names(mutation.queryParameters))

\* Mutations, when given, are at least one.
normalizeMutations(mutations) ==
    mutations.on => /\ DOMAIN mutations.of # {}
                    /\ \A m \in DOMAIN mutations.of : normalizeMutationOperation(mutations.of[m])

\* The parameter in which a mode keeps its place.
ActiveParameter(pagination) == pagination.parameter

paginationParameterNames(pagination) ==
    {ActiveParameter(pagination)} \cup ({pagination.sizeParameter} \ {NoName})

normalizePagination(pagination) ==
    pagination.on =>
        /\ pagination.pageSize > 0
        /\ pagination.mode \in {"OFFSET", "PAGE", "CURSOR"}
        /\ ActiveParameter(pagination) # NoName
        /\ pagination.mode = "CURSOR" => pagination.nextCursorPath # <<>>
        /\ pagination.sizeParameter # ActiveParameter(pagination)

PaginationDefaults(pagination) ==
    [pagination EXCEPT !.maxPages = IF @ = 0 THEN 10000 ELSE @,
                       !.startPage = IF pagination.mode = "PAGE" /\ @ = -1 THEN 1 ELSE @]

\* Each query parameter has one source: fixed, a filter, or the paging.
ParametersDisjoint(entity) ==
    LET static == Names(entity.queryParameters)
        bound == Names(entity.equalityFilters)
        paging == IF entity.pagination.on THEN paginationParameterNames(entity.pagination) ELSE {}
    IN /\ NoName \notin ToSet(static) \cup ToSet(bound) /\ Distinct(static) /\ Distinct(bound)
       /\ NoName \notin ToSet(Fields(entity.equalityFilters)) /\ Distinct(Fields(entity.equalityFilters))
       /\ ToSet(static) \cap ToSet(bound) = {} /\ (ToSet(static) \cup ToSet(bound)) \cap paging = {}

normalizeEntity(entity) ==
    /\ entity.name # NoName /\ entity.list # NoName
    /\ NoName \notin ToSet(entity.primaryKey) /\ Distinct(entity.primaryKey)
    /\ entity.stableKey.on => entity.primaryKey = <<>> /\ normalizeStableKey(entity.stableKey)
    /\ normalizePathParameters(entity.pathParameters)
    /\ normalizePagination(entity.pagination)
    /\ ParametersDisjoint(entity)
    /\ normalizeMutations(entity.mutations)

normalizeDiscovery(discovery) == discovery.includeOperations \cap discovery.excludeOperations = {}

normalizeConfigWithEntityRequirement(raw) ==
    IF /\ raw.specFile # NoName /\ raw.requestTimeout >= 0
       /\ raw.maxResponseBytes \in 0 .. raw.responseLimit
       /\ raw.authentication.on => raw.authentication.scheme # NoName
       /\ normalizeDiscovery(raw.discovery)
       /\ raw.headers \subseteq HeaderNames
       /\ raw.entities # <<>> \/ raw.discovery.enabled
       /\ \A i \in DOMAIN raw.entities : normalizeEntity(raw.entities[i])
       /\ Distinct([i \in DOMAIN raw.entities |-> raw.entities[i].name])
    THEN [raw EXCEPT !.entities =
            [i \in DOMAIN @ |-> [@[i] EXCEPT !.pagination = IF @.on THEN PaginationDefaults(@) ELSE @]]]
         @@ [ok |-> TRUE]
    ELSE Rejected

-----------------------------------------------------------------------------
(* discovery.go *)

\* A field of its own for every parameter of the path, all declared and
\* simple, and nothing else declared for the path.
inspectListRequestBindings(item, op) ==
    LET parameters == effectiveOperationParameters(item, op)
        declared == operationParameters(item, op, "path")
        names == PathParams(item.path)
    IN IF PathBroken(item.path) \/ names # DOMAIN declared
          \/ \E n \in names : ~validatePathParameter(declared[n])
       THEN Rejected
       ELSE [ok |-> TRUE, required |-> {p \in parameters : p.in # "path" /\ p.required},
             path |-> SetToSeq({[parameter |-> n, field |-> n, value |-> EmptyText] : n \in names})]

\* The arrays of objects in a response, by their pointers.
RECURSIVE discoverObjectArrays(_, _, _)
ArrayAt(pointer, item) ==
    IF item = NoName THEN {}
    ELSE IF objectShape(item, {}).ok THEN {[pointer |-> pointer, item |-> item]} ELSE {}

ArraysIn(shape, pointer, visiting) ==
    IF ~shape.ok THEN {}
    ELSE UNION {discoverObjectArrays(shape.props[p], Append(pointer, p), visiting) : p \in DOMAIN shape.props}

discoverObjectArrays(name, pointer, visiting) ==
    IF name \in visiting THEN {}
    ELSE IF hasSchemaType(SchemaNamed[name], "array") THEN ArrayAt(pointer, SchemaNamed[name].items)
    ELSE ArraysIn(objectShape(name, {}), pointer, visiting \cup {name})

\* A path parameter gets a column of its own, so the rows must not have it.
validateDiscoveredPathFields(array, bindings) ==
    \A i \in DOMAIN bindings : \A p \in DOMAIN objectShape(array.item, {}).props : LookupName(p) # bindings[i].field

\* After the component of the rows, their title, where they are, or the operation.
NamedAfter(schema, id, pointer) ==
    CASE IdentifierOf(schema.component) # NoName -> IdentifierOf(schema.component)
      [] IdentifierOf(schema.title) # NoName -> IdentifierOf(schema.title)
      [] pointer # <<>> -> IdentifierOf(pointer[Len(pointer)])
      [] OTHER -> IdentifierOf(id)

discoveredEntityName(id, array) == NamedAfter(SchemaNamed[array.item], id, array.pointer)

NoPagination == [on |-> FALSE]
NoMutations == [on |-> FALSE]

\* What inspecting an operation finds: an entity, or nothing to expose.
EntityFor(op, bindings, array) ==
    IF bindings.required # {} \/ ~validateDiscoveredPathFields(array, bindings.path) THEN Rejected
    ELSE [ok |-> TRUE, entity |->
            [name |-> discoveredEntityName(op.id, array), list |-> op.id, responsePath |-> array.pointer,
             primaryKey |-> <<>>, stableKey |-> [on |-> FALSE], pathParameters |-> bindings.path,
             queryParameters |-> <<>>, equalityFilters |-> <<>>,
             pagination |-> NoPagination, mutations |-> NoMutations]]

inspectGETOperation(op, bindings, arrays) ==
    IF ~bindings.ok \/ Cardinality(arrays) # 1 THEN Rejected
    ELSE EntityFor(op, bindings, CHOOSE a \in arrays : TRUE)

ResponseArrays(response) == IF response = NoName THEN {} ELSE discoverObjectArrays(response, <<>>, {})

Inspected(item) ==
    inspectGETOperation(item.ops["GET"], inspectListRequestBindings(item, item.ops["GET"]),
                        ResponseArrays(successfulJSONResponseSchema(item.ops["GET"])))

\* The items discovery looks at: GET operations with a name that are not
\* mapped explicitly, not excluded, and included if anything is.
Candidates(items, discovery, mapped) ==
    SelectSeq(items, LAMBDA item :
        /\ "GET" \in DOMAIN item.ops
        /\ item.ops["GET"].id \notin {NoName} \cup mapped \cup discovery.excludeOperations
        /\ discovery.includeOperations # {} => item.ops["GET"].id \in discovery.includeOperations
        /\ discovery.includeTags # {} => item.ops["GET"].tags \cap discovery.includeTags # {})

\* An operation that was asked for by name must be found and fit; the others
\* are passed over.
DiscoveredFrom(items, discovery, ids, inspected, mapped) ==
    LET fit == {ids[i] : i \in {j \in DOMAIN ids : inspected[j].ok}}
        gets == {items[i].ops["GET"].id : i \in {j \in DOMAIN items : "GET" \in DOMAIN items[j].ops}}
        fitting == SelectSeq(inspected, LAMBDA found : found.ok)
    IN IF /\ ToSet(ids) \cap discovery.includeOperations \subseteq fit
          /\ discovery.includeOperations \subseteq fit \cup (mapped \cap gets)
       THEN [ok |-> TRUE, entities |-> [i \in DOMAIN fitting |-> fitting[i].entity]]
       ELSE Rejected

Discovered(items, discovery, candidates, mapped) ==
    DiscoveredFrom(items, discovery, [i \in DOMAIN candidates |-> candidates[i].ops["GET"].id],
                   [i \in DOMAIN candidates |-> Inspected(candidates[i])], mapped)

discoverEntities(items, discovery, explicit) ==
    LET mapped == {explicit[i].list : i \in DOMAIN explicit}
    IN IF ~discovery.enabled THEN [ok |-> TRUE, entities |-> <<>>]
       ELSE Discovered(items, discovery, Candidates(items, discovery, mapped), mapped)

-----------------------------------------------------------------------------
(* authentication.go: schemes are [type, scheme, name, in]; a credential is *)
(* NoName, "token" or "broken", which holds a newline.                      *)

authenticationForScheme(config, scheme) ==
    LET kind == IF scheme.type = "http" THEN scheme.scheme ELSE scheme.in
        ok == CASE scheme.type = "http" /\ kind = "bearer" -> config.credential = "token" /\ ~config.user
                [] scheme.type = "http" /\ kind = "basic" -> config.credential = NoName /\ config.user
                [] scheme.type = "apikey" ->
                     /\ config.credential # NoName /\ ~config.user /\ scheme.name # NoName
                     /\ kind \in {"header", "query", "cookie"}
                     /\ kind = "header" => scheme.name \in HeaderNames
                     /\ kind # "query" => config.credential = "token"
                [] OTHER -> FALSE
    IN [ok |-> ok, kind |-> kind, name |-> scheme.name]

paginationUsesParameter(pagination, name) == pagination.on /\ name \in paginationParameterNames(pagination)

\* The credential has a place of its own in every list request.
validateAuthenticationConflicts(config, authentication) ==
    CASE authentication.kind \in {"bearer", "basic"} -> "Authorization" \notin config.headers
      [] authentication.kind = "header" -> authentication.name \notin config.headers
      [] authentication.kind = "cookie" -> "Cookie" \notin config.headers
      [] authentication.kind = "query" ->
           \A i \in DOMAIN config.entities :
              /\ authentication.name \notin ToSet(Names(config.entities[i].queryParameters))
              /\ authentication.name \notin ToSet(Names(config.entities[i].equalityFilters))
              /\ ~paginationUsesParameter(config.entities[i].pagination, authentication.name)

Unauthenticated == [ok |-> TRUE, kind |-> "none", name |-> NoName]

Unconflicted(config, found) ==
    IF ~found.ok THEN Rejected ELSE IF validateAuthenticationConflicts(config, found) THEN found ELSE Rejected

resolveAuthentication(config, schemes) ==
    IF ~config.authentication.on THEN Unauthenticated
    ELSE IF config.authentication.scheme \notin DOMAIN schemes THEN Rejected
    ELSE Unconflicted(config, authenticationForScheme(config.authentication, schemes[config.authentication.scheme]))

-----------------------------------------------------------------------------
(* metadata.go: entities and their tables *)

\* Mutant: a declared path parameter may be left without a binding.
BindingsLoose(pathParameters, path, declared) ==
    \A i \in DOMAIN pathParameters : pathParameters[i].parameter \in DOMAIN declared

\* Every configured path parameter is declared, simple and in the path, and
\* every declared one is configured.
PathBindingsValid(pathParameters, path, declared) ==
    /\ \A i \in DOMAIN pathParameters :
          /\ pathParameters[i].parameter \in DOMAIN declared \cap PathParams(path)
          /\ validatePathParameter(declared[pathParameters[i].parameter])
    /\ DOMAIN declared \subseteq ToSet(Names(pathParameters))

\* The bindings of the fields of a list operation, or a rejection.
validateListBindings(entity, path, inPath, inQuery) ==
    LET dynamic == SelectSeq(entity.pathParameters, LAMBDA p : p.field # NoName)
        filters == entity.equalityFilters
        paging == IF entity.pagination.on THEN paginationParameterNames(entity.pagination) ELSE {}
        bound == ToSet(Names(entity.queryParameters)) \cup ToSet(Names(filters)) \cup paging
    IN IF /\ PathBindingsValid(entity.pathParameters, path, inPath)
          /\ bound \subseteq DOMAIN inQuery
          /\ \A i \in DOMAIN filters : validateEqualityParameter(inQuery[filters[i].parameter])
          /\ \A name \in DOMAIN inQuery \ bound : ~inQuery[name].required
       THEN [ok |-> TRUE, bindings |->
               [i \in DOMAIN dynamic |-> [location |-> "path", parameter |-> dynamic[i].parameter,
                    field |-> dynamic[i].field, schema |-> inPath[dynamic[i].parameter].schema, required |-> TRUE]]
               \o [i \in DOMAIN filters |-> [location |-> "query", parameter |-> filters[i].parameter,
                    field |-> filters[i].field, schema |-> inQuery[filters[i].parameter].schema,
                    required |-> inQuery[filters[i].parameter].required]]]
       ELSE Rejected

\* A mutation's parameters are fixed, except the fields in its path, and an
\* update or a delete has one of those.
validateBindings(mutation, method, path, inPath, inQuery) ==
    LET static == ToSet(Names(mutation.queryParameters))
    IN /\ PathBindingsValid(mutation.pathParameters, path, inPath)
       /\ static \subseteq DOMAIN inQuery
       /\ \A name \in static : validateEqualityParameter(inQuery[name])
       /\ \A name \in DOMAIN inQuery \ static : ~inQuery[name].required
       /\ method # "POST" => \E i \in DOMAIN mutation.pathParameters : mutation.pathParameters[i].field # NoName

Shape(name) == IF name = NoName THEN Rejected ELSE objectShape(name, {})
Body(op, mutation, takesBody) ==
    IF takesBody THEN Shape(jsonRequestBodySchema(op, mutation.bodyPath))
    ELSE [ok |-> TRUE, props |-> <<>>, required |-> {}]

DescribedAs(mutation, found, inPath, inQuery, body) ==
    IF body.ok /\ validateBindings(mutation, found.method, found.item.path, inPath, inQuery)
    THEN [ok |-> TRUE, config |-> mutation, method |-> found.method, path |-> found.item.path,
          props |-> body.props, required |-> body.required]
    ELSE Rejected

MutationFound(mutation, found, methods, takesBody) ==
    IF ~found.ok THEN Rejected
    ELSE IF found.method \notin methods THEN Rejected
    ELSE DescribedAs(mutation, found, operationParameters(found.item, found.op, "path"),
                     operationParameters(found.item, found.op, "query"), Body(found.op, mutation, takesBody))

describeMutation(items, mutation, methods, takesBody) ==
    MutationFound(mutation, findOperation(items, mutation.operation), methods, takesBody)

MethodsOf(m) == CASE m = "insert" -> {"POST"} [] m = "update" -> {"PATCH", "PUT"} [] m = "delete" -> {"DELETE"}

describeMutations(items, mutations) ==
    IF ~mutations.on THEN <<>>
    ELSE [m \in DOMAIN mutations.of |-> describeMutation(items, mutations.of[m], MethodsOf(m), m # "delete")]

Described(entity, path, row, list, mutations) ==
    IF ~Shape(row).ok \/ ~list.ok \/ \E m \in DOMAIN mutations : ~mutations[m].ok THEN Rejected
    ELSE [ok |-> TRUE, config |-> entity, path |-> path, bindings |-> list.bindings, row |-> row,
          mutations |-> mutations]

EntityFound(items, entity, found) ==
    IF ~found.ok THEN Rejected
    ELSE Described(entity, found.item.path,
            arrayItemSchema(schemaAtJSONPointer(successfulJSONResponseSchema(found.op), entity.responsePath)),
            validateListBindings(entity, found.item.path, operationParameters(found.item, found.op, "path"),
                                 operationParameters(found.item, found.op, "query")),
            describeMutations(items, entity.mutations))

describeEntity(items, entity) == EntityFound(items, entity, findGETOperation(items, entity.list))

\* A bound field is searchable, not null if it is required, and a column of
\* its own unless the rows have it, with the same type.
ListColumns(bindings, columns, own) ==
    LET fields == {bindings[i].field : i \in DOMAIN bindings}
        Required(f) == \E i \in DOMAIN bindings : bindings[i].field = f /\ bindings[i].required
    IN [f \in DOMAIN columns \cup fields |->
          IF f \notin fields THEN columns[f]
          ELSE [(IF f \in DOMAIN columns THEN columns[f] ELSE own[f]) EXCEPT
                   !.searchable = TRUE, !.nullable = @ /\ ~Required(f)]]

First(bindings, f) ==
    bindings[CHOOSE i \in DOMAIN bindings : bindings[i].field = f /\ \A j \in 1 .. i - 1 : bindings[j].field # f]

SameTypes(bindings, columns) ==
    \A i \in DOMAIN bindings : schemaValueType(bindings[i].schema) = columns[bindings[i].field].type

Bound(bindings, listed) == IF SameTypes(bindings, listed) THEN [ok |-> TRUE, columns |-> listed] ELSE Rejected

applyListParameterMetadata(bindings, columns) ==
    Bound(bindings, ListColumns(bindings, columns,
        [f \in {bindings[i].field : i \in DOMAIN bindings} |->
            columnMetadata(f, First(bindings, f).schema, First(bindings, f).required)]))

requiredBindingAccessPatterns(bindings) ==
    {bindings[i].field : i \in {j \in DOMAIN bindings : bindings[j].required}}

Bodies(mutations) == {mutations[m] : m \in DOMAIN mutations \cap {"insert", "update"}}
PathFields(mutation) ==
    {mutation.config.pathParameters[i].field : i \in DOMAIN mutation.config.pathParameters} \ {NoName}

\* A column can be written if a body has it, in whatever case, or the path of
\* an insert; with an insert, exactly the fields it requires are not null.
applyMutationMetadata(mutations, columns) ==
    LET Writable(body) == {p \in DOMAIN body.props : LookupName(p) \in DOMAIN columns /\ ~schemaProxyReadOnly(body.props[p])}
        Named(properties) == {LookupName(p) : p \in properties}
        insertPath == IF "insert" \in DOMAIN mutations THEN PathFields(mutations["insert"]) ELSE {}
        writable == insertPath \cup UNION {Named(Writable(body)) : body \in Bodies(mutations)}
        Required(f) == f \in insertPath \cup Named(Writable(mutations["insert"]) \cap mutations["insert"].required)
    IN IF \E m \in DOMAIN mutations : ~(PathFields(mutations[m]) \subseteq DOMAIN columns) THEN Rejected
       ELSE [ok |-> TRUE, columns |->
               [f \in DOMAIN columns |->
                  [columns[f] EXCEPT !.updatable = f \in writable,
                                     !.nullable = IF "insert" \in DOMAIN mutations THEN ~Required(f) ELSE @]]]

Keyed(columns, primaryKey) ==
    [f \in DOMAIN columns |-> [columns[f] EXCEPT !.nullable = @ /\ columns[f].name \notin ToSet(primaryKey)]]

SourceNames(columns) == {columns[f].name : f \in DOMAIN columns}

\* A key the engine generates from other columns becomes the primary key.
AddStablePrimaryKey(table, key) ==
    LET name == IF key.name = NoName THEN "identifier" ELSE key.name
        column == [name |-> name, type |-> "string", nullable |-> FALSE, updatable |-> FALSE,
                   searchable |-> TRUE, generated |-> TRUE]
    IN IF name \in DOMAIN table.columns \/ ~(ToSet(key.columns) \subseteq DOMAIN table.columns) THEN Rejected
       ELSE [table EXCEPT !.columns = [f \in DOMAIN @ \cup {name} |-> IF f = name THEN column ELSE @[f]],
                          !.key = <<name>>]

Table(descriptor, final) ==
    LET table == [ok |-> TRUE, columns |-> final.columns, key |-> descriptor.config.primaryKey,
                  required |-> requiredBindingAccessPatterns(descriptor.bindings)]
    IN IF ~final.ok THEN Rejected
       ELSE IF descriptor.config.stableKey.on THEN AddStablePrimaryKey(table, descriptor.config.stableKey)
       ELSE table

Published(descriptor, listed) ==
    IF ~listed.ok THEN Rejected
    ELSE IF ~(ToSet(descriptor.config.primaryKey) \subseteq SourceNames(listed.columns)) THEN Rejected
    ELSE Table(descriptor,
               applyMutationMetadata(descriptor.mutations, Keyed(listed.columns, descriptor.config.primaryKey)))

\* The columns, by the names they are looked up under.
ColumnsOf(shape) ==
    LET Spelled(f) == CHOOSE p \in DOMAIN shape.props : LookupName(p) = f
    IN [f \in {LookupName(p) : p \in DOMAIN shape.props} |->
          columnMetadata(Spelled(f), shape.props[Spelled(f)], Spelled(f) \in shape.required)]

tableMetadata(descriptor, shape) ==
    Published(descriptor, applyListParameterMetadata(descriptor.bindings, ColumnsOf(shape)))

\* The catalog: for each entity, what it was described as and its table.
Entry(descriptor, table) == [descriptor |-> descriptor, table |-> table, ok |-> table.ok]
EntryOf(descriptor) ==
    IF ~descriptor.ok THEN Rejected ELSE Entry(descriptor, tableMetadata(descriptor, objectShape(descriptor.row, {})))
Entries(items, entities) == [i \in DOMAIN entities |-> EntryOf(describeEntity(items, entities[i]))]

Catalog(entities, entries) ==
    IF entities = <<>> \/ (\E i \in DOMAIN entries : ~entries[i].ok)
       \/ ~Distinct([i \in DOMAIN entities |-> entities[i].name])
    THEN Rejected
    ELSE [ok |-> TRUE, entities |->
            [name \in {entities[i].name : i \in DOMAIN entities} |->
                entries[CHOOSE i \in DOMAIN entities : entities[i].name = name]]]

WithDiscovered(items, explicit, discovered) ==
    IF ~discovered.ok THEN Rejected
    ELSE Catalog(explicit \o discovered.entities, Entries(items, explicit \o discovered.entities))

buildCatalog(config, items) ==
    WithDiscovered(items, config.entities, discoverEntities(items, config.discovery, config.entities))

\* The base URL is configured or that of the document's first server.
resolveBaseURL(config, document) == config.baseUrl \/ document.server

\* Headers and credentials do not travel over plain HTTP unless allowed.
validateDatasourceTransport(config) ==
    config.plainHttp /\ ~config.allowInsecureHttp => ~config.authentication.on /\ config.headers = {}

Provider(authentication, catalog) ==
    IF ~authentication.ok \/ ~catalog.ok THEN Rejected
    ELSE [ok |-> TRUE, catalog |-> catalog.entities, authentication |-> authentication]

NewFrom(config, document) ==
    IF ~config.ok THEN Rejected
    ELSE IF ~resolveBaseURL(config, document) \/ ~validateDatasourceTransport(config) THEN Rejected
    ELSE Provider(resolveAuthentication(config, document.schemes), buildCatalog(config, document.items))

New(raw, document) == NewFrom(normalizeConfigWithEntityRequirement(raw), document)

=============================================================================
