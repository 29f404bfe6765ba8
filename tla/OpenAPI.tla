------------------------------ MODULE OpenAPI -------------------------------
(***************************************************************************)
(* The OpenAPI provider at work: a query becomes a sequence of GET         *)
(* requests, page by page, and their JSON becomes batches of rows; an      *)
(* insert becomes a POST per tuple, an update or a delete one request.     *)
(* The API's server is external: it lists, filters, pages and writes items *)
(* kept under their paths, and may fail or answer badly.                   *)
(*                                                                         *)
(* A text is the place of a string; those from NumeralsFrom spell natural  *)
(* numbers, the two before them false and true, those from twice that the  *)
(* numbers with a half.  JSON is a scalar [kind, v], an object [kind,      *)
(* fields] or an array [kind, items].  Binary and the remaining decimal    *)
(* and temporal types convert like the ones that are written out.          *)
(***************************************************************************)
EXTENDS Relational, OpenAPISchema, TLC

CONSTANTS
    RawConfigs, Document,   \* the configurations tried, and the API's document
    ApiRequests,            \* the calls that are made
    NumeralsFrom,           \* see above
    IntMax, LongMax,        \* largest 32 and 64 bit integers
    Seed,                   \* the items at the start: from addresses to properties
    FieldOrder,             \* the fields of all tables, in the order of their columns
    ServerCaps,             \* page sizes the server may impose
    CursorEndings,          \* how it may tell the last page: "absent", "null", "empty"
    ServerBodyAt(_),        \* where it reads the body of a method
    SourceRows(_, _),       \* the logical rows of a table, in the order of the server
    SourceRow(_, _),        \* the logical row of an item at an address
    SampleValue(_),         \* a value of a type
    MaxApiCalls, MaxTroubles   \* bounds

VARIABLES
    provider,     \* what New made of the configuration
    connected,    \* the connection is open
    store,        \* the server's items
    server,       \* its page size and manners
    stream,       \* the result stream of the last query
    reader,       \* what its reader has been given
    last,         \* the last mutation and its answer
    apiCalls, troubles

apiVars == <<provider, connected, store, server, stream, reader, last, apiCalls, troubles>>

NoStream == [open |-> FALSE]
NothingRead == [rows |-> <<>>, saw |-> "nothing", stable |-> TRUE, request |-> [op |-> "none"]]
NothingWritten == [call |-> 0, request |-> [op |-> "none"], answer |-> "none"]

ApiInit ==
    /\ provider \in {New(raw, Document) : raw \in RawConfigs}
    /\ connected = TRUE /\ store = Seed
    /\ server \in [cap : ServerCaps, ending : CursorEndings]
    /\ stream = NoStream /\ reader = NothingRead /\ last = NothingWritten
    /\ apiCalls = 0 /\ troubles = 0

-----------------------------------------------------------------------------
(* Values: query.go, query_parameters.go, mutation.go *)

SpellNumber(n) == NumeralsFrom + n
IsNumeral(text) == text >= NumeralsFrom /\ text < 2 * NumeralsFrom
IsDecimal(text) == text >= 2 * NumeralsFrom
IsBoolean(text) == text \in {NumeralsFrom - 2, NumeralsFrom - 1}

\* A double v stands for v / 2.
requestParameterLiteralValue(value) ==
    CASE value.kind \in {"string", "char", "date", "time", "timestamp"} -> Val("text", value.v)
      [] value.kind \in {"byte", "short", "integer", "long", "biginteger"} -> Val("text", SpellNumber(value.v))
      [] value.kind = "boolean" -> Val("text", NumeralsFrom - 2 + value.v)
      [] value.kind \in {"double", "bigdecimal"} ->
           Val("text", IF value.v % 2 = 0 THEN SpellNumber(value.v \div 2) ELSE 2 * NumeralsFrom + value.v \div 2)
      [] OTHER -> Err

\* The value of a bound column, from the text of its parameter.
requestBindingColumnValue(text, type) ==
    CASE type \in {"string", "date", "time", "timestamp"} -> Val(type, text)
      [] type = "boolean" /\ IsBoolean(text) -> Val(type, text - (NumeralsFrom - 2))
      [] type = "boolean" /\ text \in {SpellNumber(0), SpellNumber(1)} -> Val(type, text - NumeralsFrom)
      [] type = "integer" /\ IsNumeral(text) /\ text - NumeralsFrom <= IntMax -> Val(type, text - NumeralsFrom)
      [] type = "long" /\ IsNumeral(text) /\ text - NumeralsFrom <= LongMax -> Val(type, text - NumeralsFrom)
      [] type = "biginteger" /\ IsNumeral(text) -> Val(type, text - NumeralsFrom)
      [] type \in {"double", "bigdecimal"} /\ IsNumeral(text) -> Val(type, 2 * (text - NumeralsFrom))
      [] type \in {"double", "bigdecimal"} /\ IsDecimal(text) -> Val(type, 2 * (text - 2 * NumeralsFrom) + 1)
      [] OTHER -> Err

jsonInteger(raw, largest) == raw.kind = "number" /\ raw.v <= largest

\* The value of a column, from the JSON of the property.
openAPIValue(raw, type) ==
    CASE type \in {"string", "date", "time", "timestamp"} /\ raw.kind = "string" -> Val(type, raw.v)
      [] type = "boolean" /\ raw.kind = "boolean" -> Val(type, raw.v)
      [] type = "integer" /\ jsonInteger(raw, IntMax) -> Val(type, raw.v)
      [] type = "long" /\ jsonInteger(raw, LongMax) -> Val(type, raw.v)
      [] type = "biginteger" /\ raw.kind = "number" -> Val(type, raw.v)
      [] type \in {"double", "bigdecimal"} /\ raw.kind = "number" -> Val(type, 2 * raw.v)
      [] type \in {"double", "bigdecimal"} /\ raw.kind = "fraction" -> Val(type, 2 * raw.v + 1)
      [] type = "json" -> Val(type, raw.v)
      [] OTHER -> Err

mutationJSONValue(value) ==
    CASE value = Null -> Val("null", 0)
      [] value.kind \in {"string", "char", "date", "time", "timestamp"} -> Val("string", value.v)
      [] value.kind = "boolean" -> value
      [] value.kind \in {"byte", "short", "integer", "long", "biginteger"} -> Val("number", value.v)
      [] value.kind \in {"double", "bigdecimal"} ->
           IF value.v % 2 = 0 THEN Val("number", value.v \div 2) ELSE Val("fraction", value.v \div 2)
      [] value.kind = "json" -> Val("nested", value.v)
      [] OTHER -> Err

\* Types of the literals that may be projected; a null's is unknown.
literalValueType(value) ==
    IF value.kind \in {"char", "byte", "short", "clob"} THEN "unsupported" ELSE value.kind

-----------------------------------------------------------------------------
(* filter.go, query_parameters.go, request_url.go: plans *)

fieldAndLiteral(left, right) == left.op = "field" /\ right.op = "lit"

\* The equalities of a conjunction, or a rejection.
RECURSIVE Equalities(_)
Equalities(e) ==
    LET parts == [i \in DOMAIN e.args |-> Equalities(e.args[i])]
    IN CASE e.op = "cmp" /\ e.cmp = "=" /\ fieldAndLiteral(e.left, e.right) ->
              [ok |-> TRUE, pairs |-> <<[field |-> e.left.name, value |-> e.right.value]>>]
         [] e.op = "cmp" /\ e.cmp = "=" /\ fieldAndLiteral(e.right, e.left) ->
              [ok |-> TRUE, pairs |-> <<[field |-> e.right.name, value |-> e.left.value]>>]
         [] e.op = "and" /\ Len(e.args) >= 2 /\ (\A i \in DOMAIN parts : parts[i].ok) ->
              [ok |-> TRUE, pairs |-> FlattenSeq([i \in DOMAIN parts |-> parts[i].pairs])]
         [] OTHER -> Rejected

\* From fields to literals: a field is compared once.
FilterValues(found) ==
    IF ~found.ok THEN Rejected
    ELSE IF ~Distinct(Fields(found.pairs)) THEN Rejected
    ELSE [ok |-> TRUE, of |-> [f \in ToSet(Fields(found.pairs)) |->
            found.pairs[CHOOSE i \in DOMAIN found.pairs : found.pairs[i].field = f].value]]

filterLiteralValues(filter) == FilterValues(Equalities(filter))

\* Every part is text or a parameter that has a value, no segment is a dot,
\* and every parameter is used.
DotText == 1
expandOperationPath(path, parameters) ==
    LET Value(part) == IF part.kind = "text" THEN [literal |-> part.name, text |-> EmptyText]
                       ELSE [literal |-> NoName, text |-> parameters[part.name]]
        ok == /\ ~PathBroken(path) /\ PathParams(path) = DOMAIN parameters
              /\ \A name \in DOMAIN parameters : parameters[name] # EmptyText
    IN IF ~ok THEN Rejected
       ELSE LET expanded == [i \in DOMAIN path |-> [j \in DOMAIN path[i] |-> Value(path[i][j])]]
            IN IF \E i \in DOMAIN expanded : expanded[i] = <<[literal |-> NoName, text |-> DotText]>>
               THEN Rejected ELSE [ok |-> TRUE, path |-> expanded]

\* Parameters of a list request: fixed ones, and the filters' on bound fields.
ParametersAt(location, configured, bindings, texts) ==
    LET fixed == {i \in DOMAIN configured : configured[i].field = NoName}
        bound == {i \in DOMAIN bindings : bindings[i].location = location /\ bindings[i].field \in DOMAIN texts}
    IN [name \in {configured[i].parameter : i \in fixed} \cup {bindings[i].parameter : i \in bound} |->
          IF \E i \in fixed : configured[i].parameter = name
          THEN configured[CHOOSE i \in fixed : configured[i].parameter = name].value
          ELSE texts[bindings[CHOOSE i \in bound : bindings[i].parameter = name].field].v]

BindingsFrom(descriptor, columns, values, texts) ==
    LET bound == {descriptor.bindings[i].field : i \in DOMAIN descriptor.bindings}
        decoded == [f \in DOMAIN texts |-> requestBindingColumnValue(texts[f].v, columns[f].type)]
    IN IF \/ \E i \in DOMAIN descriptor.bindings :
               descriptor.bindings[i].required /\ descriptor.bindings[i].field \notin DOMAIN values
          \/ ~(DOMAIN values \subseteq bound)
          \/ \E f \in DOMAIN texts : texts[f] = Err \/ decoded[f] = Err
       THEN Rejected
       ELSE [ok |-> TRUE, columns |-> decoded,
             path |-> ParametersAt("path", descriptor.config.pathParameters, descriptor.bindings, texts),
             query |-> ParametersAt("query", descriptor.config.queryParameters, descriptor.bindings, texts)]

planQueryBindings(descriptor, columns, filter) ==
    LET found == IF filter = NoFilter THEN [ok |-> TRUE, of |-> <<>>] ELSE filterLiteralValues(filter)
    IN IF ~found.ok THEN Rejected
       ELSE BindingsFrom(descriptor, columns, found.of,
                [f \in DOMAIN found.of |-> requestParameterLiteralValue(found.of[f])])

\* All columns, or fields and literals.
planQueryProjections(columns, requested) ==
    IF requested = <<>>
    THEN LET all == SelectSeq(FieldOrder, LAMBDA f : f \in DOMAIN columns)
         IN [ok |-> TRUE, plan |-> [i \in DOMAIN all |-> Field(all[i])]]
    ELSE [ok |-> \A i \in DOMAIN requested :
                    CASE requested[i].op = "field" -> requested[i].name \in DOMAIN columns
                      [] requested[i].op = "lit" -> literalValueType(requested[i].value) # "unsupported"
                      [] OTHER -> FALSE,
          plan |-> requested]

resolveEntity(name) == IF name \in DOMAIN provider.catalog THEN provider.catalog[name] ELSE Rejected

queryBatchSize(batch) == IF batch = 0 THEN 100 ELSE batch

\* An offset is the server's where it takes one; otherwise rows are skipped.
newResultStream(entry, projections, bindings, endpoint, r) ==
    LET pagination == entry.descriptor.config.pagination
        pushed == pagination.on /\ pagination.mode = "OFFSET"
        offset == IF r.offset = NoCount THEN 0 ELSE r.offset
    IN [open |-> TRUE, entry |-> entry, projections |-> projections, bindings |-> bindings, endpoint |-> endpoint,
        buffer |-> <<>>, batch |-> queryBatchSize(r.batch), calling |-> FALSE,
        pages |-> 0, offset |-> IF pushed THEN offset ELSE 0,
        page |-> IF pagination.on THEN pagination.startPage ELSE 0,
        cursor |-> EmptyText, seen |-> {},
        skip |-> IF pushed THEN 0 ELSE offset,
        hasLimit |-> r.limit # NoCount, remaining |-> IF r.limit = NoCount THEN 0 ELSE r.limit,
        done |-> r.limit = 0, err |-> FALSE]

\* The stream of a query, or a rejection.
PlannedQuery(r, entry, bindings, projections) ==
    IF ~bindings.ok \/ ~projections.ok THEN Rejected
    ELSE LET endpoint == expandOperationPath(entry.descriptor.path, bindings.path)
         IN IF ~endpoint.ok THEN Rejected
            ELSE [ok |-> TRUE, stream |-> newResultStream(entry, projections.plan, bindings, endpoint.path, r)]

planQuery(r, entry) ==
    IF ~entry.ok \/ r.ordered THEN Rejected
    ELSE PlannedQuery(r, entry, planQueryBindings(entry.descriptor, entry.table.columns, r.filter),
                      planQueryProjections(entry.table.columns, r.projections))

-----------------------------------------------------------------------------
(* query.go: a page *)

Object(fields) == [kind |-> "object", fields |-> fields]
Array(items) == [kind |-> "array", items |-> items]
NotFound == Val("notfound", 0)

\* The node a pointer leads to, NotFound, or Err.
RECURSIVE optionalValueAtJSONPointer(_, _)
optionalValueAtJSONPointer(node, tokens) ==
    CASE tokens = <<>> -> node
      [] node.kind # "object" -> Err
      [] Head(tokens) \notin DOMAIN node.fields -> NotFound
      [] OTHER -> optionalValueAtJSONPointer(node.fields[Head(tokens)], Tail(tokens))

\* Objects in an array, or an error.
RowsOf(node) ==
    IF node.kind # "array" THEN Rejected
    ELSE IF \E i \in DOMAIN node.items : node.items[i].kind # "object" THEN Rejected
    ELSE [ok |-> TRUE, rows |-> [i \in DOMAIN node.items |-> node.items[i].fields]]

responseRows(document, responsePath) == RowsOf(optionalValueAtJSONPointer(document, responsePath))

\* The query of the next request, beyond the parameters it is bound to.
paginatedURL(pagination, s) ==
    IF ~pagination.on THEN [ok |-> TRUE, query |-> <<>>]
    ELSE IF s.pages >= pagination.maxPages THEN Rejected
    ELSE [ok |-> TRUE, query |->
            (IF pagination.sizeParameter = NoName THEN <<>>
             ELSE pagination.sizeParameter :> SpellNumber(pagination.pageSize))
            @@ (CASE pagination.mode = "OFFSET" -> pagination.parameter :> SpellNumber(s.offset)
                  [] pagination.mode = "PAGE" -> pagination.parameter :> SpellNumber(s.page)
                  [] s.cursor # EmptyText -> pagination.parameter :> s.cursor
                  [] OTHER -> <<>>)]

\* The credential goes into its own parameter, or into a header.
apply(query, authentication) ==
    IF authentication.kind = "query" THEN (authentication.name :> SpellNumber(0)) @@ query ELSE query

\* A cursor, the end, or an error.
cursorToken(raw) ==
    CASE raw = Val("null", 0) \/ raw = Val("string", EmptyText) -> [ok |-> TRUE, done |-> TRUE]
      [] raw.kind = "string" -> [ok |-> TRUE, done |-> FALSE, text |-> raw.v]
      [] raw.kind = "number" -> [ok |-> TRUE, done |-> FALSE, text |-> SpellNumber(raw.v)]
      [] OTHER -> Rejected

\* more is TRUE when the server has said that there is more.
advanceCursor(pagination, s, more, token) ==
    CASE ~token.ok \/ (token.done /\ more) -> Rejected
      [] token.done -> [ok |-> TRUE, done |-> TRUE, s |-> s]
      [] token.text \in s.seen -> Rejected
      [] OTHER -> [ok |-> TRUE, done |-> FALSE, s |-> [s EXCEPT !.cursor = token.text, !.seen = @ \cup {token.text}]]

\* hasMorePath, if there is one, must lead to a boolean, and false ends it; a
\* cursor that is missing ends it too, unless there is more.
CursorStep(pagination, s, more, cursor) ==
    CASE pagination.hasMorePath # <<>> /\ more.kind # "boolean" -> Rejected
      [] pagination.hasMorePath # <<>> /\ more.v = 0 -> [ok |-> TRUE, done |-> TRUE, s |-> s]
      [] cursor = Err \/ (cursor = NotFound /\ pagination.hasMorePath # <<>>) -> Rejected
      [] cursor = NotFound -> [ok |-> TRUE, done |-> TRUE, s |-> s]
      [] OTHER -> advanceCursor(pagination, s, pagination.hasMorePath # <<>>, cursorToken(cursor))

\* Mutant: the offset moves by the size that was asked for, not by what came.
advanceFixed(pagination, s, rowCount) ==
    [ok |-> TRUE, done |-> rowCount < pagination.pageSize,
     s |-> [s EXCEPT !.offset = @ + pagination.pageSize, !.page = @ + 1]]

advanceCounted(pagination, s, rowCount) ==
    [ok |-> TRUE, done |-> rowCount < pagination.pageSize,
     s |-> IF pagination.mode = "OFFSET" THEN [s EXCEPT !.offset = @ + rowCount] ELSE [s EXCEPT !.page = @ + 1]]

Advanced(pagination, s, document, rowCount) ==
    IF pagination.mode # "CURSOR" THEN advanceCounted(pagination, s, rowCount)
    ELSE CursorStep(pagination, s, optionalValueAtJSONPointer(document, pagination.hasMorePath),
                    optionalValueAtJSONPointer(document, pagination.nextCursorPath))

advancePagination(pagination, s, document, rowCount) ==
    IF ~pagination.on THEN [ok |-> TRUE, done |-> TRUE, s |-> s]
    ELSE Advanced(pagination, [s EXCEPT !.pages = @ + 1], document, rowCount)

\* A column of a row: the property, the value it was bound to, or null.
ColumnValue(row, field, column, bound) ==
    LET missing == column.generated \/ column.name \notin DOMAIN row
        absent == IF missing THEN TRUE ELSE row[column.name].kind = "null"
    IN CASE ~absent -> openAPIValue(row[column.name], column.type)
         [] field \in DOMAIN bound -> bound[field]
         [] ~column.nullable -> Err
         [] OTHER -> Null

rowTuple(row, projections, columns, bound) ==
    LET values == [i \in DOMAIN projections |->
                     IF projections[i].op = "lit" THEN projections[i].value
                     ELSE ColumnValue(row, projections[i].name, columns[projections[i].name], bound)]
    IN IF Err \in ToSet(values) THEN Rejected ELSE [ok |-> TRUE, values |-> values]

-----------------------------------------------------------------------------
(* External: the server.  A list shows the items under a path, in the order *)
(* of their identifiers, that agree with the query.                         *)

Paging == {"limit", "offset", "page", "cursor", "key"}
TextOf(raw) ==
    CASE raw.kind = "string" -> raw.v [] raw.kind = "number" -> SpellNumber(raw.v)
      [] raw.kind = "boolean" -> NumeralsFrom - 2 + raw.v [] OTHER -> 2 * NumeralsFrom + raw.v

Matches(item, query) ==
    \A name \in DOMAIN query \ Paging : name \in DOMAIN item /\ TextOf(item[name]) = query[name]

Listed(path, query) ==
    LET found == {a \in DOMAIN store : Front(a) = path /\ Matches(store[a], query)}
    IN SetToSortSeq(found, LAMBDA a, b : a[Len(a)][1].text < b[Len(b)][1].text)

ServerPage(query) ==
    IF "limit" \notin DOMAIN query THEN server.cap
    ELSE IF query["limit"] - NumeralsFrom < server.cap THEN query["limit"] - NumeralsFrom ELSE server.cap

ServerStart(query, size) ==
    CASE "offset" \in DOMAIN query -> query["offset"] - NumeralsFrom
      [] "page" \in DOMAIN query -> (query["page"] - NumeralsFrom - 1) * size
      [] "cursor" \in DOMAIN query -> query["cursor"] - NumeralsFrom
      [] OTHER -> 0

Ending == CASE server.ending = "null" -> "next" :> Val("null", 0)
            [] server.ending = "empty" -> "next" :> Val("string", EmptyText)
            [] OTHER -> <<>>

\* What a server can do wrong: send the reader round in circles, leave out or
\* contradict what it says of there being more, show something else, or fail.
Manners == {"good", "circle", "silent", "contradiction", "shape", "failure"}

ListResponse(addresses, start, size, manner) ==
    LET more == start + size < Len(addresses)
        shown == SubSeq(addresses, start + 1, IF more THEN start + size ELSE Len(addresses))
        items == [i \in DOMAIN shown |-> IF manner = "shape" THEN Val("number", 0) ELSE Object(store[shown[i]])]
        next == CASE manner = "contradiction" -> "next" :> Val("null", 0)
                  [] manner = "circle" -> "next" :> Val("string", SpellNumber(start))
                  [] more -> "next" :> Val("string", SpellNumber(start + size))
                  [] OTHER -> Ending
        flag == IF manner = "silent" THEN <<>> ELSE "more" :> Bool(more \/ manner \in {"contradiction", "circle"})
    IN Object("data" :> Object(("items" :> Array(items)) @@ next @@ flag))

Respond(path, query, manner) == ListResponse(Listed(path, query), ServerStart(query, ServerPage(query)),
                                             ServerPage(query), manner)

-----------------------------------------------------------------------------
(* result_stream.go *)

Failed(s) == [s EXCEPT !.done = TRUE, !.err = TRUE]

\* The rows of a page: some are skipped, the limit cuts them off, and the
\* first that does not decode ends the stream after those before it.
Kept(s, rows, done, tuples) ==
    LET bad == {i \in DOMAIN tuples : ~tuples[i].ok}
        good == IF bad = {} THEN tuples ELSE SubSeq(tuples, 1, (CHOOSE i \in bad : \A j \in bad : i <= j) - 1)
        left == s.remaining - Len(good)
    IN [s EXCEPT !.buffer = @ \o [i \in DOMAIN good |-> good[i].values],
                 !.skip = IF Len(rows) >= @ THEN 0 ELSE @ - Len(rows),
                 !.remaining = IF s.hasLimit THEN left ELSE @,
                 !.err = bad # {},
                 !.done = done \/ bad # {} \/ (s.hasLimit /\ left = 0)]

Window(s, rows) ==
    LET from == SubSeq(rows, s.skip + 1, Len(rows))
    IN IF s.hasLimit /\ s.remaining < Len(from) THEN SubSeq(from, 1, s.remaining) ELSE from

AddRows(s, rows, done, window) ==
    Kept(s, rows, done, [i \in DOMAIN window |->
        rowTuple(window[i], s.projections, s.entry.table.columns, s.bindings.columns)])

Page(s, rows, advanced) ==
    IF ~advanced.ok THEN Failed(s) ELSE AddRows(advanced.s, rows, advanced.done, Window(advanced.s, rows))

\* One fetch of the loop of Next.
Received(s, document, found) ==
    IF ~found.ok THEN Failed(s)
    ELSE Page(s, found.rows, advancePagination(s.entry.descriptor.config.pagination, s, document, Len(found.rows)))

fetchPage(s, url, manner) ==
    IF ~connected \/ ~url.ok \/ manner = "failure" THEN Failed(s)
    ELSE \* a local name for the response would be evaluated at every use
         LET Answer(document) ==
               Received(s, document, responseRows(document, s.entry.descriptor.config.responsePath))
         IN Answer(Respond(s.endpoint, apply(url.query @@ s.bindings.query, provider.authentication), manner))

-----------------------------------------------------------------------------
(* mutation.go *)

\* Fields are known, once each, and in the body, spelled alike, where they may
\* be written, or in the path.
mutationFields(columns, fields, mutation) ==
    /\ Distinct(fields) /\ ToSet(fields) \subseteq DOMAIN columns
    /\ \A f \in ToSet(fields) :
          IF columns[f].name \in DOMAIN mutation.props THEN ~schemaProxyReadOnly(mutation.props[columns[f].name])
          ELSE f \in PathFields(mutation)

InBody(columns, fields, mutation) == {f \in ToSet(fields) : columns[f].name \in DOMAIN mutation.props}

\* Properties of a body, from the values of fields.
BodyOf(columns, values) ==
    [p \in {columns[f].name : f \in DOMAIN values} |->
        mutationJSONValue(values[CHOOSE f \in DOMAIN values : columns[f].name = p])]

\* What a tuple sends: its values by field, and the body, which must have
\* every required property that can be written.
insertTuple(columns, fields, tuple, mutation) ==
    LET values == [f \in ToSet(fields) |-> tuple[CHOOSE i \in DOMAIN fields : fields[i] = f]]
        body == BodyOf(columns, [f \in InBody(columns, fields, mutation) |-> values[f]])
        needed == {p \in mutation.required : p \notin DOMAIN mutation.props \/ ~schemaProxyReadOnly(mutation.props[p])}
    IN IF \/ \E p \in DOMAIN body : body[p] = Err
          \/ ~(needed \subseteq DOMAIN body)
       THEN Rejected ELSE [ok |-> TRUE, values |-> values, body |-> body]

\* Assigned once each, in the body, spelled alike, and not read-only.
assignmentBody(columns, mutation, assignments) ==
    LET fields == Fields(assignments)
        body == BodyOf(columns, [f \in ToSet(fields) |-> assignments[CHOOSE i \in DOMAIN fields : fields[i] = f].value])
    IN IF fields = <<>> \/ ~Distinct(fields) \/ ~(ToSet(fields) \subseteq DOMAIN columns) THEN Rejected
       ELSE IF InBody(columns, fields, mutation) # ToSet(fields) THEN Rejected
       ELSE IF \E p \in DOMAIN body : schemaProxyReadOnly(mutation.props[p]) \/ body[p] = Err THEN Rejected
       ELSE [ok |-> TRUE, body |-> body]

\* Mutant: comparisons that the path has no place for are dropped.
mutationPathFilterLoose(mutation, filter) ==
    LET found == IF filter = NoFilter THEN Rejected ELSE filterLiteralValues(filter)
    IN IF ~found.ok THEN Rejected
       ELSE IF ~(PathFields(mutation) \subseteq DOMAIN found.of) THEN Rejected ELSE found

\* Exactly the fields of the path are compared.
mutationPathFilter(mutation, filter) ==
    LET found == IF filter = NoFilter THEN Rejected ELSE filterLiteralValues(filter)
    IN IF ~found.ok THEN Rejected
       ELSE IF PathFields(mutation) # DOMAIN found.of THEN Rejected ELSE found

RECURSIVE wrapMutationBody(_, _)
wrapMutationBody(body, tokens) ==
    IF tokens = <<>> THEN Object(body) ELSE Object(Head(tokens) :> wrapMutationBody(body, Tail(tokens)))

MutationPath(mutation, values) ==
    LET parameters == mutation.config.pathParameters
        Text1(p) == IF p.field = NoName THEN Val("text", p.value)
                    ELSE IF p.field \notin DOMAIN values THEN Err ELSE requestParameterLiteralValue(values[p.field])
    IN IF \E i \in DOMAIN parameters : Text1(parameters[i]) = Err THEN Rejected
       ELSE expandOperationPath(mutation.path, [name \in ToSet(Names(parameters)) |->
                Text1(parameters[CHOOSE i \in DOMAIN parameters : parameters[i].parameter = name]).v])

\* External: a POST creates an item, under the identifier it is given or a
\* fresh one; the others need the item to be there.
NewAddress(items, path, body) ==
    LET taken == {a[Len(a)][1].text - NumeralsFrom : a \in {b \in DOMAIN items : Front(b) = path}}
        id == IF "id" \in DOMAIN body THEN TextOf(body["id"])
              ELSE SpellNumber(1 + Cardinality(taken) + (IF 1 + Cardinality(taken) \in taken THEN 2 ELSE 0))
    IN Append(path, <<[literal |-> NoName, text |-> id]>>)

Stored(items, address, body) ==
    [a \in DOMAIN items \cup {address} |->
        IF a # address THEN items[a]
        ELSE ("id" :> Val("number", address[Len(address)][1].text - NumeralsFrom)) @@ body]

ServerWrites(items, method, path, body) ==
    CASE method = "POST" ->
           IF NewAddress(items, path, body) \in DOMAIN items THEN Rejected
           ELSE [ok |-> TRUE, items |-> Stored(items, NewAddress(items, path, body), body)]
      [] path \notin DOMAIN items -> Rejected
      [] method = "DELETE" -> [ok |-> TRUE, items |-> [a \in DOMAIN items \ {path} |-> items[a]]]
      [] method = "PATCH" -> [ok |-> TRUE, items |-> [items EXCEPT ![path] = body @@ @]]
      [] OTHER -> [ok |-> TRUE, items |-> Stored(items, path, body)]

\* The server reads the body where it expects it.
Delivered(items, mutation, path, payload) ==
    LET body == optionalValueAtJSONPointer(payload, ServerBodyAt(mutation.method))
    IN IF body.kind # "object" THEN Rejected ELSE ServerWrites(items, mutation.method, path, body.fields)

\* A request that goes wrong is not sent, or done and its answer lost.
executeMutation(items, mutation, values, body, fault) ==
    LET address == MutationPath(mutation, values)
    IN IF ~connected \/ ~address.ok \/ fault = "unsent" THEN [ok |-> FALSE, items |-> items]
       ELSE LET written == Delivered(items, mutation, address.path, wrapMutationBody(body, mutation.config.bodyPath))
            IN IF written.ok THEN [ok |-> fault # "lost", items |-> written.items]
               ELSE [ok |-> FALSE, items |-> items]

\* A tuple at a time, until one fails; the fault is of the one at place at.
RECURSIVE InsertAll(_, _, _, _, _, _, _)
InsertAll(items, mutation, columns, fields, tuples, at, fault) ==
    IF tuples = <<>> THEN [ok |-> TRUE, items |-> items]
    ELSE LET tuple == insertTuple(columns, fields, Head(tuples), mutation)
         IN IF ~tuple.ok THEN [ok |-> FALSE, items |-> items]
            ELSE LET done == executeMutation(items, mutation, tuple.values, tuple.body,
                                             IF at = 1 THEN fault ELSE "none")
                 IN IF done.ok THEN InsertAll(done.items, mutation, columns, fields, Tail(tuples), at - 1, fault)
                    ELSE done

Insert(r, entry, mutation, at, fault) ==
    IF ~mutationFields(entry.table.columns, r.fields, mutation) THEN [ok |-> FALSE, items |-> store]
    ELSE InsertAll(store, mutation, entry.table.columns, r.fields, r.tuples, at, fault)

Update(r, entry, mutation, fault) ==
    LET values == mutationPathFilter(mutation, r.filter)
        body == assignmentBody(entry.table.columns, mutation, r.assignments)
    IN IF ~values.ok \/ ~body.ok THEN [ok |-> FALSE, items |-> store]
       ELSE executeMutation(store, mutation, values.of, body.body, fault)

Delete(r, entry, mutation, fault) ==
    LET values == mutationPathFilter(mutation, r.filter)
    IN IF ~values.ok THEN [ok |-> FALSE, items |-> store]
       ELSE executeMutation(store, mutation, values.of, <<>>, fault)

-----------------------------------------------------------------------------
(* Actions *)

Called == provider.ok /\ apiCalls < MaxApiCalls /\ apiCalls' = apiCalls + 1
Troubled(trouble) == IF trouble THEN troubles < MaxTroubles /\ troubles' = troubles + 1
                     ELSE UNCHANGED troubles

QueryCall ==
    /\ Called /\ ~stream.open
    /\ \E r \in ApiRequests :
         /\ r.op = "query"
         /\ \E plan \in {IF connected THEN planQuery(r, resolveEntity(r.entity)) ELSE Rejected} :
              /\ stream' = IF plan.ok THEN plan.stream ELSE NoStream
              /\ reader' = [NothingRead EXCEPT !.request = r, !.saw = IF plan.ok THEN "nothing" ELSE "refusal"]
    /\ UNCHANGED <<provider, connected, store, server, last, troubles>>

NextCall ==
    /\ stream.open /\ ~stream.calling /\ reader.saw = "nothing"
    /\ stream' = [stream EXCEPT !.calling = TRUE]
    /\ UNCHANGED <<provider, connected, store, server, reader, last, apiCalls, troubles>>

More == Len(stream.buffer) < stream.batch /\ ~stream.done

\* The context of the call may end while a request is under way.
Fetch ==
    /\ stream.open /\ stream.calling /\ More
    /\ \E manner \in Manners :
         /\ Troubled(manner # "good")
         /\ stream' = fetchPage(stream, paginatedURL(stream.entry.descriptor.config.pagination, stream), manner)
         /\ reader' = [reader EXCEPT !.stable = @ /\ manner \in {"good", "failure", "shape", "silent"}]
    /\ UNCHANGED <<provider, connected, store, server, last, apiCalls>>

\* A batch, the error the fetches met once what came before it is delivered,
\* or the end.
NextReturn ==
    /\ stream.open /\ stream.calling /\ ~More
    /\ \E size \in {IF Len(stream.buffer) < stream.batch THEN Len(stream.buffer) ELSE stream.batch} :
         /\ reader' = IF size > 0 THEN [reader EXCEPT !.rows = @ \o SubSeq(stream.buffer, 1, size)]
                      ELSE [reader EXCEPT !.saw = IF stream.err THEN "error" ELSE "eof"]
         /\ stream' = [stream EXCEPT !.calling = FALSE,
                                     !.buffer = SubSeq(@, size + 1, Len(@))]
    /\ UNCHANGED <<provider, connected, store, server, last, apiCalls, troubles>>

\* Close reports the error that no call has reported.
CloseStream ==
    /\ stream.open /\ ~stream.calling
    /\ stream' = NoStream
    /\ reader' = [reader EXCEPT !.saw = IF @ # "nothing" THEN @ ELSE IF stream.err THEN "error" ELSE "closed"]
    /\ UNCHANGED <<provider, connected, store, server, last, apiCalls, troubles>>

Mutated(r, result) ==
    /\ store' = result.items
    /\ last' = [call |-> apiCalls', request |-> r, answer |-> IF result.ok THEN "ok" ELSE "error"]
    /\ reader' = [reader EXCEPT !.stable = @ /\ result.items = store]
    /\ UNCHANGED <<provider, connected, server, stream>>

MutationOf(r) ==
    IF r.entity \notin DOMAIN provider.catalog THEN Rejected
    ELSE IF r.op \notin DOMAIN provider.catalog[r.entity].descriptor.mutations THEN Rejected
    ELSE provider.catalog[r.entity].descriptor.mutations[r.op]

InsertCall ==
    /\ Called
    /\ \E r \in ApiRequests : r.op = "insert" /\
         \E fault \in {"none", "unsent", "lost"}, at \in DOMAIN r.tuples, mutation \in {MutationOf(r)} :
           /\ fault = "none" => at = 1
           /\ Troubled(fault # "none")
           /\ mutation.ok
           /\ Mutated(r, Insert(r, resolveEntity(r.entity), mutation, at, fault))

UpdateCall ==
    /\ Called
    /\ \E r \in ApiRequests : r.op = "update" /\
         \E fault \in {"none", "unsent", "lost"}, mutation \in {MutationOf(r)} :
           /\ Troubled(fault # "none")
           /\ mutation.ok
           /\ Mutated(r, Update(r, resolveEntity(r.entity), mutation, fault))

DeleteCall ==
    /\ Called
    /\ \E r \in ApiRequests : r.op = "delete" /\
         \E fault \in {"none", "unsent", "lost"}, mutation \in {MutationOf(r)} :
           /\ Troubled(fault # "none")
           /\ mutation.ok
           /\ Mutated(r, Delete(r, resolveEntity(r.entity), mutation, fault))

\* Streams that are open see it at their next fetch.
ConnectionClose ==
    /\ Called /\ connected
    /\ connected' = FALSE
    /\ UNCHANGED <<provider, store, server, stream, reader, last, troubles>>

ApiNext == \/ QueryCall \/ NextCall \/ Fetch \/ NextReturn \/ CloseStream
           \/ InsertCall \/ UpdateCall \/ DeleteCall \/ ConnectionClose

ApiSpec == ApiInit /\ [][ApiNext]_apiVars

-----------------------------------------------------------------------------
(* Properties *)

\* The rows a request asks for, by what its filter means.
Asked(r) ==
    LET found == SelectSeq(SourceRows(r.entity, store), LAMBDA row : Selected(row, r.filter))
        skip == IF r.offset = NoCount THEN 0 ELSE r.offset
    IN SubSeq(found, skip + 1, skip + PageSize(Len(found), skip, r.limit))

Projected(row, plan) == [i \in DOMAIN plan |-> Scalar(row, plan[i])]

\* A reader that is told the end, without an error, has been given exactly the
\* rows it asked for: across pages, batches, skipped rows and limits, in every
\* mode of paging, and whatever went wrong on the way.  It is given, that
\* nothing was written meanwhile, that the server's page is not smaller than
\* pageSize where a short page is taken for the last, and that the server does
\* not lie about where the next page is.
EofComplete ==
    reader.saw = "eof" /\ reader.stable =>
        LET pagination == stream.entry.descriptor.config.pagination
            answered == CASE ~pagination.on -> Len(SourceRows(reader.request.entity, store)) <= server.cap
                          [] pagination.mode = "CURSOR" -> TRUE
                          [] OTHER -> server.cap >= pagination.pageSize
            asked == Asked(reader.request)
        IN stream.open /\ answered =>
             reader.rows = [i \in DOMAIN asked |-> Projected(asked[i], stream.projections)]

\* What a table publishes is what it accepts: comparing the columns of its
\* access pattern is enough to query it, any searchable column may be added,
\* and comparing the fields of the path is enough to update or delete.  Its
\* writable columns that are not null are enough to insert, and every writable
\* column is taken by the insert or the update, with two exceptions, in which
\* the catalog promises what mutation.go refuses.  It pairs a column with a
\* property of a body that is spelled in another case (or, if the property is
\* required, with no column at all); and it publishes the fields of an
\* insert's path as required, although one may be a read-only property of the
\* body.  With such an insert no choice of columns is accepted.
Equal(columns, fields) ==
    LET list == SelectSeq(FieldOrder, LAMBDA f : f \in fields)
        terms == [i \in DOMAIN list |-> Cmp("=", Field(list[i]), Lit(SampleValue(columns[list[i]].type)))]
    IN IF list = <<>> THEN NoFilter ELSE IF Len(list) = 1 THEN terms[1] ELSE And(terms)

QueryOf(entity, filter) ==
    [op |-> "query", entity |-> entity, filter |-> filter, projections |-> <<>>, ordered |-> FALSE,
     limit |-> NoCount, offset |-> NoCount, batch |-> 1]

InsertAccepted(columns, mutation, fields) ==
    LET given == SelectSeq(FieldOrder, LAMBDA f : f \in fields)
        sent == insertTuple(columns, given, [i \in DOMAIN given |-> SampleValue(columns[given[i]].type)], mutation)
    IN mutationFields(columns, given, mutation) /\ sent.ok /\ MutationPath(mutation, sent.values).ok

\* Properties of a body no column is spelled like, and fields that the path
\* asks for and the body keeps to itself.
Unmatched(columns, body) == {p \in DOMAIN body.props : p \notin SourceNames(columns) /\ ~schemaProxyReadOnly(body.props[p])}
Withheld(columns, body) ==
    {f \in PathFields(body) : columns[f].name \in DOMAIN body.props /\ schemaProxyReadOnly(body.props[columns[f].name])}

InsertUsable(columns, mutation) ==
    IF Unmatched(columns, mutation) \cap mutation.required = {} /\ Withheld(columns, mutation) = {}
    THEN InsertAccepted(columns, mutation, {f \in DOMAIN columns : columns[f].updatable /\ ~columns[f].nullable})
    ELSE \A fields \in SUBSET DOMAIN columns : ~InsertAccepted(columns, mutation, fields)

WritableTaken(columns, mutations) ==
    LET Takes(m, f) == IF m = "insert" THEN mutationFields(columns, <<f>>, mutations[m])
                       ELSE assignmentBody(columns, mutations[m],
                                <<[field |-> f, value |-> SampleValue(columns[f].type)]>>).ok
        excepted == UNION {{LookupName(p) : p \in Unmatched(columns, body)} \cup Withheld(columns, body) : body \in Bodies(mutations)}
        taken == {f \in DOMAIN columns : \E m \in DOMAIN mutations \ {"delete"} : Takes(m, f)}
        promised == {f \in DOMAIN columns : columns[f].updatable}
    IN taken \subseteq promised /\ promised \ excepted \subseteq taken

WriteAccepted(table, mutation) ==
    LET values == mutationPathFilter(mutation, Equal(table.columns, PathFields(mutation)))
    IN values.ok /\ MutationPath(mutation, values.of).ok

PublishedUsable ==
    provider.ok /\ apiCalls = 0 => \A name \in DOMAIN provider.catalog :
        LET entry == provider.catalog[name]
            searchable == {f \in DOMAIN entry.table.columns :
                             entry.table.columns[f].searchable /\ ~entry.table.columns[f].generated}
        IN /\ \A f \in searchable \cup {""} :
                planQuery(QueryOf(name, Equal(entry.table.columns, entry.table.required \cup ({f} \ {""}))), entry).ok
           /\ \A m \in DOMAIN entry.descriptor.mutations :
                IF m = "insert" THEN InsertUsable(entry.table.columns, entry.descriptor.mutations[m])
                ELSE WriteAccepted(entry.table, entry.descriptor.mutations[m])
           /\ WritableTaken(entry.table.columns, entry.descriptor.mutations)

\* A write that is acknowledged has done what the request asks for, to the
\* rows it means and no others; one that is refused or whose answer is lost
\* has done that or, an insert, a part of it, or nothing.  An update finds one
\* row, which has the assigned values then; its other columns keep theirs if
\* the operation is a PATCH, but a PUT is sent the assigned properties alone,
\* and the rest of the row is lost.  A delete removes the one row it selects,
\* and an insert adds a row for each of its tuples, in order.
Same(x, y) == IF x = Null \/ y = Null THEN x = y ELSE x.v = y.v
Untouched(items) == \A a \in DOMAIN items : a \in DOMAIN store' /\ store'[a] = store[a]
Without(items, gone) == [a \in DOMAIN items \ gone |-> items[a]]
ItemsOfTable(entity) == {a \in DOMAIN store : SourceRow(a, store[a]) \in ToSet(SourceRows(entity, store))}
Meant(r) == {a \in ItemsOfTable(r.entity) : Selected(SourceRow(a, store[a]), r.filter)}

RowUpdated(r, before, after) ==
    LET fields == Fields(r.assignments)
        replaced == MutationOf(r).method = "PUT"
    IN \A f \in DOMAIN before :
         CASE f \in ToSet(fields) -> Same(after[f], r.assignments[CHOOSE i \in DOMAIN fields : fields[i] = f].value)
           [] f \notin ToSet(fields) /\ replaced /\ f \notin PathFields(MutationOf(r)) -> after[f] = Null
           [] OTHER -> after[f] = before[f]

Updated(r) ==
    /\ Cardinality(Meant(r)) = 1 /\ DOMAIN store' = DOMAIN store /\ Untouched(Without(store, Meant(r)))
    /\ \A a \in Meant(r) : RowUpdated(r, SourceRow(a, store[a]), SourceRow(a, store'[a]))

Deleted(r) == Cardinality(Meant(r)) = 1 /\ store' = Without(store, Meant(r))

RowInserted(r, tuple, row) ==
    \A f \in DOMAIN row \ {"id"} :
        IF f \in ToSet(r.fields) THEN Same(row[f], tuple[CHOOSE i \in DOMAIN r.fields : r.fields[i] = f]) ELSE row[f] = Null

Inserted(r, count) ==
    LET added == DOMAIN store' \ DOMAIN store
    IN /\ Untouched(store) /\ Cardinality(added) = count
       /\ \E at \in [1 .. count -> added] : \A i \in 1 .. count :
             /\ \A j \in 1 .. i - 1 : at[j] # at[i]
             /\ RowInserted(r, r.tuples[i], SourceRow(at[i], store'[at[i]]))

Wrote(r) ==
    LET acknowledged == last'.answer = "ok"
    IN CASE r.op = "insert" ->
              \E count \in 0 .. Len(r.tuples) : Inserted(r, count) /\ (acknowledged => count = Len(r.tuples))
         [] r.op = "update" -> Updated(r) \/ (~acknowledged /\ store' = store)
         [] r.op = "delete" -> Deleted(r) \/ (~acknowledged /\ store' = store)
         [] OTHER -> FALSE
WritesExact == [][last' # last \/ store' # store => Wrote(last'.request)]_apiVars

\* providers/openapi/README.md says of the column a stable key generates that
\* it is never projected to the API.
GeneratedUnprojected ==
    stream.open /\ reader.request.projections = <<>> => \A i \in DOMAIN stream.projections :
        stream.projections[i].op = "field" =>
            ~stream.entry.table.columns[stream.projections[i].name].generated
=============================================================================
