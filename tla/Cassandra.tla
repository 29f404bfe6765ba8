----------------------------- MODULE Cassandra ------------------------------
(***************************************************************************)
(* The Cassandra provider: logical requests become CQL statements, and the *)
(* rows of an iterator become batches.  A statement is the record of what  *)
(* its text says; Cassandra itself, which accepts or rejects a statement   *)
(* and executes it, is external.  Column names are canonical.              *)
(***************************************************************************)
EXTENDS Relational, SequencesExt, TLC

CONSTANTS
    Columns,             \* from column names to [kind, type]: the table's metadata
    OrderedColumns,      \* its column names in order
    CqlRequests,         \* the calls that are made
    AggregatesEnabled,   \* pushdown.aggregates
    IntMax, TinyMax,     \* largest INT and TINYINT
    MaxLimit,            \* largest LIMIT (2^31 - 1)
    BatchSize,           \* queryPageSize
    CqlSeed,             \* rows at the start: from <<partition, clustering>>
    MaxStatements, MaxBreaks     \* bounds

VARIABLES
    rows,         \* Cassandra: from primary keys to native rows
    stream,       \* the result stream of the last query
    reader,       \* what the reader of the stream has been given
    statements, breaks

cassandraVars == <<rows, stream, reader, statements, breaks>>

NoCqlStream == [open |-> FALSE]
NoReader == [batches |-> <<>>, saw |-> "nothing"]

CassandraInit ==
    /\ rows = CqlSeed
    /\ stream = NoCqlStream /\ reader = NoReader
    /\ statements = 0 /\ breaks = 0

-----------------------------------------------------------------------------
(* codec.go: native values are numbers (or NoValue); the native type says   *)
(* what they mean.                                                          *)

NoValue == -99
TypeMax(type) == CASE type = "tinyint" -> TinyMax [] type = "int" -> IntMax

logicalValueType(type) ==
    CASE type = "text" -> "string" [] type = "int" -> "integer" [] type = "tinyint" -> "byte"
      [] type = "bigint" -> "long" [] type = "varint" -> "biginteger" [] OTHER -> "unknown"

IntegerKinds == {"byte", "integer", "long", "biginteger"}

\* An integer of any kind, when it fits in the bits of the type.
providerInteger(value, type) ==
    IF value.kind \notin IntegerKinds THEN Err
    ELSE IF type \in {"tinyint", "int"} /\ (value.v > TypeMax(type) \/ value.v < -TypeMax(type) - 1) THEN Err
    ELSE Val("native", value.v)

providerString(value) ==
    IF value.kind \in {"string", "char", "clob", "json"} THEN Val("native", value.v) ELSE Err

providerToNative(value, type) ==
    CASE value = Null -> Val("native", NoValue)
      [] type = "text" -> providerString(value)
      [] OTHER -> providerInteger(value, type)

nativeToValue(type, native) ==
    IF native = NoValue THEN Null
    ELSE IF logicalValueType(type) = "unknown" THEN Err
    ELSE Val(logicalValueType(type), native)

\* COUNT comes as a BIGINT, and leaves as the integer type that was asked for,
\* if it fits.
coerceAggregateResult(value, type) ==
    CASE value = Null -> Null
      [] value.kind = type -> value
      [] type = "integer" -> IF providerInteger(value, "int") = Err THEN Err ELSE Val("integer", value.v)
      [] type \in {"long", "biginteger"} /\ value.kind \in IntegerKinds -> Val(type, value.v)
      [] OTHER -> Err

-----------------------------------------------------------------------------
(* translate.go *)

Refused == [ok |-> FALSE]

findColumn(name) == name \in DOMAIN Columns

comparisonOperator(cmp) == cmp \in {"=", "<", "<=", ">", ">="}

reverseComparison(cmp) ==
    CASE cmp = "<" -> ">" [] cmp = "<=" -> ">=" [] cmp = ">" -> "<" [] cmp = ">=" -> "<="
      [] OTHER -> cmp

\* One column, one literal that is not null and converts to the column's type.
buildComparison(e) ==
    LET straight == e.left.op = "field" /\ e.right.op = "lit"
        field == IF straight THEN e.left ELSE e.right
        literal == IF straight THEN e.right ELSE e.left
        cmp == IF straight THEN e.cmp ELSE reverseComparison(e.cmp)
        native == providerToNative(literal.value, Columns[field.name].type)
    IN IF ~straight /\ ~(e.right.op = "field" /\ e.left.op = "lit") THEN Refused
       ELSE IF ~findColumn(field.name) \/ ~comparisonOperator(cmp) THEN Refused
       ELSE IF native = Err \/ native.v = NoValue THEN Refused
       ELSE [ok |-> TRUE, where |-> <<[column |-> field.name, cmp |-> cmp, value |-> native.v]>>]

\* A conjunction of comparisons, or nothing.
RECURSIVE buildFilter(_)
buildFilter(e) ==
    LET parts == [i \in DOMAIN e.args |-> buildFilter(e.args[i])]
    IN CASE e = NoFilter -> [ok |-> TRUE, where |-> <<>>]
         [] e.op = "cmp" -> buildComparison(e)
         [] e.op = "and" /\ Len(e.args) >= 2 /\ (\A i \in DOMAIN parts : parts[i].ok) ->
              [ok |-> TRUE, where |-> FlattenSeq([i \in DOMAIN parts |-> parts[i].where])]
         [] OTHER -> Refused

\* Fields in a direction; an explicit place for nulls is refused.
buildOrdering(orderBy) ==
    IF \E i \in DOMAIN orderBy : orderBy[i].nulls # "unspecified" \/ ~findColumn(orderBy[i].field)
    THEN Refused ELSE [ok |-> TRUE, order |-> orderBy]

queryLimit(limit) == limit = NoCount \/ limit <= MaxLimit

aggregateColumn(agg) ==
    Len(agg.args) = 1 /\ agg.args[1].op = "field" /\ findColumn(agg.args[1].name)

integerAggregateResult(type) == type \in {"integer", "long", "biginteger"}

\* COUNT, MIN and MAX, not DISTINCT; the others stay with the engine.
planAggregateProjection(agg) ==
    /\ ~agg.distinct
    /\ CASE agg.fn = "count*" -> agg.args = <<>> /\ integerAggregateResult(agg.type)
         [] agg.fn = "count" -> aggregateColumn(agg) /\ integerAggregateResult(agg.type)
         [] agg.fn \in {"min", "max"} ->
              aggregateColumn(agg) /\ agg.type = logicalValueType(Columns[agg.args[1].name].type)
         [] OTHER -> FALSE

\* All columns, fields, or aggregates, which do not mix with fields.
planQueryProjections(projections) ==
    LET aggs == {i \in DOMAIN projections : projections[i].op = "agg"}
        ok == /\ \A i \in aggs : AggregatesEnabled /\ planAggregateProjection(projections[i])
              /\ \A i \in DOMAIN projections \ aggs :
                    projections[i].op = "field" /\ findColumn(projections[i].name)
              /\ aggs = {} \/ aggs = DOMAIN projections
    IN IF projections = <<>>
       THEN [ok |-> TRUE, plan |-> [i \in DOMAIN OrderedColumns |-> Field(OrderedColumns[i])]]
       ELSE [ok |-> ok, plan |-> projections]

containsAggregate(plan) == \E i \in DOMAIN plan : plan[i].op = "agg"

\* The statement of a query, or a refusal.
SelectStatement(r) ==
    LET projections == planQueryProjections(r.projections)
        filter == buildFilter(r.filter)
        ordering == buildOrdering(r.order)
    IN IF \/ r.offset > 0 \/ ~projections.ok \/ ~filter.ok \/ ~ordering.ok \/ ~queryLimit(r.limit)
          \/ containsAggregate(projections.plan) /\ r.order # <<>>
       THEN Refused
       ELSE [ok |-> TRUE, plan |-> projections.plan, where |-> filter.where,
             order |-> ordering.order, limit |-> r.limit]

-----------------------------------------------------------------------------
(* Cassandra.  A restriction must be on the key, and fix the partition; an  *)
(* ordering needs the partition and the clustering column.                  *)

KeyColumns == {c \in DOMAIN Columns : Columns[c].kind # "regular"}
PartitionKey == {c \in DOMAIN Columns : Columns[c].kind = "partition"}

CqlAccepts(s) ==
    LET restricted == {s.where[i].column : i \in DOMAIN s.where}
        fixed == {s.where[i].column : i \in {j \in DOMAIN s.where : s.where[j].cmp = "="}}
    IN /\ restricted \subseteq KeyColumns
       /\ restricted # {} \/ s.order # <<>> => PartitionKey \subseteq fixed
       /\ \A i \in DOMAIN s.order : Columns[s.order[i].field].kind = "clustering"
       /\ s.limit = NoCount \/ s.limit > 0

CqlMatches(row, where) ==
    \A i \in DOMAIN where : Satisfies(where[i].cmp, row[where[i].column] - where[i].value)

PartitionColumn == CHOOSE c \in PartitionKey : TRUE
ClusteringColumn == CHOOSE c \in DOMAIN Columns : Columns[c].kind = "clustering"

\* Partition by partition, each in clustering order or in its reverse.
CqlOrder(s, a, b) ==
    \/ a[PartitionColumn] < b[PartitionColumn]
    \/ /\ a[PartitionColumn] = b[PartitionColumn]
       /\ IF s.order # <<>> /\ s.order[1].desc THEN a[ClusteringColumn] > b[ClusteringColumn]
          ELSE a[ClusteringColumn] < b[ClusteringColumn]

CqlAggregate(agg, found) ==
    LET present == {k \in found : agg.fn # "count*" => rows[k][agg.args[1].name] # NoValue}
        natives == {rows[k][agg.args[1].name] : k \in present}
    IN CASE agg.fn \in {"count", "count*"} -> Cardinality(present)
         [] present = {} -> NoValue
         [] agg.fn = "min" -> CHOOSE v \in natives : \A w \in natives : v <= w
         [] agg.fn = "max" -> CHOOSE v \in natives : \A w \in natives : v >= w

\* The rows an iterator yields: native values, in the order of the plan.
Executed(s) ==
    LET found == {k \in DOMAIN rows : CqlMatches(rows[k], s.where)}
        sorted == SetToSortSeq(found, LAMBDA a, b : CqlOrder(s, rows[a], rows[b]))
        n == IF s.limit # NoCount /\ s.limit < Len(sorted) THEN s.limit ELSE Len(sorted)
    IN IF containsAggregate(s.plan)
       THEN << [key |-> <<>>, values |-> [i \in DOMAIN s.plan |-> CqlAggregate(s.plan[i], found)]] >>
       ELSE [j \in 1 .. n |->
               [key |-> sorted[j], values |-> [i \in DOMAIN s.plan |-> rows[sorted[j]][s.plan[i].name]]]]

-----------------------------------------------------------------------------
(* query.go and result_stream.go *)

Query ==
    \E r \in {q \in CqlRequests : q.op = "query"} :
        LET s == SelectStatement(r)
        IN /\ ~stream.open /\ statements < MaxStatements
           /\ statements' = statements + 1
           /\ stream' = IF ~s.ok THEN NoCqlStream
                        ELSE [open |-> TRUE, plan |-> s.plan, request |-> r,
                              left |-> IF CqlAccepts(s) THEN Executed(s) ELSE <<>>,
                              broken |-> ~CqlAccepts(s), done |-> FALSE, terminalErr |-> FALSE]
           /\ reader' = [batches |-> <<>>, saw |-> IF s.ok THEN "nothing" ELSE "error"]
           /\ UNCHANGED <<rows, breaks>>

\* The values of one row, or an error.
ConvertRow(plan, native) ==
    [i \in DOMAIN plan |->
        IF plan[i].op = "field" THEN nativeToValue(Columns[plan[i].name].type, native.values[i])
        ELSE coerceAggregateResult(
                 nativeToValue(IF plan[i].fn \in {"count", "count*"} THEN "bigint"
                               ELSE Columns[plan[i].args[1].name].type, native.values[i]),
                 plan[i].type)]

\* Next: a batch is full or the last; the error that ended the iterator is
\* given now when the batch is empty, and by the next call when it is not.  A
\* value that does not convert ends the stream and drops the batch.
Next ==
    LET take == IF Len(stream.left) < BatchSize THEN Len(stream.left) ELSE BatchSize
        tuples == [i \in 1 .. take |-> [key |-> stream.left[i].key,
                                        values |-> ConvertRow(stream.plan, stream.left[i])]]
        ended == take < BatchSize
        fails == \E i \in DOMAIN tuples : Contains(tuples[i].values, Err)
    IN /\ stream.open /\ reader.saw = "nothing"
       /\ CASE stream.done ->
                 /\ reader' = [reader EXCEPT !.saw = IF stream.terminalErr THEN "error" ELSE "eof"]
                 /\ UNCHANGED stream
            [] ~stream.done /\ fails ->
                 /\ reader' = [reader EXCEPT !.saw = "error"]
                 /\ stream' = [stream EXCEPT !.done = TRUE, !.left = <<>>]
            [] ~stream.done /\ ~fails /\ take = 0 ->
                 /\ reader' = [reader EXCEPT !.saw = IF stream.broken THEN "error" ELSE "eof"]
                 /\ stream' = [stream EXCEPT !.done = TRUE, !.terminalErr = stream.broken]
            [] OTHER ->
                 /\ reader' = [reader EXCEPT !.batches = Append(@, tuples)]
                 /\ stream' = [stream EXCEPT !.left = SubSeq(@, take + 1, Len(@)), !.done = ended,
                                             !.terminalErr = ended /\ stream.broken]
       /\ UNCHANGED <<rows, statements, breaks>>

\* The iterator breaks: what is left does not come.
IteratorBreaks ==
    /\ stream.open /\ ~stream.done /\ ~stream.broken /\ breaks < MaxBreaks
    /\ breaks' = breaks + 1
    /\ \E n \in 0 .. Len(stream.left) :
          stream' = [stream EXCEPT !.left = SubSeq(@, 1, n), !.broken = TRUE]
    /\ UNCHANGED <<rows, reader, statements>>

Close ==
    /\ stream.open
    /\ stream' = NoCqlStream /\ reader' = NoReader
    /\ UNCHANGED <<rows, statements, breaks>>

-----------------------------------------------------------------------------
(* mutation.go *)

resolveMutationFields(fields) ==
    /\ fields # <<>>
    /\ \A i \in DOMAIN fields : findColumn(fields[i])
    /\ \A i, j \in DOMAIN fields : fields[i] = fields[j] => i = j

NativeTuple(fields, tuple) ==
    [i \in DOMAIN fields |-> providerToNative(tuple[i], Columns[fields[i]].type)]

\* INSERT writes the columns it names over whatever the key has.
Upsert(table, fields, natives) ==
    LET at(c) == natives[CHOOSE i \in DOMAIN fields : fields[i] = c]
        key == <<at(PartitionColumn).v, at(ClusteringColumn).v>>
        old == IF key \in DOMAIN table THEN table[key] ELSE [c \in DOMAIN Columns |-> NoValue]
    IN (key :> [c \in DOMAIN Columns |-> IF Contains(fields, c) THEN at(c).v ELSE old[c]]) @@ table

\* Tuples one after the other, up to the first that is bad, refused or lost:
\* what went before it stays.
Insert ==
    \E r \in {q \in CqlRequests : q.op = "insert"}, lost \in {0} \cup (1 .. 2) :
        LET bad(i) == \/ Len(r.tuples[i]) # Len(r.fields)
                      \/ Contains(NativeTuple(r.fields, r.tuples[i]), Err)
                      \/ \E j \in DOMAIN r.fields : r.fields[j] \in KeyColumns /\ r.tuples[i][j] = Null
                      \/ i = lost
            good == {n \in 0 .. Len(r.tuples) : \A i \in 1 .. n : ~bad(i)}
            done == CHOOSE n \in good : \A m \in good : m <= n
        IN /\ ~stream.open /\ statements < MaxStatements
           /\ resolveMutationFields(r.fields)
           /\ lost > 0 => breaks < MaxBreaks /\ lost \in DOMAIN r.tuples
           /\ breaks' = IF lost > 0 THEN breaks + 1 ELSE breaks
           /\ statements' = statements + 1
           /\ rows' = FoldLeft(LAMBDA t, tuple : Upsert(t, r.fields, NativeTuple(r.fields, tuple)),
                               rows, SubSeq(r.tuples, 1, done))
           /\ UNCHANGED <<stream, reader>>

\* Literal values for columns that are not part of the key.
buildAssignments(assignments) ==
    /\ assignments # <<>>
    /\ \A i \in DOMAIN assignments :
          /\ findColumn(assignments[i].field)
          /\ assignments[i].field \notin KeyColumns
          /\ providerToNative(assignments[i].value, Columns[assignments[i].field].type) # Err
    /\ \A i, j \in DOMAIN assignments : assignments[i].field = assignments[j].field => i = j

\* The keys a mutation is about must be fixed by its filter.
FixedKey(where) ==
    LET value(c) == where[CHOOSE i \in DOMAIN where : where[i].column = c].value
    IN <<value(PartitionColumn), value(ClusteringColumn)>>
FixesKey(where) ==
    /\ \A i \in DOMAIN where : where[i].cmp = "=" /\ where[i].column \in KeyColumns
    /\ {where[i].column : i \in DOMAIN where} = KeyColumns

\* UPDATE of a key that has no row makes one.
Update ==
    \E r \in {q \in CqlRequests : q.op = "update"} :
        LET filter == buildFilter(r.filter)
            fields == [i \in DOMAIN r.assignments |-> r.assignments[i].field]
            natives == [i \in DOMAIN fields |->
                          providerToNative(r.assignments[i].value, Columns[fields[i]].type)]
            key == FixedKey(filter.where)
        IN /\ ~stream.open /\ statements < MaxStatements
           /\ r.filter # NoFilter /\ buildAssignments(r.assignments) /\ filter.ok
           /\ filter.ok => FixesKey(filter.where)
           /\ rows' = Upsert(rows, fields \o <<PartitionColumn, ClusteringColumn>>,
                             natives \o <<Val("native", key[1]), Val("native", key[2])>>)
           /\ statements' = statements + 1
           /\ UNCHANGED <<stream, reader, breaks>>

Delete ==
    \E r \in {q \in CqlRequests : q.op = "delete"} :
        LET filter == buildFilter(r.filter)
            gone == {k \in DOMAIN rows : CqlMatches(rows[k], filter.where)}
        IN /\ ~stream.open /\ statements < MaxStatements
           /\ r.filter # NoFilter /\ filter.ok
           /\ CqlAccepts([where |-> filter.where, order |-> <<>>, limit |-> NoCount])
           /\ rows' = [k \in DOMAIN rows \ gone |-> rows[k]]
           /\ statements' = statements + 1
           /\ UNCHANGED <<stream, reader, breaks>>

CassandraNext == Query \/ Next \/ IteratorBreaks \/ Close \/ Insert \/ Update \/ Delete

-----------------------------------------------------------------------------
(* Properties *)

LogicalRow(native) == [c \in DOMAIN Columns |-> nativeToValue(Columns[c].type, native[c])]
LogicalTable == [k \in DOMAIN rows |-> LogicalRow(rows[k])]

Given(batches) == FlattenSeq(batches)

\* A reader of cassandraResultStream that comes to EOF, and was never given an
\* error, has the whole answer that SQL gives: the rows that the pushed-down
\* filter selects, comparisons with the literal on either side included, in the
\* order and up to the limit that were asked for, or the exact aggregates.  An
\* iterator that broke is never taken for one that ended.
EofComplete ==
    stream.open /\ reader.saw = "eof" =>
        LET r == stream.request
            tuples == Given(reader.batches)
            chosen == {k \in DOMAIN rows : Selected(LogicalTable[k], r.filter)}
            present(agg) == {k \in chosen : agg.fn = "count*" \/ LogicalTable[k][agg.args[1].name] # Null}
        IN IF containsAggregate(stream.plan)
           THEN /\ Len(tuples) = 1
                /\ \A i \in DOMAIN r.projections :
                     LET agg == r.projections[i]
                         got == tuples[1].values[i]
                     IN CASE agg.fn \in {"count", "count*"} ->
                               got = Val(agg.type, Cardinality(present(agg)))
                          [] present(agg) = {} -> got = Null
                          [] OTHER -> \E k \in present(agg) :
                               /\ got = LogicalTable[k][agg.args[1].name]
                               /\ \A j \in present(agg) :
                                    LET other == LogicalTable[j][agg.args[1].name].v
                                    IN IF agg.fn = "min" THEN got.v <= other ELSE got.v >= other
           ELSE /\ Answers([i \in DOMAIN tuples |-> tuples[i].key], LogicalTable, r.filter,
                           r.order, NoCount, r.limit)
                /\ \A i \in DOMAIN tuples, j \in DOMAIN stream.plan :
                     tuples[i].values[j] = LogicalTable[tuples[i].key][stream.plan[j].name]
=============================================================================
