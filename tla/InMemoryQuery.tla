---------------------------- MODULE InMemoryQuery ----------------------------
(***************************************************************************)
(* How the in-memory provider evaluates a query against the rows of a      *)
(* snapshot: expression.go, query.go and aggregate.go as operators.  Field *)
(* names are canonical (the code folds their case) and a numeric value is  *)
(* an integer; aggregates are the exact rationals of math/big.             *)
(***************************************************************************)
EXTENDS Relational, SequencesExt, TLC

CONSTANTS
    IntegerMax,        \* largest INTEGER (2147483647)
    Digits             \* precision of a decimal that does not end (18)

Aggregate(fn, args, distinct, type) ==
    [op |-> "agg", fn |-> fn, args |-> args, distinct |-> distinct, type |-> type]

\* The result type of an aggregate; the scale of a BIGDECIMAL may be absent.
\* FLOAT and DOUBLE, which only add rounding, are not among the inputs.
NoScale == 99
Type(name, scale) == [name |-> name, scale |-> scale]

-----------------------------------------------------------------------------
(* expression.go *)

isNumericValue(value) == value.kind \in {"integer", "long", "float", "bigdecimal"}

NotComparable == 2

\* Numbers compare across kinds, strings and booleans within their own; clobs,
\* timestamps and every other kind do not compare.
compareValues(l, r) ==
    IF isNumericValue(l)
    THEN IF isNumericValue(r) THEN Sign(l.v - r.v) ELSE NotComparable
    ELSE IF l.kind \in {"string", "boolean"} /\ r.kind = l.kind
         THEN Sign(l.v - r.v) ELSE NotComparable

\* A comparison with null is false here, not unknown.
evaluateComparison(cmp, l, r) ==
    IF Err \in {l, r} THEN Err
    ELSE IF Null \in {l, r} THEN Bool(FALSE)
    ELSE IF compareValues(l, r) = NotComparable THEN Err
    ELSE Bool(Satisfies(cmp, compareValues(l, r)))

evaluateNullPredicate(op, value) ==
    IF value = Err THEN Err ELSE Bool((value = Null) <=> (op = "isnull"))

\* The boolean of a predicate: null counts as false, other kinds are errors.
evaluateBooleanExpression(value) ==
    CASE value = Null -> Bool(FALSE) [] value.kind = "boolean" -> value [] OTHER -> Err

\* Operands in order, up to the first one that decides or fails.
evaluateLogical(op, values) ==
    LET n == Len(values)
        decides == IF op = "and" THEN Bool(FALSE) ELSE Bool(TRUE)
        stops == {i \in 1 .. n : values[i] \in {decides, Err}}
    IN CASE op = "not" -> IF n # 1 \/ values[1] = Err THEN Err ELSE Bool(values[1].v = 0)
         [] n < 2 -> Err
         [] stops = {} -> IF op = "and" THEN Bool(TRUE) ELSE Bool(FALSE)
         [] OTHER -> values[CHOOSE i \in stops : \A j \in stops : i <= j]

-----------------------------------------------------------------------------
(* aggregate.go: numbers.  A rational is a pair of a numerator and a        *)
(* positive denominator in lowest terms.                                    *)

RECURSIVE Gcd(_, _)
Gcd(a, b) == IF b = 0 THEN a ELSE Gcd(b, a % b)
Abs(n) == IF n < 0 THEN -n ELSE n
Rat(n, d) == LET g == Gcd(Abs(n), d) IN <<n \div g, d \div g>>

RECURSIVE Power(_, _)
Power(b, n) == IF n = 0 THEN 1 ELSE b * Power(b, n - 1)

\* Rat.FloatString: the nearest multiple of 10^-digits, halves away from zero.
FloatString(r, digits) ==
    LET scaled == Abs(r[1]) * Power(10, digits)
        nearest == (2 * scaled + r[2]) \div (2 * r[2])
    IN Rat(Sign(r[1]) * nearest, Power(10, digits))

RECURSIVE Factors(_, _)
Factors(n, p) == IF n % p = 0 THEN 1 + Factors(n \div p, p) ELSE 0

\* The decimal digits of a rational: the declared scale (a negative one rounds
\* to tens), all of them when they end, and Digits of them when they do not.
aggregateDecimalString(r, scale) ==
    LET twos == Factors(r[2], 2)
        fives == Factors(r[2], 5)
        ends == r[2] = Power(2, twos) * Power(5, fives)
        tens == Power(10, -scale)
        rounded == FloatString(Rat(r[1], r[2] * tens), 0)
    IN IF scale = NoScale
       THEN FloatString(r, IF ends THEN IF twos > fives THEN twos ELSE fives ELSE Digits)
       ELSE IF scale >= 0 THEN FloatString(r, scale)
       ELSE <<rounded[1] * tens, 1>>

Decimal(r) == [kind |-> "bigdecimal", v |-> r[1], d |-> r[2]]

\* A number as a value of the declared result type, or an error when it does
\* not fit; sums are not wrapped.
aggregateNumberValue(r, type) ==
    CASE type.name = "integer" ->
           IF r[2] = 1 /\ r[1] <= IntegerMax /\ r[1] >= -IntegerMax - 1
           THEN Num(r[1]) ELSE Err
      [] type.name = "long" -> IF r[2] = 1 THEN Val("long", r[1]) ELSE Err
      [] type.name = "bigdecimal" -> Decimal(aggregateDecimalString(r, type.scale))
      [] OTHER -> Err

aggregateNumber(value) == <<value.v, 1>>

coerceAggregateValue(value, type) ==
    IF value.kind = type.name THEN value
    ELSE IF isNumericValue(value) THEN aggregateNumberValue(aggregateNumber(value), type)
    ELSE Err

\* MIN and MAX keep the first of the extreme values they meet.
Extreme(fn, values) ==
    LET better(x, y) == IF fn = "min" THEN compareValues(x, y) < 0 ELSE compareValues(x, y) > 0
    IN FoldLeft(LAMBDA best, x : IF better(x, best) THEN x ELSE best, Head(values), Tail(values))

SumOf(values) == FoldLeft(LAMBDA acc, x : acc + x.v, 0, values)

\* DISTINCT keeps the first of equal encodings.
Distinct(values) ==
    FoldLeft(LAMBDA acc, x : IF Contains(acc, x) THEN acc ELSE Append(acc, x), <<>>, values)

Kept(agg, values) ==
    LET present == SelectSeq(values, LAMBDA x : x # Null)
    IN IF agg.distinct THEN Distinct(present) ELSE present

\* The number an aggregate of n rows is, given the non-null values.
AggregateTotal(fn, n, kept) ==
    CASE fn = "count*" -> <<n, 1>>
      [] fn = "count" -> <<Len(kept), 1>>
      [] fn = "sum" -> <<SumOf(kept), 1>>
      [] fn = "avg" -> Rat(SumOf(kept), Len(kept))

AggregateOf(agg, n, kept) ==
    CASE agg.fn \in {"min", "max", "sum", "avg"} /\ kept = <<>> -> Null
      [] agg.fn \in {"min", "max"} ->
           IF Len(kept) > 1 /\ \E i, j \in DOMAIN kept : compareValues(kept[i], kept[j]) = NotComparable
           THEN Err ELSE coerceAggregateValue(Extreme(agg.fn, kept), agg.type)
      [] agg.fn \in {"sum", "avg"} /\ (\E i \in DOMAIN kept : ~isNumericValue(kept[i])) -> Err
      [] OTHER -> aggregateNumberValue(AggregateTotal(agg.fn, n, kept), agg.type)

\* values: what the argument evaluates to on each row of the group.
evaluateAggregate(agg, rows, values) ==
    IF \/ agg.fn = "count*" /\ (agg.args # <<>> \/ agg.distinct)
       \/ agg.fn # "count*" /\ (Len(agg.args) # 1 \/ Contains(values, Err))
    THEN Err ELSE AggregateOf(agg, Len(rows), Kept(agg, values))

-----------------------------------------------------------------------------
(* expression.go: a row of the empty group has no fields.  Aggregates need  *)
(* a grouped context, and their arguments are row expressions.              *)

NoRow == <<>>
RowContext(row) == [row |-> row, rows |-> <<>>, grouped |-> FALSE]
GroupContext(rows) ==
    [row |-> IF rows = <<>> THEN NoRow ELSE Head(rows), rows |-> rows, grouped |-> TRUE]

RECURSIVE evaluateExpression(_, _)
evaluateExpression(ctx, e) ==
    LET sub(x) == evaluateExpression(ctx, x)
    IN CASE e.op = "field" -> IF e.name \in DOMAIN ctx.row THEN ctx.row[e.name] ELSE Err
         [] e.op = "lit" -> e.value
         [] e.op = "cmp" -> evaluateComparison(e.cmp, sub(e.left), sub(e.right))
         [] e.op \in {"and", "or", "not"} ->
              evaluateLogical(e.op, [i \in DOMAIN e.args |->
                                       evaluateBooleanExpression(sub(e.args[i]))])
         [] e.op \in {"isnull", "notnull"} -> evaluateNullPredicate(e.op, sub(e.arg))
         [] e.op = "agg" ->
              IF ~ctx.grouped THEN Err
              ELSE evaluateAggregate(e, ctx.rows,
                       IF Len(e.args) # 1 THEN <<>>
                       ELSE [i \in DOMAIN ctx.rows |->
                               evaluateExpression(RowContext(ctx.rows[i]), e.args[1])])
         [] OTHER -> Err

evaluateFilter(row, filter) ==
    IF filter = NoFilter THEN Bool(TRUE)
    ELSE evaluateBooleanExpression(evaluateExpression(RowContext(row), filter))

\* The type of a projection, or an error before any row is read.
expressionValueType(types, e) ==
    CASE e.op = "field" -> IF e.name \in DOMAIN types THEN types[e.name] ELSE "error"
      [] e.op = "lit" -> IF e.value = Null THEN "error" ELSE e.value.kind
      [] e.op \in {"cmp", "and", "or", "not", "isnull", "notnull"} -> "boolean"
      [] e.op = "agg" -> e.type.name
      [] OTHER -> "error"

-----------------------------------------------------------------------------
(* query.go: ordering and pages *)
\* Mutant: a descending order turns the place of the nulls too.
compareOrderedValuesTurned(l, r, o) ==
    LET up == CASE l = Null /\ r = Null -> 0
                [] l = Null -> IF o.nulls = "first" THEN -1 ELSE 1
                [] r = Null -> IF o.nulls = "first" THEN 1 ELSE -1
                [] OTHER -> compareValues(l, r)
    IN IF up = NotComparable THEN up ELSE IF o.desc THEN -up ELSE up


compareOrderedValues(l, r, o) ==
    CASE l = Null /\ r = Null -> 0
      [] l = Null -> IF o.nulls = "first" THEN -1 ELSE 1
      [] r = Null -> IF o.nulls = "first" THEN 1 ELSE -1
      [] compareValues(l, r) = NotComparable -> NotComparable
      [] OTHER -> IF o.desc THEN -compareValues(l, r) ELSE compareValues(l, r)

\* The first key two rows differ in decides; the row key breaks ties.
FirstDifference(a, b, orderBy) ==
    LET signs == [k \in DOMAIN orderBy |-> compareOrderedValues(a.order[k], b.order[k], orderBy[k])]
    IN FoldLeft(LAMBDA first, sign : IF first = 0 THEN sign ELSE first, 0, signs)

\* sort.SliceStable with a comparison that may fail.
sortPlannedRows(planned, orderBy) ==
    SortSeq(planned, LAMBDA a, b : FirstDifference(a, b, orderBy) < (IF a.key < b.key THEN 1 ELSE 0))

SortFails(planned, orderBy) ==
    \E i, j \in DOMAIN planned :
        i # j /\ FirstDifference(planned[i], planned[j], orderBy) = NotComparable

paginateRows(rows, offset, limit) ==
    LET n == Len(rows)
        start == IF offset = NoCount THEN 0 ELSE offset
        end == IF limit # NoCount /\ limit < n - start THEN start + limit ELSE n
    IN IF start >= n THEN <<>> ELSE SubSeq(rows, start + 1, end)

-----------------------------------------------------------------------------
(* aggregate.go: which queries are grouped, and which grouped queries are   *)
(* valid.                                                                   *)

RECURSIVE containsAggregate(_)
containsAggregate(e) ==
    CASE e.op = "agg" -> TRUE
      [] e.op = "cmp" -> containsAggregate(e.left) \/ containsAggregate(e.right)
      [] e.op \in {"and", "or", "not"} -> \E i \in DOMAIN e.args : containsAggregate(e.args[i])
      [] e.op \in {"isnull", "notnull"} -> containsAggregate(e.arg)
      [] OTHER -> FALSE

aggregateQuery(q) ==
    \/ q.groupBy # <<>> \/ q.having # NoFilter
    \/ \E i \in DOMAIN q.projections : containsAggregate(q.projections[i])
    \/ \E i \in DOMAIN q.orderBy : containsAggregate(q.orderBy[i].expression)

\* Outside an aggregate, a field must be one of the grouping expressions.
RECURSIVE validateGroupedExpression(_, _, _)
validateGroupedExpression(e, groupBy, inside) ==
    \/ e = NoFilter
    \/ ~inside /\ Contains(groupBy, e)
    \/ CASE e.op = "field" -> inside
         [] e.op = "lit" -> TRUE
         [] e.op = "agg" ->
              ~inside /\ \A i \in DOMAIN e.args : validateGroupedExpression(e.args[i], groupBy, TRUE)
         [] e.op = "cmp" -> /\ validateGroupedExpression(e.left, groupBy, inside)
                            /\ validateGroupedExpression(e.right, groupBy, inside)
         [] e.op \in {"and", "or", "not"} ->
              \A i \in DOMAIN e.args : validateGroupedExpression(e.args[i], groupBy, inside)
         [] e.op \in {"isnull", "notnull"} -> validateGroupedExpression(e.arg, groupBy, inside)
         [] OTHER -> FALSE

\* Rows with equal grouping values form a group; without GROUP BY there is one
\* group, even of no rows.  Groups come in the order of their encoded keys.
KeyBefore(a, b) ==
    \E i \in DOMAIN a :
        /\ a[i] # b[i] /\ \A j \in 1 .. i - 1 : a[j] = b[j]
        /\ a[i] = Null \/ (b[i] # Null /\ a[i].v < b[i].v)

GroupsOf(rows, keys, sorted) ==
    [g \in DOMAIN sorted |->
        FoldLeft(LAMBDA acc, i : IF keys[i] = sorted[g] THEN Append(acc, rows[i]) ELSE acc,
                 <<>>, [i \in DOMAIN rows |-> i])]

groupAggregateRows(rows, groupBy, keys) ==
    IF groupBy = <<>> THEN <<rows>>
    ELSE GroupsOf(rows, keys, SetToSortSeq(ToSet(keys), KeyBefore))

\* A reply is a sequence of tuples, or an error.
Failed == [status |-> "error", tuples |-> <<>>]
Reply(tuples) == [status |-> "ok", tuples |-> tuples]

ValidAggregate(q) ==
    /\ q.projections # <<>>
    /\ q.filter = NoFilter \/ ~containsAggregate(q.filter)
    /\ \A i \in DOMAIN q.groupBy : ~containsAggregate(q.groupBy[i])
    /\ \A i \in DOMAIN q.projections : validateGroupedExpression(q.projections[i], q.groupBy, FALSE)
    /\ validateGroupedExpression(q.having, q.groupBy, FALSE)
    /\ \A i \in DOMAIN q.orderBy : validateGroupedExpression(q.orderBy[i].expression, q.groupBy, FALSE)

Evaluated(ctx, es) == [i \in DOMAIN es |-> evaluateExpression(ctx, es[i])]
OrderExpressions(q) == [i \in DOMAIN q.orderBy |-> q.orderBy[i].expression]
HasError(tuples) == \E i \in DOMAIN tuples : Contains(tuples[i], Err)

\* What sorts, pages and projects the planned rows of both kinds of queries.
SortAndPage(planned, q) == paginateRows(sortPlannedRows(planned, q.orderBy), q.offset, q.limit)
Valued(page) == [i \in DOMAIN page |-> page[i].values]
ReplyOf(tuples) == IF HasError(tuples) THEN [Failed EXCEPT !.tuples = tuples] ELSE Reply(tuples)


\* The items whose verdict is true.
Passing(items, verdicts) ==
    FoldLeft(LAMBDA acc, i : IF verdicts[i] = Bool(TRUE) THEN Append(acc, items[i]) ELSE acc,
             <<>>, [i \in DOMAIN items |-> i])

\* The values of every group are computed before groups are sorted and paged.
PagedGroups(q, planned) ==
    IF \/ HasError([i \in DOMAIN planned |-> planned[i].values \o planned[i].order])
       \/ SortFails(planned, q.orderBy)
    THEN Failed
    ELSE Reply(Valued(SortAndPage(planned, q)))

PlannedGroups(q, groups) ==
    [i \in DOMAIN groups |->
        [key |-> i, values |-> Evaluated(GroupContext(groups[i]), q.projections),
         order |-> Evaluated(GroupContext(groups[i]), OrderExpressions(q))]]

havingOf(q, rows) ==
    IF q.having = NoFilter THEN Bool(TRUE)
    ELSE evaluateBooleanExpression(evaluateExpression(GroupContext(rows), q.having))

GroupsHaving(q, groups, verdicts) ==
    IF Contains(verdicts, Err) THEN Failed
    ELSE PagedGroups(q, PlannedGroups(q, Passing(groups, verdicts)))

ReplyOfGroups(q, groups) ==
    GroupsHaving(q, groups, [i \in DOMAIN groups |-> havingOf(q, groups[i])])

GroupedRows(q, rows, keys) ==
    IF HasError(keys) THEN Failed ELSE ReplyOfGroups(q, groupAggregateRows(rows, q.groupBy, keys))

FilteredGroups(q, rows) ==
    GroupedRows(q, rows, [i \in DOMAIN rows |-> Evaluated(RowContext(rows[i]), q.groupBy)])

queryAggregates(q, rows, verdicts) ==
    IF ~ValidAggregate(q) \/ Contains(verdicts, Err) THEN Failed
    ELSE FilteredGroups(q, Passing(rows, verdicts))

\* A query without projections returns every field.
planProjections(q, fields) ==
    IF q.projections = <<>> THEN [i \in DOMAIN fields |-> Field(fields[i])] ELSE q.projections

\* Only the rows of the page are projected, a value at a time; a failed reply
\* says how far that came.
ProjectedPage(page, projections) ==
    ReplyOf([i \in DOMAIN page |-> Evaluated(RowContext(page[i].row), projections)])

PagedRows(q, planned, projections) ==
    IF HasError([i \in DOMAIN planned |-> planned[i].order]) \/ SortFails(planned, q.orderBy)
    THEN Failed ELSE ProjectedPage(SortAndPage(planned, q), projections)

PlannedRows(q, rows) ==
    [i \in DOMAIN rows |->
        [key |-> i, row |-> rows[i], order |-> Evaluated(RowContext(rows[i]), OrderExpressions(q))]]

FilteredRows(q, rows, verdicts, projections) ==
    IF Contains(verdicts, Err) THEN Failed
    ELSE PagedRows(q, PlannedRows(q, Passing(rows, verdicts)), projections)

\* Query on the rows of a snapshot, in the order of their keys.
QueryOf(q, rows, verdicts, projections, types) ==
    IF \E i \in DOMAIN projections : expressionValueType(types, projections[i]) = "error"
    THEN Failed
    ELSE IF aggregateQuery(q) THEN queryAggregates(q, rows, verdicts)
    ELSE FilteredRows(q, rows, verdicts, projections)

queryRows(q, rows, fields, types) ==
    QueryOf(q, rows, [i \in DOMAIN rows |-> evaluateFilter(rows[i], q.filter)],
            planProjections(q, fields), types)
=============================================================================
