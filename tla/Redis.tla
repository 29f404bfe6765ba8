------------------------------- MODULE Redis --------------------------------
(***************************************************************************)
(* The Redis provider: tables over Redis hashes.  A call is a sequence of  *)
(* Redis commands, each atomic, and the commands of concurrent calls       *)
(* interleave; there is no transaction around a call.                      *)
(*                                                                         *)
(* A string is a place in Text; a Redis key is the characters of a table's *)
(* prefix followed by those of the row's key.  A hash maps field names to  *)
(* raw strings.  Every character here is one byte long.                    *)
(***************************************************************************)
EXTENDS Relational, SequencesExt, TLC

CONSTANTS
    Client,            \* concurrent calls
    Requests,          \* the calls that are made
    Schema,            \* the schema file: from names to tables
    Seed,              \* the hashes Redis holds at the start
    Numerals,          \* from places of Text to the integer they spell
    ByteMax,           \* largest BYTE (127)
    MaxScannedKeys,    \* maxScannedKeys
    MaxCalls, MaxFaults   \* bounds: calls, failing Redis commands

-----------------------------------------------------------------------------
(* config.go: the tables.  An option of the file is the empty set or the set *)
(* of the one value it is given.                                             *)

Given(option, default) == IF option = {} THEN default ELSE CHOOSE v \in option : TRUE

columnTypeSupported(type) == type \in {"string", "boolean", "byte", "clob"}
keyTypeSupported(type) == type \in {"string", "byte"}

columnConfig(column, defaultNullable, defaultUpdatable) ==
    [name |-> column.name, type |-> column.type,
     nullable |-> Given(column.nullable, defaultNullable),
     updatable |-> Given(column.updatable, defaultUpdatable)]

\* The key is never nullable and never updatable.
normalizeColumn(column, isField) ==
    IF isField THEN column ELSE [column EXCEPT !.nullable = FALSE, !.updatable = FALSE]

tableConfig(table) ==
    [name |-> table.name, prefix |-> table.prefix,
     key |-> columnConfig(table.key, FALSE, FALSE),
     fields |-> [f \in DOMAIN table.fields |-> columnConfig(table.fields[f], TRUE, TRUE)],
     updatable |-> Given(table.updatable, TRUE)]

\* A table without a prefix gets its name as prefix.
normalizeTable(table) ==
    [table EXCEPT !.prefix = IF @ = <<>> THEN <<table.name>> ELSE @,
                  !.key = normalizeColumn(@, FALSE),
                  !.fields = [f \in DOMAIN @ |-> normalizeColumn(@[f], TRUE)]]

TableAccepted(table) ==
    /\ keyTypeSupported(table.key.type)
    /\ \A f \in DOMAIN table.fields : columnTypeSupported(table.fields[f].type) /\ f # table.key.name

Tables == [t \in DOMAIN Schema |-> normalizeTable(tableConfig(Schema[t]))]

\* Names are unique, and so are the prefixes of a namespace; one prefix may
\* still begin another.
normalizeNamespace ==
    /\ MaxScannedKeys >= 1 /\ DOMAIN Schema # {}
    /\ \A t \in DOMAIN Tables : TableAccepted(Tables[t])
    /\ \A t, u \in DOMAIN Tables : Tables[t].prefix = Tables[u].prefix => t = u

-----------------------------------------------------------------------------
VARIABLES
    db,           \* Redis: from keys to hashes
    call,         \* call[c] : the call in progress of a client
    answer,       \* answer[c] : the last reply of a client
    calls, faults

redisVars == <<db, call, answer, calls, faults>>

Idle == [pc |-> "idle"]
NoAnswer == [status |-> "none"]

RedisInit ==
    /\ normalizeNamespace
    /\ db = Seed
    /\ call = [c \in Client |-> Idle]
    /\ answer = [c \in Client |-> NoAnswer]
    /\ calls = 0 /\ faults = 0

Columns(table) == {table.key.name} \cup DOMAIN table.fields
Required(table) == {f \in DOMAIN table.fields : ~table.fields[f].nullable}

-----------------------------------------------------------------------------
(* codec.go: raw strings are places of Text *)

decodeRedisValue(raw, type) ==
    CASE type \in {"string", "clob"} -> Val(type, raw)
      [] type = "byte" -> IF raw \in DOMAIN Numerals /\ Numerals[raw] <= ByteMax
                          THEN Val("byte", Numerals[raw]) ELSE Err
      [] type = "boolean" -> IF raw \in DOMAIN Numerals /\ Numerals[raw] \in {0, 1}
                             THEN Bool(Numerals[raw] = 1) ELSE Err
      [] OTHER -> Err

\* The text of a value, which must decode as the type of the column whatever
\* the kind of the value is.
encodeRedisValue(value, type) ==
    LET spelled == {p \in DOMAIN Numerals : Numerals[p] = value.v}
        raw == IF value.kind \in {"string", "clob"} THEN value.v
               ELSE CHOOSE p \in spelled : TRUE
    IN IF decodeRedisValue(raw, type) = Err THEN Err ELSE Val("raw", raw)

-----------------------------------------------------------------------------
(* expression.go *)

numericValue(value) == value.kind \in {"byte", "integer"}
textValue(value) == value.kind \in {"string", "clob"}

NotComparable == 2

\* Numbers with numbers, any text with any text, booleans with booleans.
compareValues(l, r) ==
    IF \/ numericValue(l) /\ numericValue(r)
       \/ textValue(l) /\ textValue(r)
       \/ l.kind = "boolean" /\ r.kind = "boolean"
    THEN Sign(l.v - r.v) ELSE NotComparable

evaluateComparison(cmp, l, r) ==
    CASE Err \in {l, r} -> Err
      [] Null \in {l, r} -> Bool(FALSE)
      [] compareValues(l, r) = NotComparable -> Err
      [] OTHER -> Bool(Satisfies(cmp, compareValues(l, r)))

\* Operands in order, up to the first that decides or fails.  NOT is not
\* supported.
evaluateLogical(op, values) ==
    LET decides == Bool(op = "or")
        stops == {i \in DOMAIN values : values[i] \in {decides, Err}}
    IN CASE Len(values) < 2 -> Err
         [] stops = {} -> Bool(op = "and")
         [] OTHER -> values[CHOOSE i \in stops : \A j \in stops : i <= j]

evaluateNullPredicate(op, value) ==
    IF value = Err THEN Err ELSE Bool((value = Null) <=> (op = "isnull"))

\* A LIKE pattern as tokens: any run, any character, or one literal one; both
\* translations read it the same way.  A pattern may not end in its escape.
AnyOne == [any |-> 1]
AnyRun == [any |-> 2]
Exactly(ch) == [literal |-> ch]
OneOf(chars) == [class |-> chars]

RECURSIVE Tokens(_, _)
Tokens(pattern, escape) ==
    CASE pattern = <<>> -> <<>>
      [] Head(pattern) = escape -> <<Exactly(pattern[2])>> \o Tokens(Tail(Tail(pattern)), escape)
      [] Head(pattern) = "%" -> <<AnyRun>> \o Tokens(Tail(pattern), escape)
      [] Head(pattern) = "_" -> <<AnyOne>> \o Tokens(Tail(pattern), escape)
      [] OTHER -> <<Exactly(Head(pattern))>> \o Tokens(Tail(pattern), escape)

\* The escape character is met with nothing after it.
RECURSIVE Dangling(_, _)
Dangling(pattern, escape) ==
    IF pattern = <<>> THEN FALSE
    ELSE IF Head(pattern) # escape THEN Dangling(Tail(pattern), escape)
    ELSE Len(pattern) = 1 \/ Dangling(Tail(Tail(pattern)), escape)

compileLikePattern(pattern, escape) ==
    IF Dangling(pattern, escape) THEN Err ELSE Val("regexp", Tokens(pattern, escape))

RECURSIVE MatchTokens(_, _)
MatchTokens(tokens, text) ==
    CASE tokens = <<>> -> text = <<>>
      [] Head(tokens) = AnyRun ->
            MatchTokens(Tail(tokens), text) \/ (text # <<>> /\ MatchTokens(tokens, Tail(text)))
      [] OTHER -> /\ text # <<>>
                  /\ \/ Head(tokens) \in {AnyOne, Exactly(Head(text))}
                     \/ "class" \in DOMAIN Head(tokens) /\ Head(text) \in Head(tokens).class
                  /\ MatchTokens(Tail(tokens), Tail(text))

evaluatePattern(op, value, pattern, escape) ==
    LET matcher == compileLikePattern(pattern, escape)
    IN CASE value = Err -> Err
         [] value = Null -> Bool(FALSE)
         [] value.kind # "string" \/ matcher.kind = "error" -> Err
         [] OTHER -> Bool(MatchTokens(matcher.v, Text[value.v]) <=> op = "like")

\* What a predicate as an operand of AND and OR, or as a filter, comes to.
AsBoolean(value) ==
    CASE value = Null -> Bool(FALSE) [] value.kind = "boolean" -> value [] OTHER -> Err

RECURSIVE evaluateExpression(_, _)
evaluateExpression(row, e) ==
    LET sub(x) == evaluateExpression(row, x)
    IN CASE e.op = "field" -> IF e.name \in DOMAIN row THEN row[e.name] ELSE Err
         [] e.op = "lit" -> e.value
         [] e.op = "cmp" -> evaluateComparison(e.cmp, sub(e.left), sub(e.right))
         [] e.op \in {"and", "or"} ->
              evaluateLogical(e.op, [i \in DOMAIN e.args |-> AsBoolean(sub(e.args[i]))])
         [] e.op \in {"isnull", "notnull"} -> evaluateNullPredicate(e.op, sub(e.arg))
         [] e.op \in {"like", "notlike"} -> evaluatePattern(e.op, sub(e.arg), e.pattern, e.escape)
         [] OTHER -> Err

evaluateFilter(row, filter) ==
    IF filter = NoFilter THEN Bool(TRUE) ELSE AsBoolean(evaluateExpression(row, filter))

-----------------------------------------------------------------------------
(* keys.go: which keys a filter can be about.  A selector is the set of     *)
(* keys it stands for: one exact key, or a glob over all of them.           *)

ExactKey(key) == [exact |-> TRUE, key |-> key, pattern |-> <<>>]
Glob(pattern) == [exact |-> FALSE, key |-> <<>>, pattern |-> pattern]
Plan(selectors, covered) == [selectors |-> selectors, covered |-> covered, failed |-> FALSE]
Uncovered == Plan(<<>>, FALSE)
PlanFails == [selectors |-> <<>>, covered |-> FALSE, failed |-> TRUE]

fieldAndLiteral(e) ==
    CASE e.left.op = "field" /\ e.right.op = "lit" -> <<e.left, e.right>>
      [] e.right.op = "field" /\ e.left.op = "lit" -> <<e.right, e.left>>
      [] OTHER -> <<>>

\* Only an equality of the key with a literal names a key.
comparisonKeySelector(table, e) ==
    LET sides == fieldAndLiteral(e)
        raw == encodeRedisValue(sides[2].value, table.key.type)
    IN IF e.cmp # "=" \/ sides = <<>> THEN Uncovered
       ELSE IF sides[1].name # table.key.name THEN Uncovered
       ELSE IF sides[2].value = Null THEN PlanFails
       ELSE IF raw = Err THEN PlanFails
       ELSE Plan(<<ExactKey(table.prefix \o Text[raw.v])>>, TRUE)

\* The characters that mean something in a glob are quoted.
GlobText(token) ==
    CASE token = AnyRun -> <<"*">>
      [] token = AnyOne -> <<"?">>
      [] OTHER -> IF token.literal \in {"*", "?", "[", "]", "\\"} THEN <<"\\", token.literal>> ELSE <<token.literal>>

likeToRedisGlob(pattern, escape) ==
    IF Dangling(pattern, escape) THEN Err
    ELSE LET tokens == Tokens(pattern, escape)
         IN Val("glob", FlattenSeq([i \in DOMAIN tokens |-> GlobText(tokens[i])]))

\* The prefix goes before the glob as it is.

patternKeySelector(table, e) ==
    LET glob == likeToRedisGlob(e.pattern, e.escape)
    IN IF e.op # "like" \/ e.arg.op # "field" THEN Uncovered
       ELSE IF e.arg.name # table.key.name THEN Uncovered
       ELSE IF table.key.type # "string" \/ glob.kind = "error" THEN PlanFails
       ELSE Plan(<<Glob(table.prefix \o glob.v)>>, TRUE)

\* Mutant: OR keeps the selectors of the operands that have some.
RECURSIVE keySelectorsLoose(_, _)
keySelectorsLoose(table, e) ==
    LET plans == [i \in DOMAIN e.args |-> keySelectorsLoose(table, e.args[i])]
    IN CASE e.op = "cmp" -> comparisonKeySelector(table, e)
         [] e.op \in {"like", "notlike"} -> patternKeySelector(table, e)
         [] e.op \in {"and", "or"} ->
              Plan(FlattenSeq([i \in DOMAIN plans |-> plans[i].selectors]),
                   \E i \in DOMAIN plans : plans[i].covered)
         [] OTHER -> Uncovered

\* AND is covered when an operand is; OR when all are.
RECURSIVE keySelectors(_, _)
keySelectors(table, e) ==
    LET plans == [i \in DOMAIN e.args |-> keySelectors(table, e.args[i])]
        all == FlattenSeq([i \in DOMAIN plans |-> plans[i].selectors])
    IN CASE e.op = "cmp" -> comparisonKeySelector(table, e)
         [] e.op \in {"like", "notlike"} -> patternKeySelector(table, e)
         [] e.op \in {"and", "or"} ->
              IF Len(e.args) < 2 \/ \E i \in DOMAIN plans : plans[i].failed /\
                    (e.op = "or" => \A j \in 1 .. i - 1 : plans[j].covered)
              THEN PlanFails
              ELSE IF e.op = "and" THEN Plan(all, \E i \in DOMAIN plans : plans[i].covered)
              ELSE IF \A i \in DOMAIN plans : plans[i].covered THEN Plan(all, TRUE) ELSE Uncovered
         [] e.op = "not" -> PlanFails
         [] OTHER -> Uncovered

WholeTable(table) == Glob(table.prefix \o <<"*">>)

\* The selectors of a call, in order.
Selectors(table, filter) ==
    LET plan == keySelectors(table, filter)
    IN IF ~plan.covered \/ plan.selectors = <<>> THEN <<WholeTable(table)>> ELSE plan.selectors

-----------------------------------------------------------------------------
(* query.go *)

HasPrefix(key, prefix) == IsPrefix(prefix, key)
PlaceOf(text) == CHOOSE v \in DOMAIN Text : Text[v] = text

\* A hash as a row: the key without the prefix, the fields it has, null for a
\* nullable field it lacks.  A required field it lacks, and a string that does
\* not decode, are errors.
readHashRow(table, key, hash) ==
    [f \in Columns(table) |->
        CASE f = table.key.name ->
               decodeRedisValue(PlaceOf(SubSeq(key, Len(table.prefix) + 1, Len(key))), table.key.type)
          [] f \in DOMAIN hash -> decodeRedisValue(hash[f], table.fields[f].type)
          [] OTHER -> IF table.fields[f].nullable THEN Null ELSE Err]

Unreadable(row) == \E f \in DOMAIN row : row[f] = Err

compareOrderedValues(l, r, o) ==
    CASE l = Null /\ r = Null -> 0
      [] l = Null -> IF o.nulls = "first" THEN -1 ELSE 1
      [] r = Null -> IF o.nulls = "first" THEN 1 ELSE -1
      [] compareValues(l, r) = NotComparable -> NotComparable
      [] OTHER -> IF o.desc THEN -compareValues(l, r) ELSE compareValues(l, r)

\* The first key of the ordering in which two rows differ.
Difference(a, b, order) ==
    LET by(k) == compareOrderedValues(a[order[k].field], b[order[k].field], order[k])
        diff == {k \in DOMAIN order : by(k) # 0}
    IN IF diff = {} THEN 0 ELSE by(CHOOSE k \in diff : \A j \in diff : k <= j)

\* A stable sort of rows that were read in the order of their keys.
sortRows(rows, order) ==
    LET places == SetToSortSeq(DOMAIN rows, LAMBDA i, j :
                      \/ Difference(rows[i], rows[j], order) = -1
                      \/ Difference(rows[i], rows[j], order) = 0 /\ i < j)
    IN [n \in DOMAIN places |-> rows[places[n]]]

SortFails(rows, order) ==
    \E i, j \in DOMAIN rows : i # j /\ Difference(rows[i], rows[j], order) = NotComparable

paginateRows(rows, offset, limit) ==
    LET start == IF offset = NoCount THEN 0 ELSE offset
        left == Len(rows) - start
    IN IF start >= Len(rows) THEN <<>>
       ELSE SubSeq(rows, start + 1, start + (IF limit # NoCount /\ limit < left THEN limit ELSE left))

inferValueType(value) == IF value = Null THEN "error" ELSE value.kind

\* The type of a projection, or an error before any key is read.
expressionType(table, e) ==
    CASE e.op = "field" -> IF e.name \notin Columns(table) THEN "error"
                           ELSE IF e.name = table.key.name THEN table.key.type
                           ELSE table.fields[e.name].type
      [] e.op = "lit" -> inferValueType(e.value)
      [] e.op \in {"cmp", "and", "or", "isnull", "notnull", "like", "notlike"} -> "boolean"
      [] OTHER -> "error"

\* No projections stand for all columns; one that is not a plain field needs a
\* name.
planProjections(table, projections) ==
    \A i \in DOMAIN projections :
        /\ expressionType(table, projections[i].expression) # "error"
        /\ projections[i].named \/ projections[i].expression.op = "field"

Project(projections, row) ==
    [i \in DOMAIN projections |-> evaluateExpression(row, projections[i].expression)]

-----------------------------------------------------------------------------
(* mutation.go: what is checked before the first command *)

mutationColumns(table, fields) ==
    /\ \A i \in DOMAIN fields : fields[i] \in Columns(table)
    /\ \A i, j \in DOMAIN fields : fields[i] = fields[j] => i = j

validateRequiredInsertColumns(table, fields) == Required(table) \subseteq {fields[i] : i \in DOMAIN fields}

ValidInsert(table, r) ==
    /\ table.updatable /\ r.tuples # <<>>
    /\ mutationColumns(table, r.fields)
    /\ Contains(r.fields, table.key.name) /\ Len(r.fields) > 1
    /\ validateRequiredInsertColumns(table, r.fields)

\* The hash of a tuple: its non-null fields, encoded; or no valid hash.
InsertHash(table, fields, tuple) ==
    LET at(f) == tuple[CHOOSE i \in DOMAIN fields : fields[i] = f]
        given == {fields[i] : i \in DOMAIN fields} \ {table.key.name}
        ok == /\ Len(tuple) = Len(fields)
              /\ at(table.key.name) # Null
              /\ encodeRedisValue(at(table.key.name), table.key.type) # Err
              /\ \A f \in given : IF at(f) = Null THEN table.fields[f].nullable
                                  ELSE encodeRedisValue(at(f), table.fields[f].type) # Err
              /\ \E f \in given : at(f) # Null
    IN IF ok
       THEN [ok |-> TRUE,
             key |-> table.prefix \o Text[encodeRedisValue(at(table.key.name), table.key.type).v],
             hash |-> [f \in {f \in given : at(f) # Null} |->
                          encodeRedisValue(at(f), table.fields[f].type).v]]
       ELSE [ok |-> FALSE, key |-> <<>>, hash |-> <<>>]

\* Literal assignments to updatable columns, each at most once: what HSET sets
\* and what HDEL removes.
updateAssignments(table, assignments) ==
    LET fields == {assignments[i].field : i \in DOMAIN assignments}
        valueOf(f) == assignments[CHOOSE i \in DOMAIN assignments : assignments[i].field = f].value
        ok == /\ assignments # <<>> /\ fields \subseteq DOMAIN table.fields
              /\ Cardinality(fields) = Len(assignments)
              /\ \A f \in fields :
                    /\ table.fields[f].updatable
                    /\ IF valueOf(f) = Null THEN table.fields[f].nullable
                       ELSE encodeRedisValue(valueOf(f), table.fields[f].type) # Err
        sets == {f \in fields : valueOf(f) # Null}
    IN IF ok THEN [ok |-> TRUE, deletes |-> fields \ sets,
                   sets |-> [f \in sets |-> encodeRedisValue(valueOf(f), table.fields[f].type).v]]
       ELSE [ok |-> FALSE, deletes |-> {}, sets |-> <<>>]

-----------------------------------------------------------------------------
(* The calls, command by command *)

\* Reply ends the call of c.
Finish(c, reply) ==
    /\ answer' = [answer EXCEPT ![c] = reply]
    /\ call' = [call EXCEPT ![c] = Idle]

Failed == [status |-> "error", rows |-> <<>>, affected |-> 0]
Reply(rows, affected) == [status |-> "ok", rows |-> rows, affected |-> affected]
Fail(c) == Finish(c, Failed)
Done(c, rows, affected) == Finish(c, Reply(rows, affected))

\* What c does tells the calls in progress that they are not alone.
Alone(next, c) ==
    [d \in Client |-> IF d # c /\ next[d].pc # "idle"
                      THEN [next[d] EXCEPT !.alone = FALSE, !.before = <<>>] ELSE next[d]]

TableOf(c) == Tables[call[c].request.table]

\* resolveTable, the checks, and the plan of the keys.
Start(c) ==
    \E r \in Requests :
        LET table == Tables[r.table]
            alone == \A d \in Client : call[d].pc = "idle"
            started(pc) == [pc |-> pc, request |-> r, selectors |-> <<>>, cursor |-> 0, keys |-> {},
                            rows |-> <<>>, affected |-> 0, alone |-> alone,
                            before |-> IF alone THEN db ELSE <<>>]
            invalid == CASE r.op = "insert" -> ~ValidInsert(table, r)
                         [] r.op = "update" -> \/ r.filter = NoFilter \/ ~table.updatable
                                               \/ ~updateAssignments(table, r.assignments).ok
                         [] r.op = "delete" -> r.filter = NoFilter \/ ~table.updatable
                         [] OTHER -> ~planProjections(table, r.projections)
        IN /\ call[c].pc = "idle" /\ calls < MaxCalls
           /\ calls' = calls + 1
           /\ IF invalid \/ (r.op # "insert" /\ keySelectors(table, r.filter).failed)
              THEN answer' = [answer EXCEPT ![c] = Failed] /\ UNCHANGED call
              ELSE /\ call' = Alone([call EXCEPT ![c] =
                         IF r.op = "insert" THEN started("insert")
                         ELSE [started("scan") EXCEPT !.selectors = Selectors(table, r.filter)]], c)
                   /\ answer' = [answer EXCEPT ![c] = NoAnswer]
           /\ UNCHANGED <<db, faults>>

\* External: how Redis reads the pattern of a SCAN.  A bracket begins a class of
\* characters, a backslash quotes the next one.  (Ranges and negations are left
\* out.)
RECURSIVE GlobTokens(_)
GlobTokens(pattern) ==
    LET next == Tail(pattern)
        close == {i \in DOMAIN next : next[i] = "]"}
        end == IF close = {} THEN Len(next) + 1 ELSE CHOOSE i \in close : \A j \in close : i <= j
    IN CASE pattern = <<>> -> <<>>
         [] Head(pattern) = "*" -> <<AnyRun>> \o GlobTokens(next)
         [] Head(pattern) = "?" -> <<AnyOne>> \o GlobTokens(next)
         [] Head(pattern) = "[" -> <<OneOf(ToSet(SubSeq(next, 1, end - 1)))>> \o GlobTokens(SubSeq(next, end + 1, Len(next)))
         [] Head(pattern) = "\\" /\ next # <<>> -> <<Exactly(Head(next))>> \o GlobTokens(Tail(next))
         [] OTHER -> <<Exactly(Head(pattern))>> \o GlobTokens(next)

Reaches(selector, key) ==
    IF selector.exact THEN key = selector.key ELSE MatchTokens(GlobTokens(selector.pattern), key)

\* The keys of Redis are visited in as many SCAN calls as there are slots.
Slots == 2
SlotOf(key) == Len(key) % Slots

\* resolveKeys: one SCAN, or one exact key.  Too many keys are an error, never
\* a short answer.
ScanKeys(c) ==
    LET s == Head(call[c].selectors)
        found == IF s.exact THEN {s.key}
                 ELSE {k \in DOMAIN db : SlotOf(k) = call[c].cursor /\ Reaches(s, k)}
        last == s.exact \/ call[c].cursor = Slots - 1
        rest == Tail(call[c].selectors)
        keys == call[c].keys \cup found
    IN /\ call[c].pc = "scan"
       /\ IF ~s.exact /\ found # {} /\ Cardinality(keys) > MaxScannedKeys
          THEN Fail(c)
          ELSE /\ call' = [call EXCEPT ![c].keys = keys,
                     ![c].cursor = IF last THEN 0 ELSE @ + 1,
                     ![c].selectors = IF last THEN rest ELSE @,
                     ![c].pc = IF last /\ rest = <<>> THEN "type" ELSE "scan"]
               /\ UNCHANGED answer
       /\ UNCHANGED <<db, calls, faults>>

\* resolveKeys: keys of the prefix whose TYPE is hash.
TypeKeys(c) ==
    /\ call[c].pc = "type"
    /\ call' = [call EXCEPT ![c].keys = {k \in @ : HasPrefix(k, TableOf(c).prefix) /\ k \in DOMAIN db},
                            ![c].pc = "read"]
    /\ UNCHANGED <<db, answer, calls, faults>>

KeyRank(c, key) == PlaceOf(SubSeq(key, Len(TableOf(c).prefix) + 1, Len(key)))
NextKey(c) == CHOOSE k \in call[c].keys : \A j \in call[c].keys : KeyRank(c, k) <= KeyRank(c, j)

\* HGETALL of the next key in order, and the filter on the row.
ReadKey(c) ==
    LET key == NextKey(c)
        present == key \in DOMAIN db
        row == readHashRow(TableOf(c), key, db[key])
        filter == call[c].request.filter
        matches == present /\ evaluateFilter(row, filter) = Bool(TRUE)
        fails == present /\ (Unreadable(row) \/ evaluateFilter(row, filter) = Err)
    IN /\ call[c].pc = "read" /\ call[c].keys # {}
       /\ IF fails THEN Fail(c)
          ELSE /\ call' = [call EXCEPT
                     ![c].keys = IF matches /\ call[c].request.op = "update" THEN @ ELSE @ \ {key},
                     ![c].rows = IF matches /\ call[c].request.op # "update"
                                 THEN Append(@, [key |-> key, row |-> row]) ELSE @,
                     ![c].pc = IF matches /\ call[c].request.op = "update" THEN "hset" ELSE "read"]
               /\ UNCHANGED answer
       /\ UNCHANGED <<db, calls, faults>>

ByKey(rows) == [row \in {rows[i].row : i \in DOMAIN rows} |->
                   rows[CHOOSE i \in DOMAIN rows : rows[i].row = row].key]

\* Query: the rows are sorted and paged once all keys are read.
RedisQuery(c) ==
    LET r == call[c].request
        rows == [i \in DOMAIN call[c].rows |-> call[c].rows[i].row]
        page == paginateRows(sortRows(rows, r.order), r.offset, r.limit)
    IN /\ call[c].pc = "read" /\ call[c].keys = {} /\ r.op = "query"
       /\ IF \/ SortFails(rows, r.order)
             \/ \E i \in DOMAIN page : Contains(Project(r.projections, page[i]), Err)
          THEN Fail(c)
          ELSE Done(c, [i \in DOMAIN page |->
                          [key |-> ByKey(call[c].rows)[page[i]], row |-> page[i],
                           tuple |-> Project(r.projections, page[i])]], 0)
       /\ UNCHANGED <<db, calls, faults>>

Without(f, s) == [x \in DOMAIN f \ s |-> f[x]]

\* Update of one key: HSET, which creates the hash when it is gone, and then
\* HDEL, which removes a hash with its last field.
UpdateHSet(c) ==
    LET key == NextKey(c)
        plan == updateAssignments(TableOf(c), call[c].request.assignments)
    IN /\ call[c].pc = "hset"
       /\ db' = IF DOMAIN plan.sets = {} THEN db
                ELSE (key :> (plan.sets @@ (IF key \in DOMAIN db THEN db[key] ELSE <<>>))) @@ db
       /\ call' = Alone([call EXCEPT ![c].pc = "hdel"], c)
       /\ UNCHANGED <<answer, calls, faults>>

UpdateHDel(c) ==
    LET key == NextKey(c)
        plan == updateAssignments(TableOf(c), call[c].request.assignments)
        left == Without(db[key], plan.deletes)
    IN /\ call[c].pc = "hdel"
       /\ db' = IF key \notin DOMAIN db THEN db
                ELSE IF DOMAIN left = {} THEN Without(db, {key})
                ELSE [db EXCEPT ![key] = left]
       /\ call' = Alone([call EXCEPT ![c].pc = "read", ![c].keys = @ \ {key},
                                     ![c].affected = @ + 1], c)
       /\ UNCHANGED <<answer, calls, faults>>

UpdateDone(c) ==
    /\ call[c].pc = "read" /\ call[c].keys = {} /\ call[c].request.op = "update"
    /\ Done(c, <<>>, call[c].affected)
    /\ UNCHANGED <<db, calls, faults>>

\* Delete: one DEL of all the selected keys, which counts those it removed.
RedisDelete(c) ==
    LET selected == {call[c].rows[i].key : i \in DOMAIN call[c].rows}
    IN /\ call[c].pc = "read" /\ call[c].keys = {} /\ call[c].request.op = "delete"
       /\ db' = Without(db, selected)
       /\ answer' = [answer EXCEPT ![c] = Reply(<<>>, Cardinality(selected \cap DOMAIN db))]
       /\ call' = Alone([call EXCEPT ![c] = Idle], c)
       /\ UNCHANGED <<calls, faults>>

\* Insert of one tuple: the script checks and creates in one step.
InsertTuple(c) ==
    LET r == call[c].request
        made == InsertHash(TableOf(c), r.fields, r.tuples[call[c].affected + 1])
    IN /\ call[c].pc = "insert" /\ call[c].affected < Len(r.tuples)
       /\ IF ~made.ok \/ made.key \in DOMAIN db
          THEN Fail(c) /\ UNCHANGED db
          ELSE /\ db' = (made.key :> made.hash) @@ db
               /\ call' = Alone([call EXCEPT ![c].affected = @ + 1], c)
               /\ UNCHANGED answer
       /\ UNCHANGED <<calls, faults>>

RedisInsert(c) ==
    /\ call[c].pc = "insert" /\ call[c].affected = Len(call[c].request.tuples)
    /\ Done(c, <<>>, call[c].affected)
    /\ UNCHANGED <<db, calls, faults>>

\* A command fails: the call ends where it is.
operationError(c) ==
    /\ call[c].pc # "idle" /\ faults < MaxFaults
    /\ faults' = faults + 1
    /\ Fail(c)
    /\ UNCHANGED <<db, calls>>

RedisNext ==
    \E c \in Client :
        \/ Start(c) \/ ScanKeys(c) \/ TypeKeys(c) \/ ReadKey(c)
        \/ RedisQuery(c) \/ UpdateHSet(c) \/ UpdateHDel(c) \/ UpdateDone(c)
        \/ RedisDelete(c) \/ InsertTuple(c) \/ RedisInsert(c)
        \/ operationError(c)

-----------------------------------------------------------------------------
(* Properties *)

\* The rows of a table in a state of Redis.
TableRows(table, hashes) ==
    LET keys == {k \in DOMAIN hashes : HasPrefix(k, table.prefix)}
    IN [k \in keys |-> readHashRow(table, k, hashes[k])]

\* A call that had Redis to itself and was answered did what SQL says: a query
\* returned the page of the selected rows, whichever keys resolveKeys chose to
\* look up and however SCAN cut them; an update and a delete changed exactly the
\* selected rows, each once; an insert added its tuples.  The limit on a scan is
\* an error, never a short answer.  There is one exception: the prefix of a
\* table is put into the pattern of a SCAN as it is, and nothing refuses one
\* that Redis reads as a pattern.  A "*" or "?" in it still matches itself, but
\* with a "[" or a "\" the rows are those whose keys match, often none.
Reached(table, filter, rows) ==
    IF {"[", "\\"} \cap ToSet(table.prefix) = {} THEN DOMAIN rows
    ELSE {k \in DOMAIN rows : \E i \in DOMAIN Selectors(table, filter) : Reaches(Selectors(table, filter)[i], k)}

AloneStep ==
    \A c \in Client :
      answer'[c] # answer[c] /\ answer'[c].status = "ok" /\ call[c].alone =>
        LET r == call[c].request
            a == answer'[c]
            table == Tables[r.table]
            before == TableRows(table, call[c].before)
            after == TableRows(table, db')
            reached == Reached(table, r.filter, before)
            chosen == {k \in reached : Selected(before[k], r.filter)}
        IN CASE r.op = "query" ->
                  /\ Answers([i \in DOMAIN a.rows |-> a.rows[i].key], [k \in reached |-> before[k]], r.filter,
                             r.order, r.offset, r.limit)
                  /\ \A i \in DOMAIN a.rows :
                        /\ a.rows[i].row = before[a.rows[i].key]
                        /\ \A j \in DOMAIN r.projections :
                              r.projections[j].expression.op = "field" =>
                                a.rows[i].tuple[j] = a.rows[i].row[r.projections[j].expression.name]
             [] r.op = "update" ->
                  /\ a.affected = Cardinality(chosen) /\ DOMAIN after = DOMAIN before
                  /\ \A k \in DOMAIN before, f \in Columns(table) : after[k][f] =
                       IF k \in chosen /\ \E i \in DOMAIN r.assignments : r.assignments[i].field = f
                       THEN r.assignments[CHOOSE i \in DOMAIN r.assignments :
                                             r.assignments[i].field = f].value
                       ELSE before[k][f]
             [] r.op = "delete" ->
                  /\ a.affected = Cardinality(chosen)
                  /\ after = Without(before, chosen)
             [] OTHER -> /\ a.affected = Len(r.tuples)
                         /\ Cardinality(DOMAIN after) = Cardinality(DOMAIN before) + a.affected
                         /\ \A k \in DOMAIN before : after[k] = before[k]
                         /\ \A i \in DOMAIN r.tuples : \E k \in DOMAIN after \ DOMAIN before :
                               \A f \in Columns(table) : after[k][f] =
                                  IF Contains(r.fields, f)
                                  THEN r.tuples[i][CHOOSE j \in DOMAIN r.fields : r.fields[j] = f] ELSE Null

AloneExact == [][AloneStep]_redisVars

\* Whatever the calls that run together, a hash that lacks a required field,
\* which no later query can read, comes only from the HSET of an update whose
\* key was deleted after the update had read it.
TornStep ==
    \A k \in DOMAIN db' : \A t \in DOMAIN Tables :
      LET torn(hash) == ~(Required(Tables[t]) \subseteq DOMAIN hash)
      IN HasPrefix(k, Tables[t].prefix) /\ torn(db'[k]) =>
           \/ k \in DOMAIN db /\ torn(db[k])
           \/ /\ k \notin DOMAIN db
              /\ \E c \in Client : call[c].pc = "hset" /\ call'[c].pc = "hdel" /\ NextKey(c) = k

TornOnlyByRace == [][TornStep]_redisVars
=============================================================================
