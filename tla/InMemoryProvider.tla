-------------------------- MODULE InMemoryProvider --------------------------
(***************************************************************************)
(* The in-memory provider: a store of tasks shared by every connection,    *)
(* the queries and mutations on it, and the LOBs a connection hands out.   *)
(*                                                                         *)
(* A query takes its snapshot, and a mutation does all its work, under the *)
(* store's mutex: each is one step.  A cancelled call changes nothing and  *)
(* is not shown.  A clob is its length; its bytes are 1, 2, ...            *)
(***************************************************************************)
EXTENDS InMemoryQuery

CONSTANTS
    Conn,             \* logical connections
    Queries, Inserts, Updates, Deletes, LobReads,   \* the requests that are made
    MaxLobBytes,      \* inMemoryMaxLobBytes
    MaxChunkBytes,    \* inMemoryMaxLobChunkBytes
    MaxWrites,        \* bound: mutations
    MaxLobs           \* bound: LOBs handed out

TaskFields ==
    <<"id", "project_id", "title", "description", "completed", "priority",
      "estimate_hours", "due_at">>

TaskTypes ==
    [id |-> "string", project_id |-> "string", title |-> "string",
     description |-> "clob", completed |-> "boolean", priority |-> "integer",
     estimate_hours |-> "float", due_at |-> "timestamp"]

Nullable == {"description", "estimate_hours", "due_at"}

TaskRow(id, project, title, description, completed, priority, estimate, due) ==
    [id |-> Str(id), project_id |-> Str(project), title |-> Str(title),
     description |-> description, completed |-> Bool(completed),
     priority |-> Num(priority), estimate_hours |-> estimate, due_at |-> due]

Seed ==
    << TaskRow(1, 1, 3, Val("clob", 2), TRUE, 1, Val("float", 2), Val("timestamp", 1)),
       TaskRow(2, 1, 1, Null, FALSE, 2, Val("float", 4), Val("timestamp", 2)),
       TaskRow(3, 2, 2, Null, FALSE, 3, Null, Null) >>

VARIABLES
    tasks,        \* store.tasks : from ids to rows
    nextID,       \* store.nextID
    conns,        \* conns[c].closed, and conns[c].lobs : from LOB ids
    lobStream,    \* lobStream[c] : the read in progress on a connection
    lobCount,     \* LOBs handed out
    writes,       \* mutations made
    op            \* the last call and its answer

vars == <<tasks, nextID, conns, lobStream, lobCount, writes, op>>

NoStream == [lob |-> 0, offset |-> 0, left |-> <<>>, chunk |-> 0, sent |-> <<>>,
             wanted |-> <<>>, done |-> TRUE]
NoOp == [call |-> "none"]

\* newStore, and Open for every connection.
Init ==
    /\ tasks = Seed /\ nextID = 4
    /\ conns = [c \in Conn |-> [closed |-> FALSE, lobs |-> <<>>]]
    /\ lobStream = [c \in Conn |-> NoStream]
    /\ lobCount = 0 /\ writes = 0 /\ op = NoOp

lockOpen(c) == ~conns[c].closed

-----------------------------------------------------------------------------
(* Query *)

\* store.snapshot: the rows of the tasks by their keys.
KeyOrder == SetToSortSeq(DOMAIN tasks, <)
Snapshot == [i \in DOMAIN KeyOrder |-> tasks[KeyOrder[i]]]

\* With LOB reads accepted, a clob leaves as a reference; the bytes are copied
\* into the connection.  Every other value leaves as it is.
outputValue(value, id) == IF value.kind = "clob" THEN Val("lob", id) ELSE value

At(tuples, place) == tuples[place[1]][place[2]]
PlacesOf(tuples, kind) ==
    {<<i, j>> \in (1 .. Len(tuples)) \X (1 .. Len(TaskFields)) :
        j <= Len(tuples[i]) /\ tuples[i][j].kind = kind}

\* The values at which Query gives up: an error, or a clob that is too large.
Stops(tuples) ==
    PlacesOf(tuples, "error") \cup {p \in PlacesOf(tuples, "clob") : At(tuples, p).v > MaxLobBytes}

Before(p, q) == p[1] < q[1] \/ (p[1] = q[1] /\ p[2] < q[2])

LobOrder(positions) == SetToSortSeq(positions, Before)

\* The clobs that become LOBs, in order: those before the first stop.  They stay
\* in the connection when the query fails.
LobPlaces(tuples) ==
    LobOrder({p \in PlacesOf(tuples, "clob") : \A s \in Stops(tuples) : Before(p, s)})

\* newLobValue: fresh identifiers, in the order the tuples are built.
LobIds(tuples, places) ==
    [i \in DOMAIN tuples |-> [j \in DOMAIN tuples[i] |->
        outputValue(tuples[i][j], lobCount + Len(SelectSeq(places, LAMBDA p :
                                      p[1] < i \/ (p[1] = i /\ p[2] <= j))))]]

LobsAt(tuples, places) ==
    [id \in lobCount + 1 .. lobCount + Len(places) |->
        [size |-> At(tuples, places[id - lobCount]).v, live |-> TRUE]]

QueryAnswer(c, q, reply) == [call |-> "query", request |-> q, conn |-> c, reply |-> reply]

\* A plain query changes nothing and sees nothing but the tasks: one is not
\* followed by another, and it is made while no LOB is out.
Query(c) ==
    /\ lockOpen(c) /\ op.call # "query"
    /\ \E q \in Queries :
          /\ lobCount = 0 \/ q.accepts # {}
          /\ \E reply \in {queryRows(q, Snapshot, TaskFields, TaskTypes)} :
             \E places \in {IF q.accepts = {} THEN <<>> ELSE LobPlaces(reply.tuples)} :
               /\ lobCount + Len(places) <= MaxLobs
               /\ conns' = [conns EXCEPT ![c].lobs = @ @@ LobsAt(reply.tuples, places)]
               /\ lobCount' = lobCount + Len(places)
               /\ op' = QueryAnswer(c, q,
                      CASE reply.status # "ok" -> Failed
                        [] q.accepts = {} -> reply
                        [] Stops(reply.tuples) # {} -> Failed
                        [] OTHER -> Reply(LobIds(reply.tuples, places)))
    /\ UNCHANGED <<tasks, nextID, lobStream, writes>>

-----------------------------------------------------------------------------
(* Mutations *)

\* The value of a field must be of its kind; three fields may be null.
FieldAccepts(field, value) ==
    IF value = Null THEN field \in Nullable ELSE value.kind = TaskTypes[field]

Draft == TaskRow(0, 1, 0, Null, FALSE, 0, Null, Null)

\* One task per tuple, over the defaults; an absent, null or empty id (0) is
\* generated later.  Unknown or repeated fields, tuples of the wrong length,
\* values of the wrong kind and a missing title are errors.
DraftOf(fields, tuple) ==
    [f \in DOMAIN TaskTypes |->
        IF \E k \in DOMAIN fields : fields[k] = f /\ (f # "id" \/ tuple[k] # Null)
        THEN tuple[CHOOSE k \in DOMAIN fields : fields[k] = f] ELSE Draft[f]]

ValidTuple(fields, tuple) ==
    /\ Len(tuple) = Len(fields)
    /\ \A k \in DOMAIN fields : \/ FieldAccepts(fields[k], tuple[k])
                                \/ fields[k] = "id" /\ tuple[k] = Null

parseInsertRows(request) ==
    IF /\ \A k \in DOMAIN request.fields : request.fields[k] \in DOMAIN TaskTypes
       /\ IsInjective(request.fields)
       /\ \A i \in DOMAIN request.tuples : ValidTuple(request.fields, request.tuples[i])
       /\ request.tuples = <<>> \/ Contains(request.fields, "title")
    THEN [ok |-> TRUE, drafts |-> [i \in DOMAIN request.tuples |->
                                     DraftOf(request.fields, request.tuples[i])]]
    ELSE [ok |-> FALSE, drafts |-> <<>>]

FreeFrom(next, taken) ==
    CHOOSE n \in next .. next + Cardinality(taken) : n \notin taken /\ next .. n - 1 \subseteq taken

\* The identifiers of the drafts in turn: a generated one skips the ids that
\* are taken, a given one must be new.
Prepared(acc, draft, id, taken) ==
    [ok |-> acc.ok /\ id \notin taken,
     next |-> IF draft.id = Str(0) THEN id + 1 ELSE acc.next,
     rows |-> (id :> [draft EXCEPT !.id = Str(id)]) @@ acc.rows]

PrepareNext(acc, draft, taken) ==
    Prepared(acc, draft, IF draft.id = Str(0) THEN FreeFrom(acc.next, taken) ELSE draft.id.v, taken)

prepareInsertedTasks(drafts) ==
    FoldLeft(LAMBDA acc, draft : PrepareNext(acc, draft, DOMAIN tasks \cup DOMAIN acc.rows),
             [ok |-> TRUE, next |-> nextID, rows |-> <<>>], drafts)

Answer(name, request, ok, rows) ==
    [call |-> name, request |-> request, ok |-> ok, rows |-> rows]

Insert(c) ==
    /\ lockOpen(c) /\ writes < MaxWrites
    /\ \E request \in Inserts :
       \E parsed \in {parseInsertRows(request)} :
       \E prepared \in {prepareInsertedTasks(parsed.drafts)} :
          IF /\ parsed.ok /\ prepared.ok
             /\ \A i \in DOMAIN request.returning : request.returning[i] \in DOMAIN TaskTypes
          THEN /\ tasks' = prepared.rows @@ tasks /\ nextID' = prepared.next
               /\ op' = Answer("insert", request, TRUE, prepared.rows)
          ELSE op' = Answer("insert", request, FALSE, <<>>) /\ UNCHANGED <<tasks, nextID>>
    /\ writes' = writes + 1
    /\ UNCHANGED <<conns, lobStream, lobCount>>

validateAssignments(assignments) ==
    /\ assignments # <<>>
    /\ \A i \in DOMAIN assignments : assignments[i].field \in DOMAIN TaskTypes \ {"id"}
    /\ \A i, j \in DOMAIN assignments : assignments[i].field = assignments[j].field => i = j

\* Every assignment reads the row as it was before the update.
assignTaskValues(row, assignments) ==
    [f \in DOMAIN TaskTypes |->
        IF \E i \in DOMAIN assignments : assignments[i].field = f
        THEN evaluateExpression(RowContext(row),
                 assignments[CHOOSE i \in DOMAIN assignments : assignments[i].field = f].value)
        ELSE row[f]]

Verdicts(filter) == [id \in DOMAIN tasks |-> evaluateFilter(tasks[id], filter)]
Matching(verdicts) == {id \in DOMAIN verdicts : verdicts[id] = Bool(TRUE)}
FilterFails(verdicts) == \E id \in DOMAIN verdicts : verdicts[id] = Err

\* All rows are computed before one is stored: an error changes nothing.
Update(c) ==
    /\ lockOpen(c) /\ writes < MaxWrites
    /\ \E request \in Updates :
       \E verdicts \in {Verdicts(request.filter)} :
       \E updated \in {[id \in Matching(verdicts) |-> assignTaskValues(tasks[id], request.assignments)]} :
          IF /\ validateAssignments(request.assignments) /\ ~FilterFails(verdicts)
             /\ \A id \in DOMAIN updated, i \in DOMAIN request.assignments :
                   FieldAccepts(request.assignments[i].field, updated[id][request.assignments[i].field])
          THEN tasks' = updated @@ tasks /\ op' = Answer("update", request, TRUE, updated)
          ELSE op' = Answer("update", request, FALSE, <<>>) /\ UNCHANGED tasks
    /\ writes' = writes + 1
    /\ UNCHANGED <<nextID, conns, lobStream, lobCount>>

Delete(c) ==
    /\ lockOpen(c) /\ writes < MaxWrites
    /\ \E request \in Deletes :
       \E verdicts \in {Verdicts(request.filter)} :
          IF FilterFails(verdicts)
          THEN op' = Answer("delete", request, FALSE, <<>>) /\ UNCHANGED tasks
          ELSE /\ tasks' = Restrict(tasks, DOMAIN tasks \ Matching(verdicts))
               /\ op' = Answer("delete", request, TRUE, Restrict(tasks, Matching(verdicts)))
    /\ writes' = writes + 1
    /\ UNCHANGED <<nextID, conns, lobStream, lobCount>>

-----------------------------------------------------------------------------
(* LOBs *)

Without(f, x) == Restrict(f, DOMAIN f \ {x})

\* The retention of a LOB passes; ReadLob is what notices.
LobExpires(c) ==
    /\ \E id \in DOMAIN conns[c].lobs :
          conns[c].lobs[id].live /\ conns' = [conns EXCEPT ![c].lobs[id].live = FALSE]
    /\ op' = NoOp
    /\ UNCHANGED <<tasks, nextID, lobStream, lobCount, writes>>

\* A read copies its range, so what happens to the LOB later does not touch it.
ReadLob(c) ==
    \E id \in 1 .. lobCount, r \in LobReads :
        LET known == id \in DOMAIN conns[c].lobs
            found == known /\ conns[c].lobs[id].live
            size == conns[c].lobs[id].size
            end == IF r.length # NoCount /\ r.length < size - r.offset
                   THEN r.offset + r.length ELSE size
            data == [k \in 1 .. end - r.offset |-> r.offset + k]
            chunk == IF r.chunk > 0 /\ r.chunk < MaxChunkBytes THEN r.chunk ELSE MaxChunkBytes
        IN /\ lockOpen(c) /\ lobStream[c].done
           /\ lobStream' = [lobStream EXCEPT ![c] =
                 IF found /\ r.offset <= size
                 THEN [lob |-> id, offset |-> r.offset, left |-> data, chunk |-> chunk,
                       sent |-> <<>>, wanted |-> data, done |-> FALSE]
                 ELSE NoStream]
           /\ conns' = IF known /\ ~found THEN [conns EXCEPT ![c].lobs = Without(@, id)] ELSE conns
           /\ op' = NoOp
           /\ UNCHANGED <<tasks, nextID, lobCount, writes>>

ReleaseLob(c) ==
    /\ lockOpen(c)
    /\ \E id \in DOMAIN conns[c].lobs : conns' = [conns EXCEPT ![c].lobs = Without(@, id)]
    /\ op' = NoOp
    /\ UNCHANGED <<tasks, nextID, lobStream, lobCount, writes>>

\* inMemoryLobStream.Next
LobNext(c) ==
    LET s == lobStream[c]
        n == IF Len(s.left) > s.chunk THEN s.chunk ELSE Len(s.left)
    IN /\ ~s.done
       /\ lobStream' = [lobStream EXCEPT
             ![c].offset = @ + n,
             ![c].left = SubSeq(@, n + 1, Len(@)),
             ![c].sent = Append(@, [offset |-> s.offset, data |-> SubSeq(s.left, 1, n),
                                    end |-> n = Len(s.left)]),
             ![c].done = (n = Len(s.left))]
       /\ op' = NoOp
       /\ UNCHANGED <<tasks, nextID, conns, lobCount, writes>>

\* Close drops the LOBs; a stream that was opened before goes on.
Close(c) ==
    /\ lockOpen(c)
    /\ conns' = [conns EXCEPT ![c] = [closed |-> TRUE, lobs |-> <<>>]]
    /\ op' = NoOp
    /\ UNCHANGED <<tasks, nextID, lobStream, lobCount, writes>>

Next ==
    \E c \in Conn :
        \/ Query(c) \/ Insert(c) \/ Update(c) \/ Delete(c)
        \/ LobExpires(c) \/ ReadLob(c) \/ ReleaseLob(c) \/ LobNext(c)
        \/ Close(c)

Spec == Init /\ [][Next]_vars

-----------------------------------------------------------------------------
(* Properties *)

AsRow(tuple) == [f \in DOMAIN TaskTypes |-> tuple[CHOOSE i \in DOMAIN TaskFields : TaskFields[i] = f]]
AsOrder(orderBy) == [i \in DOMAIN orderBy |->
    [field |-> orderBy[i].expression.name, desc |-> orderBy[i].desc, nulls |-> orderBy[i].nulls]]

RECURSIVE HasNot(_)
HasNot(e) == CASE e.op = "not" -> TRUE
               [] e.op \in {"and", "or"} -> \E i \in DOMAIN e.args : HasNot(e.args[i])
               [] OTHER -> FALSE

\* A query for whole rows that Query answers returns, of the tasks that SQL's
\* three-valued logic selects, the page that was asked for of some ordering the
\* request allows: nulls in comparisons and in orderings, AND and OR with null
\* operands, descending keys, ties and offsets beyond the end included.  NOT is
\* excepted: evaluateComparison makes a comparison with null false.
RowsExact ==
    op.call = "query" /\ op.reply.status = "ok" =>
        LET q == op.request
            page == [i \in DOMAIN op.reply.tuples |-> AsRow(op.reply.tuples[i])]
        IN q.projections = <<>> /\ q.accepts = {} /\ ~HasNot(q.filter) =>
             /\ Answers([i \in DOMAIN page |-> page[i].id.v], tasks, q.filter,
                        AsOrder(q.orderBy), q.offset, q.limit)
             /\ \A i \in DOMAIN page : page[i] = tasks[page[i].id.v]

\* The value of an aggregate over a set of rows: the exact number, or for a
\* decimal the nearest one of the declared scale.
Means(agg, ids, value) ==
    LET field == agg.args[1].name
        present == {id \in ids : tasks[id][field] # Null}
        distinct == {tasks[id][field].v : id \in present}
        total == IF agg.distinct THEN SumSet(distinct)
                 ELSE MapThenSumSet(LAMBDA id : tasks[id][field].v, present)
        count == IF agg.distinct THEN Cardinality(distinct) ELSE Cardinality(present)
    IN CASE agg.fn = "count*" -> value.v = Cardinality(ids)
         [] agg.fn = "count" -> value.v = count
         [] present = {} -> value = Null
         [] agg.fn = "min" -> value.v = CHOOSE v \in distinct : \A w \in distinct : v <= w
         [] agg.fn = "max" -> value.v = CHOOSE v \in distinct : \A w \in distinct : v >= w
         [] agg.fn = "sum" -> value.v = total
         [] agg.fn = "avg" /\ value.kind # "bigdecimal" -> value.v * count = total
         [] OTHER -> 2 * Power(10, agg.type.scale) * Abs(total * value.d - value.v * count)
                        <= count * value.d

\* An aggregate query that is answered has one tuple per group of the selected
\* tasks, a single one without GROUP BY even when no task is selected, and each
\* aggregate of it is computed over the group's non-null values, exactly or to
\* the declared scale, and never wrapped: a sum that does not fit is an error.
AggregatesExact ==
    op.call = "query" /\ op.reply.status = "ok" /\ op.request.groupBy # op.request.projections =>
        LET q == op.request
            chosen == {id \in DOMAIN tasks : Selected(tasks[id], q.filter)}
            grouped == q.groupBy # <<>>
            keyOf(id) == tasks[id][q.groupBy[1].name]
            member(id, tuple) == grouped => keyOf(id) = tuple[1]
        IN aggregateQuery(q) /\ q.having = NoFilter /\ q.limit = NoCount =>
             /\ Len(op.reply.tuples) = IF grouped THEN Cardinality({keyOf(id) : id \in chosen}) ELSE 1
             /\ \A i \in DOMAIN op.reply.tuples, k \in DOMAIN q.projections :
                  LET tuple == op.reply.tuples[i]
                      ids == {id \in chosen : member(id, tuple)}
                  IN /\ grouped => ids # {}
                     /\ q.projections[k].op = "agg" =>
                          IF q.projections[k].fn = "count*" THEN tuple[k].v = Cardinality(ids)
                          ELSE Means(q.projections[k], ids, tuple[k])

\* The row of a tuple: the values it gives, the defaults, and the key it is at.
RowOf(fields, tuple, row, id) ==
    /\ row.id = Str(id)
    /\ \A k \in DOMAIN fields : fields[k] = "id" /\ tuple[k] \notin {Null, Str(0)} => tuple[k] = Str(id)
    /\ \A f \in DOMAIN TaskTypes \ {"id"} :
          \/ \E k \in DOMAIN fields : fields[k] = f /\ row[f] = tuple[k]
          \/ f \notin ToSet(fields) /\ row[f] = Draft[f]

\* The row that an update makes of another: every assignment reads that one.
Assigned(assignments, before, after) ==
    \A f \in DOMAIN TaskTypes :
        \/ \E i \in DOMAIN assignments : assignments[i].field = f /\ after[f] = Scalar(before, assignments[i].value)
        \/ after[f] = before[f] /\ \A i \in DOMAIN assignments : assignments[i].field # f

\* A mutation that is acknowledged has done exactly what it says.  An insert has
\* added one row for every tuple, with its values and the defaults, under the
\* identifier it gives or one that nobody uses, whatever ids clients chose before;
\* an update has given every row that SQL selects what it assigns, read off the
\* row as it was; a delete has removed those rows; and no other row or field is
\* touched, no id changes, and the affected rows are the ones that are reported.
\* One that fails changes nothing, and nothing else changes a task.  (The filters
\* here have no NOT: see RowsExact.)
MutationsExact ==
    [][ LET request == op'.request
            chosen == {id \in DOMAIN tasks : Selected(tasks[id], request.filter)}
            added == DOMAIN tasks' \ DOMAIN tasks
            kept(ids) == \A id \in ids : id \in DOMAIN tasks' /\ tasks'[id] = tasks[id]
        IN CASE writes' = writes -> tasks' = tasks
             [] ~op'.ok -> tasks' = tasks /\ op'.rows = <<>>
             [] op'.call = "insert" ->
                  /\ kept(DOMAIN tasks) /\ DOMAIN op'.rows = added
                  /\ Cardinality(added) = Len(request.tuples)
                  /\ \E at \in [DOMAIN request.tuples -> added] :
                        /\ IsInjective(at)
                        /\ \A i \in DOMAIN at : RowOf(request.fields, request.tuples[i], tasks'[at[i]], at[i])
             [] op'.call = "update" ->
                  /\ DOMAIN tasks' = DOMAIN tasks /\ kept(DOMAIN tasks \ chosen) /\ DOMAIN op'.rows = chosen
                  /\ \A id \in chosen : Assigned(request.assignments, tasks[id], tasks'[id])
             [] op'.call = "delete" ->
                  /\ DOMAIN tasks' = DOMAIN tasks \ chosen /\ kept(DOMAIN tasks') /\ DOMAIN op'.rows = chosen
      ]_vars

\* The chunks of a LOB read are the requested range in order, without a gap,
\* and exactly the last one says so, even when the range is empty, the row was
\* changed, the LOB was released or the connection was closed meanwhile.
LobReadExact ==
    \A c \in Conn :
        LET s == lobStream[c]
            data == [i \in DOMAIN s.sent |-> s.sent[i].data]
        IN s # NoStream =>
             /\ FlattenSeq(data) \o s.left = s.wanted
             /\ \A i \in DOMAIN s.sent :
                  /\ s.sent[i].end <=> (i = Len(s.sent) /\ s.done)
                  /\ s.sent[i].data # <<>> => s.sent[i].offset + 1 = Head(s.sent[i].data)
                  /\ s.sent[i].data = <<>> => s.wanted = <<>>
             /\ s.done => s.left = <<>>
=============================================================================
