--------------------------- MODULE InMemoryCases ----------------------------
(***************************************************************************)
(* The calls of the instance of InMemoryProvider.                          *)
(***************************************************************************)
EXTENDS InMemoryQuery

By(field, desc, nulls) == [expression |-> Field(field), desc |-> desc, nulls |-> nulls]

Filters ==
    { NoFilter,
      Cmp(">=", Field("priority"), Lit(Num(2))),
      Cmp("=", Field("estimate_hours"), Lit(Val("float", 4))),
      Cmp("<>", Field("estimate_hours"), Field("priority")),
      And(<<Cmp("<", Field("priority"), Lit(Num(3))), IsNotNull(Field("estimate_hours"))>>),
      Or(<<IsNull(Field("estimate_hours")), Cmp("=", Field("completed"), Lit(Bool(TRUE)))>>),
      Not(Cmp("=", Field("project_id"), Lit(Str(1)))),
      Cmp("=", Field("description"), Field("description")),
      Cmp("=", Field("title"), Lit(Num(1))) }

Orders ==
    { <<>>,
      <<By("estimate_hours", FALSE, "last")>>,
      <<By("estimate_hours", TRUE, "first")>>,
      <<By("estimate_hours", TRUE, "last")>>,
      <<By("project_id", TRUE, "last"), By("title", FALSE, "last")>>,
      <<By("due_at", FALSE, "last")>> }

Rows(filter, order, offset, limit) ==
    [filter |-> filter, projections |-> <<>>, groupBy |-> <<>>, having |-> NoFilter,
     orderBy |-> order, offset |-> offset, limit |-> limit, accepts |-> {}]

Agg(fn, field, distinct, name, scale) ==
    Aggregate(fn, IF field = "" THEN <<>> ELSE <<Field(field)>>, distinct, Type(name, scale))

Aggregates ==
    { <<Agg("count*", "", FALSE, "integer", NoScale), Agg("sum", "priority", FALSE, "integer", NoScale)>>,
      <<Agg("min", "estimate_hours", FALSE, "integer", NoScale), Agg("max", "title", FALSE, "string", NoScale)>>,
      <<Agg("avg", "priority", FALSE, "bigdecimal", 1), Agg("count", "estimate_hours", TRUE, "long", NoScale)>>,
      <<Agg("avg", "estimate_hours", FALSE, "bigdecimal", 1), Agg("sum", "priority", TRUE, "long", NoScale)>>,
      <<Agg("max", "description", FALSE, "clob", NoScale), Agg("avg", "priority", FALSE, "integer", NoScale)>> }

Grouped(aggs, filter, group, having) ==
    [Rows(filter, <<>>, NoCount, NoCount) EXCEPT
        !.projections = (IF group = "" THEN <<>> ELSE <<Field(group)>>) \o aggs,
        !.groupBy = IF group = "" THEN <<>> ELSE <<Field(group)>>,
        !.having = having]

MCQueries ==
    {Rows(f, <<>>, NoCount, NoCount) : f \in Filters}
    \cup {Rows(NoFilter, o, p[1], p[2]) : o \in Orders,
            p \in {<<NoCount, NoCount>>, <<1, 1>>, <<0, 2>>, <<5, 1>>}}
    \cup {Grouped(a, f, g, NoFilter) : a \in Aggregates, g \in {"", "project_id", "completed"},
            f \in {NoFilter, Cmp(">", Field("priority"), Lit(Num(9))),
                   Cmp(">=", Field("priority"), Lit(Num(2)))}}
    \cup { Grouped(<<Agg("count*", "", FALSE, "integer", NoScale)>>, NoFilter, "project_id",
                   Cmp(">", Agg("count*", "", FALSE, "integer", NoScale), Lit(Num(1)))),
           [Grouped(<<Field("title")>>, NoFilter, "project_id", NoFilter) EXCEPT !.limit = 1],
           [Rows(NoFilter, <<>>, NoCount, NoCount) EXCEPT
               !.projections = <<Field("id"), Field("description")>>, !.accepts = {"lobs"}],
           [Rows(NoFilter, <<>>, NoCount, NoCount) EXCEPT
               !.projections = <<Field("description"), Cmp("=", Field("title"), Lit(Num(1)))>>,
               !.accepts = {"lobs"}] }

MCInserts ==
    { [fields |-> <<"title">>, tuples |-> <<<<Str(7)>>, <<Str(1)>>>>, returning |-> <<"id">>],
      [fields |-> <<"id", "title", "priority">>, tuples |-> <<<<Str(4), Str(2), Num(2)>>>>, returning |-> <<>>],
      [fields |-> <<"id", "title">>, tuples |-> <<<<Null, Str(5)>>, <<Str(4), Str(5)>>>>, returning |-> <<>>],
      [fields |-> <<"title", "description">>, tuples |-> <<<<Str(5), Val("clob", 4)>>>>, returning |-> <<>>],
      [fields |-> <<"priority">>, tuples |-> <<<<Num(1)>>>>, returning |-> <<>>] }

Set(field, value) == [field |-> field, value |-> value]
MCUpdates ==
    { [assignments |-> <<Set("priority", Field("priority"))>>, filter |-> NoFilter],
      [assignments |-> <<Set("priority", Lit(Num(3))), Set("estimate_hours", Lit(Null))>>,
       filter |-> Cmp("=", Field("project_id"), Lit(Str(1)))],
      [assignments |-> <<Set("project_id", Field("title")), Set("title", Field("project_id"))>>,
       filter |-> Cmp("=", Field("completed"), Lit(Bool(FALSE)))],
      [assignments |-> <<Set("title", Lit(Null))>>, filter |-> IsNull(Field("due_at"))],
      [assignments |-> <<Set("id", Lit(Str(9)))>>, filter |-> NoFilter] }

MCDeletes == { [filter |-> Cmp("<", Field("estimate_hours"), Lit(Num(3)))],
               [filter |-> Cmp("=", Field("completed"), Lit(Bool(FALSE)))],
               [filter |-> Cmp("=", Field("title"), Lit(Num(1)))] }

MCLobReads ==
    { [offset |-> 0, length |-> NoCount, chunk |-> 0], [offset |-> 0, length |-> NoCount, chunk |-> 1],
      [offset |-> 1, length |-> 0, chunk |-> 0], [offset |-> 2, length |-> 5, chunk |-> 9],
      [offset |-> 3, length |-> NoCount, chunk |-> 1] }
=============================================================================
