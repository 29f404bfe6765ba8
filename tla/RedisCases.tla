----------------------------- MODULE RedisCases -----------------------------
(***************************************************************************)
(* The tables, hashes and calls of the instance of Redis.                  *)
(***************************************************************************)
EXTENDS Relational, TLC

MCText == << <<"a">>, <<"a", "b">>, <<"1">>, <<"2">>, <<"9">>, <<"*">>, <<"0">> >>
MCNumerals == (3 :> 1) @@ (4 :> 2) @@ (5 :> 9) @@ (7 :> 0)

Column(name, type, nullable) == [name |-> name, type |-> type, nullable |-> nullable, updatable |-> {}]
MCSchema ==
    [people |-> [name |-> "people", prefix |-> <<"p">>, key |-> Column("id", "string", {TRUE}), updatable |-> {},
                 fields |-> [name |-> Column("name", "string", {FALSE}), age |-> Column("age", "byte", {})]],
     flags  |-> [name |-> "flags", prefix |-> <<>>, key |-> Column("n", "byte", {}), updatable |-> {FALSE},
                 fields |-> [on |-> Column("on", "boolean", {})]],
     \* prefixes that are patterns
     odd    |-> [name |-> "odd", prefix |-> <<"[", "o", "]">>, key |-> Column("id", "string", {}), updatable |-> {},
                 fields |-> [name |-> Column("name", "string", {})]],
     wild   |-> [name |-> "wild", prefix |-> <<"w", "*">>, key |-> Column("id", "string", {}), updatable |-> {},
                 fields |-> [name |-> Column("name", "string", {})]]]

MCSeed ==
    (<<"p", "a">> :> [name |-> 2, age |-> 3]) @@
    (<<"p", "a", "b">> :> [name |-> 1]) @@
    (<<"flags", "1">> :> [on |-> 3]) @@
    (<<"[", "o", "]", "a">> :> [name |-> 1]) @@ (<<"o", "a">> :> [name |-> 2]) @@
    (<<"w", "*", "a">> :> [name |-> 1]) @@ (<<"w", "a">> :> [name |-> 2])

ById(v) == Cmp("=", Field("id"), Lit(Str(v)))
AgeAbove(n) == Cmp(">", Field("age"), Lit(Val("byte", n)))
Query(table, filter, order, offset, limit) ==
    [op |-> "query", table |-> table, filter |-> filter, order |-> order, offset |-> offset, limit |-> limit, projections |-> <<>>]
By(field, desc, nulls) == [field |-> field, desc |-> desc, nulls |-> nulls]
Set(field, value) == [field |-> field, value |-> value]

Project1(e, named) == [expression |-> e, named |-> named]

MCRequests ==
    { Query("people", f, <<>>, NoCount, NoCount) : f \in
        { NoFilter, ById(1), And(<<ById(1), AgeAbove(0)>>), Or(<<ById(2), AgeAbove(0)>>),
          Or(<<ById(1), Cmp("=", Lit(Str(2)), Field("id"))>>),
          Like(Field("id"), <<"a", "%">>, NoEscape), NotLike(Field("id"), <<"_">>, NoEscape),
          NotLike(Field("age"), <<"_">>, NoEscape),
          Like(Field("id"), <<"!", "*">>, "!"), IsNull(Field("age")),
          And(<<Like(Field("name"), <<"_", "b">>, NoEscape), ById(1)>>) } }
    \cup { Query("people", NoFilter, <<By("age", TRUE, "last")>>, 0, 1),
           Query("people", NoFilter, <<By("age", FALSE, "first"), By("id", TRUE, "last")>>, 1, NoCount),
           Query("flags", Cmp("=", Field("n"), Lit(Val("byte", 1))), <<>>, NoCount, NoCount),
           Query("flags", Like(Field("n"), <<"%">>, NoEscape), <<>>, NoCount, NoCount) }
    \cup { [Query("people", ById(1), <<>>, NoCount, NoCount) EXCEPT !.projections = p] : p \in
              { <<Project1(Field("age"), FALSE), Project1(AgeAbove(0), TRUE)>>, <<Project1(Lit(Null), TRUE)>> } }
    \cup { [op |-> "insert", table |-> "people", fields |-> <<"id", "name", "age">>, filter |-> NoFilter,
            tuples |-> ts] : ts \in
              { << <<Str(6), Str(1), Null>> >>, << <<Str(3), Str(1), Val("byte", 9)>>, <<Str(1), Str(1), Null>> >> } }
    \cup { [op |-> "update", table |-> "people", filter |-> f, assignments |-> a] :
            f \in {ById(1), AgeAbove(0)},
            a \in { <<Set("age", Null), Set("name", Str(3))>>, <<Set("age", Val("byte", 2))>>, <<Set("name", Null)>> } }
    \cup { [op |-> "delete", table |-> "people", filter |-> f] : f \in {ById(1), Like(Field("id"), <<"a", "_">>, NoEscape)} }
    \cup { [op |-> "delete", table |-> "flags", filter |-> NoFilter] }
    \cup { Query("odd", f, <<>>, NoCount, NoCount) : f \in {NoFilter, ById(1)} }
    \cup { Query("wild", NoFilter, <<>>, NoCount, NoCount),
           [op |-> "delete", table |-> "odd", filter |-> Like(Field("id"), <<"_">>, NoEscape)] }
=============================================================================
