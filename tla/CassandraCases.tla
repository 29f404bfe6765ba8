--------------------------- MODULE CassandraCases ---------------------------
(***************************************************************************)
(* The table, rows and calls of the instance of Cassandra.                 *)
(***************************************************************************)
EXTENDS Relational, TLC

MCColumns == [p |-> [kind |-> "partition", type |-> "int"], k |-> [kind |-> "clustering", type |-> "tinyint"],
              t |-> [kind |-> "regular", type |-> "text"], n |-> [kind |-> "regular", type |-> "varint"]]
MCOrderedColumns == <<"p", "k", "t", "n">>
Unset == -99     \* what Cassandra calls NoValue
Native(p, k, t, n) == [p |-> p, k |-> k, t |-> t, n |-> n]
MCCqlSeed == (<<1, 1>> :> Native(1, 1, 3, Unset)) @@ (<<1, 2>> :> Native(1, 2, 1, 5)) @@
             (<<2, 1>> :> Native(2, 1, 2, 7))

P(n) == Cmp("=", Field("p"), Lit(Num(n)))
K(cmp, n) == Cmp(cmp, Field("k"), Lit(Num(n)))
By(field, desc) == [field |-> field, desc |-> desc, nulls |-> "unspecified"]
Sel(filter, order, limit, projections) ==
    [op |-> "query", filter |-> filter, order |-> order, offset |-> 0, limit |-> limit, projections |-> projections]
Agg(fn, args, type) == [op |-> "agg", fn |-> fn, args |-> args, distinct |-> FALSE, type |-> type]

MCCqlRequests ==
    { Sel(f, <<>>, l, <<>>) : l \in {NoCount, 0, 1}, f \in
        { NoFilter, P(1), And(<<P(1), K(">", 1)>>), And(<<P(1), Cmp(">", Lit(Num(2)), Field("k"))>>),
          And(<<P(1), K(">=", 9)>>), Cmp("=", Field("t"), Lit(Str(1))), Cmp("=", Field("p"), Lit(Null)),
          Or(<<P(1), P(2)>>), And(<<P(1), Cmp("<>", Field("k"), Lit(Num(1)))>>) } }
    \cup { Sel(P(1), <<By("k", TRUE)>>, l, <<Field("k"), Field("n")>>) : l \in {NoCount, 1} }
    \cup { Sel(NoFilter, <<By("k", FALSE)>>, NoCount, <<>>),
           Sel(P(1), <<[field |-> "k", desc |-> FALSE, nulls |-> "last"]>>, NoCount, <<>>),
           [Sel(P(1), <<>>, NoCount, <<>>) EXCEPT !.offset = 1] }
    \cup { Sel(f, <<>>, NoCount, a) : f \in {NoFilter, P(1), P(3)}, a \in
             { <<Agg("count*", <<>>, "integer"), Agg("min", <<Field("t")>>, "string")>>,
               <<Agg("count", <<Field("n")>>, "long"), Agg("max", <<Field("n")>>, "biginteger")>>,
               <<Agg("sum", <<Field("n")>>, "long")>>, <<Agg("count*", <<>>, "integer"), Field("p")>> } }
    \cup { [op |-> "insert", fields |-> <<"p", "k", "t">>, tuples |-> ts] : ts \in
             { << <<Num(1), Num(3), Null>>, <<Num(2), Num(1), Str(4)>> >>,
               << <<Num(3), Val("long", 2), Str(1)>>, <<Num(3), Num(9), Str(1)>> >> } }
    \cup { [op |-> "update", filter |-> f, assignments |-> <<[field |-> "n", value |-> Num(4)], [field |-> "t", value |-> Null]>>] :
             f \in {And(<<P(1), K("=", 1)>>), And(<<P(3), K("=", 1)>>), P(1)} }
    \cup { [op |-> "delete", filter |-> f] : f \in {P(1), And(<<P(1), K("<", 2)>>), Cmp("=", Field("n"), Lit(Num(5)))} }
=============================================================================
