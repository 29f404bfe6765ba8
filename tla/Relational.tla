----------------------------- MODULE Relational -----------------------------
(***************************************************************************)
(* What the engine means by the filters, orderings and pages it pushes     *)
(* down to a provider: SQL's three-valued logic over rows, independent of  *)
(* any provider's code.  The modules of the providers are checked against  *)
(* these definitions.                                                      *)
(*                                                                         *)
(* A value is a kind and a number: what matters of a string, a timestamp   *)
(* or a float is its place in the order of its kind.  A row is a function  *)
(* from field names to values.  Expressions are records with an op.        *)
(***************************************************************************)
EXTENDS Integers, Sequences, FiniteSets

CONSTANT Text      \* Text[v] : the characters of the string with place v

Val(kind, v) == [kind |-> kind, v |-> v]
Null == Val("null", 0)
Str(v) == Val("string", v)
Num(v) == Val("integer", v)
Bool(b) == Val("boolean", IF b THEN 1 ELSE 0)

\* An operation that reports an error instead of a value.
Err == Val("error", 0)

Field(name) == [op |-> "field", name |-> name]
Lit(value) == [op |-> "lit", value |-> value]
Cmp(cmp, left, right) == [op |-> "cmp", cmp |-> cmp, left |-> left, right |-> right]
And(args) == [op |-> "and", args |-> args]
Or(args) == [op |-> "or", args |-> args]
Not(arg) == [op |-> "not", args |-> <<arg>>]
IsNull(arg) == [op |-> "isnull", arg |-> arg]
IsNotNull(arg) == [op |-> "notnull", arg |-> arg]
NoFilter == [op |-> "none"]

\* A LIKE pattern is a sequence of characters; % and _ are special unless the
\* escape character, if there is one, precedes them.
NoEscape == "none"
Like(arg, pattern, escape) == [op |-> "like", arg |-> arg, pattern |-> pattern, escape |-> escape]
NotLike(arg, pattern, escape) ==
    [op |-> "notlike", arg |-> arg, pattern |-> pattern, escape |-> escape]

\* The six comparisons, of the sign of an order.
Satisfies(cmp, order) ==
    CASE cmp = "=" -> order = 0 [] cmp = "<>" -> order # 0
      [] cmp = "<" -> order < 0 [] cmp = "<=" -> order <= 0
      [] cmp = ">" -> order > 0 [] cmp = ">=" -> order >= 0

Sign(n) == IF n < 0 THEN -1 ELSE IF n > 0 THEN 1 ELSE 0

-----------------------------------------------------------------------------
RECURSIVE LikeMatches(_, _, _)
LikeMatches(text, pattern, escape) ==
    CASE pattern = <<>> -> text = <<>>
      [] Head(pattern) = escape ->
           /\ Len(pattern) > 1 /\ text # <<>> /\ Head(text) = pattern[2]
           /\ LikeMatches(Tail(text), Tail(Tail(pattern)), escape)
      [] Head(pattern) = "%" /\ escape # "%" ->
           \E n \in 0 .. Len(text) : LikeMatches(SubSeq(text, n + 1, Len(text)), Tail(pattern), escape)
      [] OTHER -> /\ text # <<>> /\ Head(pattern) \in {"_", Head(text)}
                  /\ LikeMatches(Tail(text), Tail(pattern), escape)

Scalar(row, e) == IF e.op = "field" THEN row[e.name] ELSE e.value

\* The three truth values of a predicate, after Kleene.
RECURSIVE Truth(_, _)
Truth(row, e) ==
    LET all == {Truth(row, e.args[i]) : i \in DOMAIN e.args}
    IN CASE e.op = "none" -> "true"
         [] e.op = "cmp" ->
              LET l == Scalar(row, e.left)
                  r == Scalar(row, e.right)
              IN IF l = Null \/ r = Null THEN "unknown"
                 ELSE IF Satisfies(e.cmp, l.v - r.v) THEN "true" ELSE "false"
         [] e.op = "isnull" -> IF Scalar(row, e.arg) = Null THEN "true" ELSE "false"
         [] e.op = "notnull" -> IF Scalar(row, e.arg) = Null THEN "false" ELSE "true"
         [] e.op \in {"like", "notlike"} ->
              LET x == Scalar(row, e.arg)
              IN CASE x = Null -> "unknown"
                   [] LikeMatches(Text[x.v], e.pattern, e.escape) <=> e.op = "like" -> "true"
                   [] OTHER -> "false"
         [] e.op = "and" -> IF "false" \in all THEN "false"
                            ELSE IF "unknown" \in all THEN "unknown" ELSE "true"
         [] e.op = "or" -> IF "true" \in all THEN "true"
                           ELSE IF "unknown" \in all THEN "unknown" ELSE "false"
         [] e.op = "not" -> CASE "true" \in all -> "false" [] "false" \in all -> "true"
                              [] OTHER -> "unknown"

Selected(row, filter) == Truth(row, filter) = "true"

\* a may precede b under an ordering: a sequence of records of a field, a
\* direction and where the nulls go.
RECURSIVE Precedes(_, _, _)
Precedes(a, b, order) ==
    \/ order = <<>>
    \/ LET o == Head(order)
           x == a[o.field]
           y == b[o.field]
           before == IF x = Null \/ y = Null
                     THEN x # y /\ (x = Null <=> o.nulls = "first")
                     ELSE IF o.desc THEN x.v > y.v ELSE x.v < y.v
       IN before \/ (x = y /\ Precedes(a, b, Tail(order)))

Ordered(rows, order) ==
    \A i, j \in DOMAIN rows : i < j => Precedes(rows[i], rows[j], order)

\* One row, or none, of each position of a page of n rows.
NoCount == -1
PageSize(n, offset, limit) ==
    LET left == IF offset >= n THEN 0 ELSE n - offset
    IN IF limit # NoCount /\ limit < left THEN limit ELSE left

\* A sequence of keys of a table answers a query: it is the page that was asked
\* for of some ordering of the selected rows that the request allows.
Answers(keys, table, filter, order, offset, limit) ==
    LET chosen == {k \in DOMAIN table : Selected(table[k], filter)}
        shown == {keys[i] : i \in DOMAIN keys}
        skip == IF offset = NoCount THEN 0 ELSE offset
    IN /\ Len(keys) = PageSize(Cardinality(chosen), skip, limit)
       /\ Cardinality(shown) = Len(keys) /\ shown \subseteq chosen
       /\ Ordered([i \in DOMAIN keys |-> table[keys[i]]], order)
       /\ keys # <<>> => \E skipped \in SUBSET (chosen \ shown) :
             /\ Cardinality(skipped) = skip
             /\ \A s \in skipped, k \in shown : Precedes(table[s], table[k], order)
             /\ \A r \in chosen \ (shown \cup skipped), k \in shown :
                   Precedes(table[k], table[r], order)
=============================================================================
