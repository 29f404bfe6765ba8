-------------------------- MODULE KubernetesStream --------------------------
(***************************************************************************)
(* The result stream of the Kubernetes provider: a query lists a resource  *)
(* page by page, each page as large as the batch or what the limit leaves, *)
(* and turns every object into a tuple of the projected columns.  The list *)
(* is what the API server froze at the first page; how it cuts the list    *)
(* into pages is the server's choice: a page may hold fewer objects than   *)
(* were asked for, or none, or more from a server that knows no limit, and  *)
(* name a next page that turns out empty.                                  *)
(*                                                                         *)
(* An object is a document: a function from the paths of its leaves to     *)
(* values, each a kind and what is in it.                                  *)
(***************************************************************************)
EXTENDS Integers, Sequences, SequencesExt

VARIABLES
    kstream,      \* the result stream of the last query
    kreader       \* what its reader was given

streamVars == <<kstream, kreader>>

NoStream == [open |-> FALSE]
NothingRead == [rows |-> <<>>, saw |-> "nothing"]
NoLimit == -1

-----------------------------------------------------------------------------
(* Reading a document *)

NullLeaf == [kind |-> "null", v |-> ""]
NoMatch == [kind |-> "error", v |-> ""]

IsObject(doc) == <<>> \notin DOMAIN doc
Under(doc, path) == {p \in DOMAIN doc : IsPrefix(path, p)}
Above(doc, path) == {p \in DOMAIN doc : IsStrictPrefix(p, path)}
Sub(doc, path) ==
    [q \in {SubSeq(p, Len(path) + 1, Len(p)) : p \in Under(doc, path)} |-> doc[path \o q]]

\* GetName, GetNamespace, ...: "" when there is no such string.
Text1(doc, path) == IF path \in DOMAIN doc /\ doc[path].kind = "string" THEN doc[path].v ELSE ""

kubernetesTypedValue(doc, type) ==
    LET leaf == doc[<<>>]
    IN CASE type = "json" -> [kind |-> "json", doc |-> doc]
         [] IsObject(doc) -> NoMatch
         [] type = "integer" /\ leaf.kind = "integer" -> leaf
         [] type = "long" /\ leaf.kind \in {"integer", "wide"} -> [kind |-> "long", v |-> leaf.v]
         [] type \in {"float", "double"} /\ leaf.kind \in {"integer", "wide", "fraction"} ->
                [kind |-> type, v |-> leaf.v]
         [] type \in {"string", "boolean"} /\ leaf.kind = type -> leaf
         [] OTHER -> NoMatch

\* An owner reference is at <<"metadata", "ownerReferences", i, field>>.
ownerReferenceColumnValue(doc, owner) ==
    LET reference(i, field) == <<"metadata", "ownerReferences", i, field>>
        controllers == {i \in {"0", "1"} :
            /\ reference(i, "controller") \in DOMAIN doc /\ doc[reference(i, "controller")].v = "true"
            /\ Text1(doc, reference(i, "kind")) = owner.kind}
        first == IF "0" \in controllers THEN "0" ELSE "1"
    IN IF controllers = {} \/ Text1(doc, reference(first, owner.field)) = "" THEN NullLeaf
       ELSE doc[reference(first, owner.field)]

\* A field that is not there, or null, is null; one under a scalar is an error.
resourceColumnValue(doc, column) ==
    LET found == Sub(doc, column.path)
    IN CASE column.owner.kind # "" -> ownerReferenceColumnValue(doc, column.owner)
         [] {p \in Above(doc, column.path) : doc[p].kind # "null"} # {} -> NoMatch
         [] DOMAIN found = {} -> NullLeaf
         [] ~IsObject(found) /\ found[<<>>].kind = "null" -> NullLeaf
         [] OTHER -> kubernetesTypedValue(found, column.type)

resourceTuple(doc, columns) == [i \in DOMAIN columns |-> resourceColumnValue(doc, columns[i])]
Unconverted(tuple) == \E j \in DOMAIN tuple : tuple[j].kind = "error"

-----------------------------------------------------------------------------
(* result_stream.go *)

queryBatchSize(batch) == IF batch = 0 THEN 100 ELSE batch

newKubernetesResultStream(items, columns, batch, limit) ==
    [open |-> TRUE, done |-> FALSE, error |-> FALSE, items |-> items, columns |-> columns, next |-> 1,
     batch |-> queryBatchSize(batch), remaining |-> limit, limit |-> limit]
newEmptyKubernetesResultStream ==
    [open |-> TRUE, done |-> TRUE, error |-> FALSE, items |-> <<>>, columns |-> <<>>, next |-> 1,
     batch |-> queryBatchSize(0), remaining |-> NoLimit, limit |-> NoLimit]

\* A query opens its stream, or none when it is refused.
OpenStream(stream) == ~kstream.open /\ kstream' = stream /\ kreader' = NothingRead

\* ListOptions.Limit: the batch's size, or what the limit leaves.
Asked(s) == IF s.limit # NoLimit /\ s.remaining < s.batch THEN s.remaining ELSE s.batch

\* What the server may answer: some of the next objects, and a continue token,
\* which is there whenever objects are left.
Pages(s) ==
    {page \in [size : 0 .. Len(s.items) - s.next + 1, token : BOOLEAN] :
        s.next + page.size <= Len(s.items) => page.token}

\* tupleCount: the objects of a page that the limit still lets through.
Taken(s, page) == IF s.limit # NoLimit /\ page.size > s.remaining THEN s.remaining ELSE page.size

PageTuples(s, page) ==
    [i \in 1 .. Taken(s, page) |-> resourceTuple(s.items[s.next + i - 1], s.columns)]

\* Mutant: what the limit leaves is not counted down.
PageAfterUncounted(s, page) == [s EXCEPT !.next = @ + Taken(s, page), !.done = ~page.token]

\* The stream after a page whose objects were all converted.
PageAfter(s, page) ==
    LET left == IF s.limit = NoLimit THEN NoLimit ELSE s.remaining - Taken(s, page)
    IN [s EXCEPT !.next = @ + Taken(s, page), !.remaining = left, !.done = left = 0 \/ ~page.token]

Broken(s) == [s EXCEPT !.done = TRUE, !.error = TRUE]

\* Next on a stream that has ended, or that the limit leaves nothing to ask for.
StreamEnds ==
    /\ kstream.open /\ kreader.saw = "nothing" /\ (kstream.done \/ Asked(kstream) = 0)
    /\ kstream' = [kstream EXCEPT !.done = TRUE]
    /\ kreader' = [kreader EXCEPT !.saw = IF kstream.error THEN "error" ELSE "eof"]

\* Next: one page.  When it is empty Next ends the stream, or asks again.
StreamNext ==
    /\ kstream.open /\ kreader.saw = "nothing" /\ ~kstream.done /\ Asked(kstream) > 0
    /\ \E page \in Pages(kstream) :
         LET tuples == PageTuples(kstream, page)
             after == PageAfter(kstream, page)
         IN IF \E i \in DOMAIN tuples : Unconverted(tuples[i])
            THEN kstream' = Broken(kstream) /\ kreader' = [kreader EXCEPT !.saw = "error"]
            ELSE /\ kstream' = after
                 /\ kreader' = IF tuples = <<>> /\ after.done THEN [kreader EXCEPT !.saw = "eof"]
                               ELSE [kreader EXCEPT !.rows = @ \o tuples]

\* A List call fails: the server is away, or the continue token has expired.
StreamBreaks ==
    /\ kstream.open /\ kreader.saw = "nothing" /\ ~kstream.done /\ Asked(kstream) > 0
    /\ kstream' = Broken(kstream)
    /\ kreader' = [kreader EXCEPT !.saw = "error"]

StreamClose == kstream.open /\ kstream' = NoStream /\ kreader' = NothingRead

-----------------------------------------------------------------------------
(* The stream alone, for any list, columns, batch and limit *)

StreamInit == kstream = NoStream /\ kreader = NothingRead

\* Query calls newKubernetesResultStream with a limit other than 0.
StreamOpens ==
    \/ OpenStream(NoStream) \/ OpenStream(newEmptyKubernetesResultStream)
    \/ \E documents, columns : \E items \in Seq(documents), batch \in Nat, limit \in {NoLimit} \cup (Nat \ {0}) :
          OpenStream(newKubernetesResultStream(items, columns, batch, limit))

StreamStep == StreamOpens \/ StreamEnds \/ StreamNext \/ StreamBreaks \/ StreamClose
StreamSpec == StreamInit /\ [][StreamStep]_streamVars

\* How many of n objects a limit lets through.
Limited(n, limit) == IF limit # NoLimit /\ limit < n THEN limit ELSE n

\* A stream that ends has shown the objects that were there when it was opened,
\* in full and in order, or as many as the limit asked for, however the server
\* cut them into pages (result_stream.go).
EofComplete ==
    kreader.saw = "eof" =>
        kreader.rows = [i \in 1 .. Limited(Len(kstream.items), kstream.limit) |->
                           resourceTuple(kstream.items[i], kstream.columns)]

\* Between two pages the reader has the tuples of the objects before next and
\* the limit has counted them; a stream that is done without an error has shown
\* all that the limit lets through, and only such a stream is told to have ended.
IsStream(s) ==
    /\ DOMAIN s = {"open", "done", "error", "items", "columns", "next", "batch", "remaining", "limit"}
    /\ s.open /\ s.done \in BOOLEAN /\ s.error \in BOOLEAN
    /\ Len(s.items) \in Nat /\ s.next \in 1 .. Len(s.items) + 1 /\ s.batch \in Nat \ {0}
    /\ s.limit \in {NoLimit} \cup Nat

Counted(s) ==
    IF s.limit = NoLimit THEN s.remaining = NoLimit
    ELSE s.remaining \in Nat /\ s.remaining = s.limit - (s.next - 1)

Shown(s, n) == [i \in 1 .. n |-> resourceTuple(s.items[i], s.columns)]

ShownSoFar(s, r) ==
    /\ DOMAIN r = {"rows", "saw"} /\ r.rows = Shown(s, s.next - 1)
    /\ r.saw \in {"nothing", "eof", "error"}
    /\ s.error => s.done
    /\ s.done /\ ~s.error => s.next - 1 = Limited(Len(s.items), s.limit)
    /\ r.saw = "eof" => s.done /\ ~s.error

\* The inductive invariant of the stream.
StreamInv ==
    \/ kstream = NoStream /\ kreader = NothingRead
    \/ IsStream(kstream) /\ Counted(kstream) /\ ShownSoFar(kstream, kreader)
=============================================================================
