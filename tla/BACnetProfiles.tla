--------------------------- MODULE BACnetProfiles ---------------------------
(***************************************************************************)
(* How the BACnet provider compiles the profile documents of its           *)
(* configuration (internal/profile), which profile it selects for a        *)
(* device, and which tables it publishes (internal/catalog).               *)
(*                                                                         *)
(* A step that can fail yields the set of its one result, or no result.    *)
(* Names are trimmed and well formed; labels of an enumeration are         *)
(* compared without case in the code, and are canonical here.  A profile's *)
(* identifier is its place in the order of identifiers.  An option of a    *)
(* document is the empty set or the set of its value.  Which profiles a    *)
(* definition came from is left out: only messages tell.                   *)
(***************************************************************************)
EXTENDS Integers, Sequences, FiniteSets, SequencesExt, TLC

StandardProfileID == 2

\* Limits of identifiers (model.go).
MaximumDeviceInstance == 4194303
MaximumVendorIdentifier == 65535
MaximumObjectType == 1023
MaximumPropertyID == 4194303
MinimumProprietaryObjectType == 128

Absent == -1      \* a number that a selector leaves open; a text is then ""

Accept(ok, result) == IF ok THEN {result} ELSE {}

\* Step for each element in turn, each on the result of the one before.
Each(elements, start, Step(_, _)) ==
    FoldLeft(LAMBDA results, element : UNION {Step(result, element) : result \in results},
             {start}, elements)

\* The same for a set, where the order makes no difference.
EachOf(set, start, Step(_, _)) ==
    FoldSet(LAMBDA element, results : UNION {Step(result, element) : result \in results},
            {start}, set)

NoDuplicates(elements) == \A i, j \in DOMAIN elements : i # j => elements[i] # elements[j]

-----------------------------------------------------------------------------
(* select.go *)

Rank(s) ==
    IF s.device # Absent THEN 4
    ELSE IF s.firmware # "" THEN 3
    ELSE IF s.model # "" THEN 2
    ELSE IF s.vendor # Absent THEN 1
    ELSE 0

matches(s, identity) ==
    /\ s.vendor \in {Absent, identity.vendor} /\ s.device \in {Absent, identity.device}
    /\ s.model \in {"", identity.model} /\ s.firmware \in {"", identity.firmware}
    /\ s.namespace \in {"", identity.namespace} /\ s.scope \in {"", identity.scope}

\* Two selectors that no field keeps apart.
selectorsOverlap(left, right) ==
    /\ left.vendor = Absent \/ right.vendor = Absent \/ left.vendor = right.vendor
    /\ left.device = Absent \/ right.device = Absent \/ left.device = right.device
    /\ \A f \in {"model", "firmware", "namespace", "scope"} :
          left[f] = "" \/ right[f] = "" \/ left[f] = right[f]

Selectable(p) == ~p.abstract /\ p.id # StandardProfileID

SelectorPairs(p, q) == {<<p.selectors[i], q.selectors[j]>> : i \in DOMAIN p.selectors, j \in DOMAIN q.selectors}

validateSelectorAmbiguity(profiles) ==
    \A p, q \in {profiles[id] : id \in DOMAIN profiles} :
        p.id < q.id /\ Selectable(p) /\ Selectable(q) =>
            \A pair \in SelectorPairs(p, q) :
                Rank(pair[1]) = Rank(pair[2]) => ~selectorsOverlap(pair[1], pair[2])

validateInheritancePrecedence(profiles) ==
    \A child \in {profiles[id] : id \in DOMAIN profiles} :
        Selectable(child) =>
            \A parentID \in child.extends : Selectable(profiles[parentID]) =>
                \A pair \in SelectorPairs(child, profiles[parentID]) :
                    selectorsOverlap(pair[1], pair[2]) => Rank(pair[1]) > Rank(pair[2])

\* The rank at which a profile matches an identity, 0 when it does not.
CandidateRank(p, identity) ==
    Max({0} \cup {Rank(p.selectors[i]) : i \in {j \in DOMAIN p.selectors : matches(p.selectors[j], identity)}})

\* Catalog.Select: profiles in the order of their identifiers, an error as soon
\* as one matches at the rank of the best so far.
Select(profiles, identity) ==
    LET candidates == {id \in DOMAIN profiles :
                          Selectable(profiles[id]) /\ CandidateRank(profiles[id], identity) > 0}
        best == Each(SetToSortSeq(candidates, <), [id |-> StandardProfileID, rank |-> 0],
                     LAMBDA selected, id :
                        LET rank == CandidateRank(profiles[id], identity)
                        IN Accept(rank # selected.rank,
                                  IF rank > selected.rank THEN [id |-> id, rank |-> rank] ELSE selected))
    IN {selected.id : selected \in best}

-----------------------------------------------------------------------------
(* compiler.go: columns *)

LogicalTypes == {"STRING", "VARBINARY", "BOOLEAN", "BYTE", "SHORT", "INTEGER", "LONG", "BIGINTEGER",
                 "FLOAT", "DOUBLE", "BIGDECIMAL", "DATE", "TIME", "TIMESTAMP", "JSON"}

\* compatibleTypes: the logical types of a BACnet type.
LogicalTypesOf ==
    [boolean |-> {"BOOLEAN"}, unsigned |-> {"INTEGER", "LONG", "BIGINTEGER"},
     signed |-> {"INTEGER", "LONG", "BIGINTEGER"}, real |-> {"FLOAT", "DOUBLE", "BIGDECIMAL"},
     double |-> {"DOUBLE", "BIGDECIMAL"}, octetstring |-> {"VARBINARY"}, character |-> {"STRING"},
     bitstring |-> {"VARBINARY", "STRING"}, enumerated |-> {"STRING", "INTEGER", "LONG"},
     date |-> {"DATE", "STRING"}, time |-> {"TIME", "STRING"}, objectid |-> {"STRING"}]

compatibleTypes(native, logical) ==
    native \in DOMAIN LogicalTypesOf /\ logical \in LogicalTypesOf[native]

WritableTypes ==
    {"boolean", "unsigned", "signed", "real", "double", "octetstring", "character", "enumerated"}

\* The write policies of a column; none when the document has none.
compileWritePolicy(input, table, objectTypes) ==
    IF input.write = {} THEN {{}}
    ELSE LET write == CHOOSE w \in input.write : TRUE
             names == ToSet(write.objectTypes)
         IN Accept(/\ ~input.array /\ input.native \in WritableTypes
                   /\ names # {} /\ NoDuplicates(write.objectTypes)
                   /\ names \subseteq DOMAIN objectTypes
                   /\ table.all \/ names \subseteq table.objectTypes,
                   {[objectTypes |-> names, commandable |-> write.commandable]})

\* Labels of an enumeration are not empty and differ.
ValidEnum(input) ==
    /\ DOMAIN input.enum # {} => input.native = "enumerated"
    /\ \A n \in DOMAIN input.enum : input.enum[n] # ""
    /\ \A n, k \in DOMAIN input.enum : n # k => input.enum[n] # input.enum[k]

compileColumn(input, table, objectTypes) ==
    UNION {Accept(/\ input.property.id <= MaximumPropertyID
                  /\ input.type \in LogicalTypes /\ compatibleTypes(input.native, input.type)
                  /\ ValidEnum(input),
                  [name |-> input.name, property |-> input.property, native |-> input.native,
                   type |-> input.type, array |-> input.array,
                   nullable |-> IF input.nullable = {} THEN ~input.required
                                ELSE CHOOSE b \in input.nullable : TRUE,
                   required |-> input.required, enum |-> input.enum, write |-> write]) :
           write \in compileWritePolicy(input, table, objectTypes)}

\* Columns are equivalent when they are equal.
mergeColumn(table, column, override) ==
    IF column.name \notin DOMAIN table.columns
    THEN Accept(~override, [table EXCEPT !.columns = @ @@ (column.name :> column)])
    ELSE Accept(override \/ table.columns[column.name] = column,
                [table EXCEPT !.columns = (column.name :> column) @@ @])

-----------------------------------------------------------------------------
(* compiler.go: profiles.  A builder has the object types by name and the   *)
(* tables by name.                                                          *)

NewBuilder == [objectTypes |-> <<>>, tables |-> <<>>]

mergeObjectType(b, t) ==
    IF t.name \in DOMAIN b.objectTypes THEN Accept(b.objectTypes[t.name] = t.id, b)
    ELSE Accept(\A name \in DOMAIN b.objectTypes : b.objectTypes[name] # t.id,
                [b EXCEPT !.objectTypes = @ @@ (t.name :> t.id)])

WithTable(b, name, tables) ==
    {[b EXCEPT !.tables = (name :> table) @@ @] : table \in tables}

mergeTable(b, name, candidate) ==
    LET existing == IF name \in DOMAIN b.tables THEN b.tables[name]
                    ELSE [all |-> candidate.all, objectTypes |-> {}, columns |-> <<>>]
        widened == [existing EXCEPT !.objectTypes = @ \cup candidate.objectTypes]
    IN IF existing.all # candidate.all THEN {}
       ELSE WithTable(b, name,
                EachOf({candidate.columns[c] : c \in DOMAIN candidate.columns}, widened,
                     LAMBDA table, column : mergeColumn(table, column, FALSE)))

mergeParent(b, parent) ==
    UNION {EachOf(DOMAIN parent.tables, typed,
                LAMBDA builder, name : mergeTable(builder, name, parent.tables[name])) :
           typed \in EachOf(DOMAIN parent.objectTypes, b,
                          LAMBDA builder, name :
                              mergeObjectType(builder, [name |-> name, id |-> parent.objectTypes[name]]))}

\* The table a document adds to or makes, before its columns.
TableFor(b, input) ==
    IF input.name \notin DOMAIN b.tables
    THEN Accept(input.all \/ input.objectTypes # {},
                [all |-> input.all, objectTypes |-> input.objectTypes, columns |-> <<>>])
    ELSE LET table == b.tables[input.name]
         IN IF input.all THEN {[table EXCEPT !.all = TRUE, !.objectTypes = {}]}
            ELSE Accept(~table.all \/ input.objectTypes = {},
                        [table EXCEPT !.objectTypes = @ \cup input.objectTypes])

applyTable(b, input) ==
    IF \/ input.all /\ input.objectTypes # {}
       \/ ~(input.objectTypes \subseteq DOMAIN b.objectTypes)
       \/ \E i, j \in DOMAIN input.columns : i # j /\ input.columns[i].name = input.columns[j].name
    THEN {}
    ELSE WithTable(b, input.name,
            UNION {Each(input.columns, start,
                        LAMBDA table, column :
                            UNION {mergeColumn(table, compiled, column.override) :
                                   compiled \in compileColumn(column, table, b.objectTypes)}) :
                   start \in TableFor(b, input)})

\* The object types and tables of a document, over those of its parents.
Apply(b, doc) ==
    IF \/ \E i \in DOMAIN doc.objectTypes :
             \/ doc.objectTypes[i].id > MaximumObjectType
             \/ doc.id # StandardProfileID /\ doc.objectTypes[i].id < MinimumProprietaryObjectType
       \/ \E i, j \in DOMAIN doc.objectTypes :
             i # j /\ (doc.objectTypes[i].name = doc.objectTypes[j].name \/ doc.objectTypes[i].id = doc.objectTypes[j].id)
       \/ \E i, j \in DOMAIN doc.tables : i # j /\ doc.tables[i].name = doc.tables[j].name
    THEN {}
    ELSE UNION {Each(doc.tables, typed, applyTable) :
                typed \in Each(doc.objectTypes, b, mergeObjectType)}

ValidSelector(s) ==
    /\ s.vendor <= MaximumVendorIdentifier /\ s.device <= MaximumDeviceInstance
    /\ Rank(s) # 0
    /\ s.model # "" => s.vendor # Absent
    /\ s.firmware # "" => s.model # ""
    /\ s.device # Absent \/ s.vendor # Absent
    /\ IF s.device = Absent THEN s.namespace = "" /\ s.scope = "" ELSE s.namespace # "" /\ s.scope # ""

compileSelectors(selectors) ==
    NoDuplicates(selectors) /\ \A i \in DOMAIN selectors : ValidSelector(selectors[i])

freeze(b, doc) ==
    Accept(/\ compileSelectors(doc.selectors)
           /\ \A name \in DOMAIN b.tables :
                 /\ DOMAIN b.tables[name].columns # {}
                 /\ b.tables[name].all \/ b.tables[name].objectTypes # {},
           [id |-> doc.id, abstract |-> doc.abstract, extends |-> ToSet(doc.extends),
            selectors |-> doc.selectors, objectTypes |-> b.objectTypes, tables |-> b.tables])

\* A profile, compiled after its parents; a cycle of parents has no result.
RECURSIVE compileProfile(_, _, _)
compileProfile(id, docs, visiting) ==
    IF id \in visiting \/ id \notin DOMAIN docs THEN {}
    ELSE LET doc == docs[id]
             inherited == Each(SetToSortSeq(ToSet(doc.extends), <), NewBuilder,
                               LAMBDA b, parentID :
                                   UNION {mergeParent(b, parent) :
                                          parent \in compileProfile(parentID, docs, visiting \cup {id})})
         IN UNION {freeze(b, doc) : b \in UNION {Apply(p, doc) : p \in inherited}}

RECURSIVE inheritsStandard(_, _, _)
inheritsStandard(id, docs, visiting) ==
    \/ id = StandardProfileID
    \/ /\ id \notin visiting /\ id \in DOMAIN docs
       /\ \E parent \in ToSet(docs[id].extends) : inheritsStandard(parent, docs, visiting \cup {id})

normalizeDocument(doc) ==
    /\ doc.abstract => doc.selectors = <<>>
    /\ doc.id # StandardProfileID /\ ~doc.abstract => doc.selectors # <<>>
    /\ doc.id \notin ToSet(doc.extends) /\ NoDuplicates(doc.extends)

\* One column has one logical type in all concrete profiles.
validateCatalogCompatibility(profiles) ==
    \A p, q \in {profiles[id] : id \in DOMAIN profiles} :
        ~p.abstract /\ ~q.abstract =>
            \A t \in DOMAIN p.tables \cap DOMAIN q.tables :
                \A c \in DOMAIN p.tables[t].columns \cap DOMAIN q.tables[t].columns :
                    /\ p.tables[t].columns[c].type = q.tables[t].columns[c].type
                    /\ p.tables[t].columns[c].array = q.tables[t].columns[c].array

\* compile: all profiles of a catalog by identifier, or no result.
compile(input) ==
    LET docs == [id \in {input[i].id : i \in DOMAIN input} |->
                    input[CHOOSE i \in DOMAIN input : input[i].id = id]]
        ids == DOMAIN docs
        compiled == [id \in ids |-> compileProfile(id, docs, {})]
        profiles == [id \in ids |-> CHOOSE p \in compiled[id] : TRUE]
    IN Accept(/\ \A i \in DOMAIN input : normalizeDocument(input[i])
              /\ Cardinality(ids) = Len(input)
              /\ StandardProfileID \in ids
              /\ LET base == docs[StandardProfileID]
                 IN ~base.abstract /\ base.selectors = <<>> /\ base.extends = <<>>
              /\ \A id \in ids : inheritsStandard(id, docs, {}) /\ compiled[id] # {}
              /\ validateInheritancePrecedence(profiles)
              /\ validateSelectorAmbiguity(profiles)
              /\ validateCatalogCompatibility(profiles),
              profiles)

-----------------------------------------------------------------------------
(* catalog.go: the published tables *)

ScopesTable == "SCOPES"
DevicesTable == "DEVICES"
DeviceObjectsTable == "DEVICE_OBJECTS"
ObjectsTable == "OBJECTS"

objectIdentityColumns == {"namespace", "scope_id", "device_instance", "object_type", "object_instance"}
providerOwnedColumns == objectIdentityColumns \cup {"identifier", "observed_at"}

ColumnMetadata(type, nullable, searchable) ==
    [type |-> type, array |-> FALSE, nullable |-> nullable, updatable |-> FALSE,
     searchable |-> searchable, generated |-> FALSE]

\* MustAddStablePrimaryKey: the key column that the engine generates.
StableKey == [ColumnMetadata("STRING", FALSE, FALSE) EXCEPT !.generated = TRUE]

\* Without the times of the last attempt and of the snapshot.
scopeMetadata ==
    [updatable |-> FALSE, columns |->
        [identifier |-> StableKey,
         namespace |-> ColumnMetadata("STRING", FALSE, TRUE), scope_id |-> ColumnMetadata("STRING", FALSE, TRUE),
         attachment_id |-> ColumnMetadata("STRING", FALSE, FALSE),
         last_success_at |-> ColumnMetadata("TIMESTAMP", TRUE, FALSE),
         device_count |-> ColumnMetadata("INTEGER", FALSE, FALSE),
         duplicate_device_count |-> ColumnMetadata("INTEGER", FALSE, FALSE)]]

\* Of the identity that discovery read, the vendor and the model.
deviceMetadata ==
    [updatable |-> FALSE, columns |->
        [identifier |-> StableKey,
         namespace |-> ColumnMetadata("STRING", FALSE, TRUE), scope_id |-> ColumnMetadata("STRING", FALSE, TRUE),
         device_instance |-> ColumnMetadata("INTEGER", FALSE, TRUE),
         attachment_id |-> ColumnMetadata("STRING", FALSE, FALSE),
         profile_id |-> ColumnMetadata("STRING", TRUE, FALSE),
         vendor_identifier |-> ColumnMetadata("INTEGER", TRUE, FALSE),
         model_name |-> ColumnMetadata("STRING", TRUE, FALSE)]]

validateProfileColumn(tableName, column) ==
    IF column.name = "object_type" /\ tableName = ObjectsTable
    THEN column.type = "STRING" /\ ~column.array
    ELSE column.name \notin providerOwnedColumns

\* profileColumnMetadata: a column of a table over the profiles that have the
\* table.
PublishedColumn(name, tables) ==
    LET columns == {t.columns[name] : t \in {u \in tables : name \in DOMAIN u.columns}}
        first == CHOOSE c \in columns : TRUE
    IN [type |-> first.type, array |-> first.array,
        nullable |-> (\E c \in columns : c.nullable) \/ \E t \in tables : name \notin DOMAIN t.columns,
        updatable |-> \E c \in columns : c.write # {},
        searchable |-> name = "object_identifier", generated |-> FALSE]

profileTableMetadata(tables) ==
    LET declared == UNION {DOMAIN t.columns : t \in tables} \ {"object_type"}
        published == [name \in declared |-> PublishedColumn(name, tables)]
    IN [updatable |-> \E t \in tables : \E c \in DOMAIN t.columns : t.columns[c].write # {},
        columns |-> published @@
            [identifier |-> StableKey,
             namespace |-> ColumnMetadata("STRING", FALSE, TRUE), scope_id |-> ColumnMetadata("STRING", FALSE, TRUE),
             device_instance |-> ColumnMetadata("INTEGER", FALSE, TRUE),
             object_type |-> ColumnMetadata("STRING", FALSE, TRUE),
             object_instance |-> ColumnMetadata("INTEGER", FALSE, TRUE),
             observed_at |-> ColumnMetadata("TIMESTAMP", FALSE, FALSE)]]

\* buildMetadata: the union of the concrete profiles, or no result.
buildMetadata(profiles) ==
    LET concrete == {profiles[id] : id \in {i \in DOMAIN profiles : ~profiles[i].abstract}}
        names == UNION {DOMAIN p.tables : p \in concrete}
        Declaring(name) == {p \in concrete : name \in DOMAIN p.tables}
        consistent(name) ==
            \A p, q \in Declaring(name) :
                \A t \in p.tables[name].objectTypes \cap q.tables[name].objectTypes :
                    p.objectTypes[t] = q.objectTypes[t]
    IN Accept(/\ names \cap {ScopesTable, DevicesTable} = {}
              /\ \A name \in names : consistent(name)
              /\ \A p \in concrete : \A t \in DOMAIN p.tables : \A c \in DOMAIN p.tables[t].columns :
                    validateProfileColumn(t, p.tables[t].columns[c]),
              [name \in names |-> profileTableMetadata({p.tables[name] : p \in Declaring(name)})]
              @@ (ScopesTable :> scopeMetadata) @@ (DevicesTable :> deviceMetadata))
=============================================================================
