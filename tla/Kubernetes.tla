----------------------------- MODULE Kubernetes -----------------------------
(***************************************************************************)
(* The Kubernetes provider at work: the catalog it publishes, queries that *)
(* list a resource page by page, and mutations that create, patch, update  *)
(* and delete objects, while API groups come and go and other clients of   *)
(* the cluster write too.  The API server is external.                     *)
(*                                                                         *)
(* An object is a document: a function from the paths of its leaves to     *)
(* values.  An object of the cluster is found at <<gv, resource, namespace, *)
(* name>>, with namespace "" when it is not namespaced.                    *)
(***************************************************************************)
EXTENDS KubernetesSchema, KubernetesStream, Relational, TLC, Functions

CONSTANTS
    RawConfigs,          \* the configurations that are tried
    KubeRequests,        \* the calls that are made; a call names its table by the
                         \* resource that the published catalog shows under it
    OtherKeys, OtherDocs,  \* the objects that other clients write, what they merge into them
    DefaultNamespace,    \* of the kubeconfig context
    Versions,            \* of the OpenAPI document
    KubeSeed,            \* the objects at the start
    MaxSteps, MaxOther, MaxFaults   \* bounds

VARIABLES
    config,       \* the accepted configuration
    failed,       \* groups that discovery does not reach
    version,      \* of the OpenAPI document the server has, or NoDocument
    cache,        \* openAPISchemaCache: the document it holds, and its URL
    published,    \* the catalog that the engine holds: where its tables come from, and
                  \* (history) which groups the discovery behind it had missed
    objects,      \* the cluster
    revision,     \* its last resource version
    pending,      \* an update between its Get and its Update
    answer,       \* of the last call
    ksteps, others, faults

kubeVars == <<config, failed, version, cache, published, objects, revision, kstream, kreader,
              pending, answer, ksteps, others, faults>>

\* Discovery may miss a group at any time.
Outages == {{Resources[i].gv} : i \in DOMAIN Resources}

NoUpdate == [on |-> FALSE]
NoAnswer == [kind |-> "none"]
NoCache == [url |-> NoDocument, document |-> NoDocument]

KubeInit ==
    /\ config \in {normalizeConfig(raw) : raw \in RawConfigs} \ {Rejected}
    /\ failed \in {{}} \cup Outages /\ version \in Versions /\ cache = NoCache /\ published = <<>>
    /\ objects = KubeSeed /\ revision = 1
    /\ kstream = NoStream /\ kreader = NothingRead /\ pending = NoUpdate /\ answer = NoAnswer
    /\ ksteps = 0 /\ others = 0 /\ faults = 0

-----------------------------------------------------------------------------
(* Documents *)

Leaf(value) == [p \in {<<>>} |-> value]
Missing == [form |-> "missing"]

Put(doc, path, sub) ==
    [q \in {path \o r : r \in DOMAIN sub} |-> sub[SubSeq(q, Len(path) + 1, Len(q))]]
        @@ Restrict(doc, DOMAIN doc \ Under(doc, path))

Name(doc) == Text1(doc, <<"metadata", "name">>)
Namespace(doc) == Text1(doc, <<"metadata", "namespace">>)
ResourceVersion(doc) == Text1(doc, <<"metadata", "resourceVersion">>)

\* SetName and the like: a document whose metadata is no object stays as it is.
SetText(doc, path, v) ==
    CASE Above(doc, path) # {} -> doc
      [] v = "" -> Restrict(doc, DOMAIN doc \ Under(doc, path))
      [] OTHER -> Put(doc, path, Leaf(Val("string", v)))

\* SetNestedField: an error where a field on the way is no object.
SetNestedField(result, path, value) ==
    IF ~result.ok \/ Above(result.doc, path) # {} THEN Rejected
    ELSE [ok |-> TRUE, doc |-> Put(result.doc, path, value)]

-----------------------------------------------------------------------------
(* The API server.  Merge patches follow RFC 7386; an update must name the  *)
(* resource version it was made from.                                       *)

MergePatch(doc, patch) ==
    LET gone == UNION {Under(doc, p) \cup Above(doc, p) : p \in DOMAIN patch}
    IN Restrict(patch, {p \in DOMAIN patch : patch[p].kind # "null"})
         @@ Restrict(doc, DOMAIN doc \ gone)

Revised(doc, r) == SetText(doc, <<"metadata", "resourceVersion">>, ToString(r))
Stored(key, doc) ==
    /\ objects' = (key :> Revised(doc, revision + 1)) @@ objects
    /\ revision' = revision + 1
Conflicts(key, doc) == ResourceVersion(doc) \notin {"", ResourceVersion(objects[key])}

-----------------------------------------------------------------------------
(* provider.go, openapi_schema.go: the catalog *)

\* The resolver answers with the cached document while its URL is the server's,
\* which changes with the document; otherwise it fetches and keeps the new one.
CurrentDocument(c) ==
    IF version = NoDocument THEN [document |-> NoDocument, cache |-> c]
    ELSE IF c.document # NoDocument /\ c.url = version THEN [document |-> c.document, cache |-> c]
    ELSE [document |-> version, cache |-> [url |-> version, document |-> version]]

Expands == config.schema.depth > 0 \/ \E k \in DOMAIN config.schema.overrides : config.schema.overrides[k] > 0
Resolver == IF Expands THEN CurrentDocument(cache) ELSE [document |-> NoDocument, cache |-> cache]

Entity(table) ==
    [resource |-> table.resource, namespace |-> table.namespace, name |-> table.name, missed |-> failed]

\* Metadata fails when no table is left, or one cannot take its namespace column.
Metadata ==
    LET tables == buildMetadataWithSchema(config, failed, Resolver.document)
        ok == tables # <<>> /\ \A i \in DOMAIN tables : tables[i].ok
    IN /\ ksteps < MaxSteps
       /\ published' = IF ok THEN [i \in DOMAIN tables |-> Entity(tables[i])] ELSE published
       /\ cache' = Resolver.cache
       /\ answer' = NoAnswer /\ ksteps' = ksteps + 1
       /\ UNCHANGED <<config, failed, version, objects, revision, kstream, kreader, pending, others, faults>>

\* Mutant: a table is found by its name alone.
resolveResourceByName(entity) ==
    LET descriptors == Descriptors(config, failed)
        names == assignTableNames(descriptors)
        found == {i \in DOMAIN descriptors : names[i] = entity.name}
    IN IF found = {} THEN Rejected
       ELSE LET i == CHOOSE j \in found : TRUE
            IN configuredTableMetadata(config, descriptors[i], names[i], Resolver.document)

\* query.go: the entity is looked up in a discovery of its own.
resolveResource(entity) ==
    LET descriptors == Descriptors(config, failed)
        names == assignTableNames(descriptors)
        found == {i \in DOMAIN descriptors :
                    /\ names[i] = entity.name
                    /\ expectedEntityNamespace(config, descriptors[i]) = entity.namespace}
    IN IF found = {} THEN Rejected
       ELSE LET i == CHOOSE j \in found : TRUE
            IN configuredTableMetadata(config, descriptors[i], names[i], Resolver.document)

-----------------------------------------------------------------------------
(* query.go: criteria, and where they lead *)

NoCriteria == [ok |-> TRUE, name |-> {}, namespace |-> {}]

fieldStringComparison(field, literal) ==
    field.op = "field" /\ literal.op = "lit" /\ literal.value.kind = "string"

\* Equalities of name and namespace with strings, under AND.
RECURSIVE collectQueryCriteria(_)
collectQueryCriteria(e) ==
    IF e.op = "and"
    THEN LET parts == [i \in DOMAIN e.args |-> collectQueryCriteria(e.args[i])]
         IN IF Len(e.args) < 2 \/ \E i \in DOMAIN parts : ~parts[i].ok THEN Rejected
            ELSE [ok |-> TRUE, name |-> UNION {parts[i].name : i \in DOMAIN parts},
                  namespace |-> UNION {parts[i].namespace : i \in DOMAIN parts}]
    ELSE IF e.op # "cmp" THEN Rejected
    ELSE LET straight == fieldStringComparison(e.left, e.right)
             field == IF straight THEN e.left ELSE e.right
             literal == IF straight THEN e.right ELSE e.left
         IN CASE e.cmp # "=" \/ (~straight /\ ~fieldStringComparison(e.right, e.left)) -> Rejected
              [] field.name = <<"metadata", "name">> -> [NoCriteria EXCEPT !.name = {literal.value.v}]
              [] field.name = <<"metadata", "namespace">> -> [NoCriteria EXCEPT !.namespace = {literal.value.v}]
              [] OTHER -> Rejected

planQueryCriteria(filter) == IF filter = NoFilter THEN NoCriteria ELSE collectQueryCriteria(filter)

\* mergeQueryCriterion: two values for one column select nothing.
Empty(criteria) == Cardinality(criteria.name) > 1 \/ Cardinality(criteria.namespace) > 1

\* The namespaces that are listed; {} is an error.
AllNamespaces == "*"
queryNamespace(criteria) ==
    CASE criteria.namespace # {} -> criteria.namespace \ {""}
      [] config.strategy = "DEFAULT" -> {DefaultNamespace}
      [] config.strategy = "ALL" -> {AllNamespaces}
      [] OTHER -> {}

mutationNamespace(explicit) ==
    CASE explicit # {} -> explicit \ {""}
      [] config.strategy = "DEFAULT" -> {DefaultNamespace} \ {""}
      [] OTHER -> {}

\* The objects a query or a mutation is about: "bad" filters are refused, and
\* "none" is the empty answer.
QueryScope(resource, filter) ==
    LET criteria == planQueryCriteria(filter)
        namespaces == queryNamespace(criteria)
    IN CASE ~criteria.ok -> [kind |-> "bad"]
         [] Empty(criteria) -> [kind |-> "none"]
         [] resource.namespaced /\ namespaces = {} -> [kind |-> "bad"]
         [] ~resource.namespaced /\ criteria.namespace # {} -> [kind |-> "none"]
         [] OTHER -> [kind |-> "list", name |-> criteria.name,
                      namespace |-> IF resource.namespaced THEN CHOOSE n \in namespaces : TRUE ELSE ""]

resolveMutationTarget(resource, filter) ==
    LET criteria == planQueryCriteria(filter)
        namespaces == mutationNamespace(criteria.namespace)
    IN CASE ~criteria.ok -> [kind |-> "bad"]
         [] Empty(criteria) -> [kind |-> "none"]
         [] criteria.name \in {{}, {""}} -> [kind |-> "bad"]
         [] resource.namespaced /\ namespaces = {} -> [kind |-> "bad"]
         [] ~resource.namespaced /\ criteria.namespace # {} -> [kind |-> "none"]
         [] OTHER -> [kind |-> "one", name |-> CHOOSE n \in criteria.name : TRUE,
                      namespace |-> IF resource.namespaced THEN CHOOSE n \in namespaces : TRUE ELSE ""]

ColumnOf(table, name) == {i \in DOMAIN table.columns : table.columns[i].name = name}

\* All columns, or the fields that are asked for, all of which must exist.
planQueryProjections(table, fields) ==
    IF fields = <<>> THEN [ok |-> TRUE, columns |-> table.columns]
    ELSE IF \E i \in DOMAIN fields : ColumnOf(table, fields[i]) = {} THEN Rejected
    ELSE [ok |-> TRUE, columns |-> [i \in DOMAIN fields |->
            table.columns[CHOOSE j \in ColumnOf(table, fields[i]) : TRUE]]]

-----------------------------------------------------------------------------
(* query.go: the call; KubernetesStream has the stream it opens *)

\* The objects of a list call in the order of their keys, frozen at the revision of the first page.
ListOf(resource, scope) ==
    LET keys == {k \in DOMAIN objects :
            /\ k[1] = resource.gv /\ k[2] = resource.name
            /\ scope.namespace \in {AllNamespaces, k[3]}
            /\ scope.name \in {{}, {k[4]}}}
        ordered == SetToSeq(keys)
    IN [i \in DOMAIN ordered |-> objects[ordered[i]]]

Refuse(code) == [kind |-> "error", code |-> code]

\* What every call does first: the table the engine knows is looked up as
\* discovery shows it now.  bound is the resource that was found, asked the one
\* it was meant to be, and (history) missed and misses are the groups that
\* discovery had missed and misses now.
Resolved(entity, found) ==
    [asked |-> entity.resource, found |-> found.ok, missed |-> entity.missed,
     table |-> IF found.ok THEN found ELSE [resource |-> entity.resource, columns |-> <<>>]]
Calls(request) ==
    {Resolved(entity, resolveResource(entity)) :
        entity \in {t \in ToSet(published) : <<t.resource.gv, t.resource.name>> = request.table}}

\* NotFound, or the discovery error when the entity's group failed.
NotResolved(call) ==
    [kind |-> "unresolved", missed |-> call.missed, misses |-> failed,
     code |-> IF call.asked.gv \in failed /\ config.namespace = "" THEN "Unavailable" ELSE "NotFound"]

\* The answer to a call that was resolved, and what it is the answer to.
Answer(kind, n, request, call) ==
    [kind |-> kind, n |-> n, request |-> request, asked |-> call.asked, bound |-> call.table.resource,
     missed |-> call.missed, misses |-> failed]

Query(request, call) ==
    LET plan == planQueryProjections(call.table, request.fields)
        scope == QueryScope(call.table.resource, request.filter)
        refused == request.offset > 0 \/ ~plan.ok \/ scope.kind = "bad"
    IN /\ request.op = "query"
       /\ answer' = CASE request.offset > 0 -> Refuse("InvalidArgument")
                      [] ~call.found -> NotResolved(call)
                      [] refused -> Refuse("InvalidArgument")
                      [] OTHER -> Answer("stream", 0, [op |-> "query"], call)
       /\ OpenStream(IF ~call.found \/ refused THEN NoStream
                     ELSE IF request.limit = 0 \/ scope.kind = "none" THEN newEmptyKubernetesResultStream
                     ELSE newKubernetesResultStream(ListOf(call.table.resource, scope), plan.columns,
                                                    request.batch, request.limit))
       /\ cache' = IF call.found THEN Resolver.cache ELSE cache
       /\ ksteps' = ksteps + 1
       /\ UNCHANGED <<config, failed, version, published, objects, revision, pending, others, faults>>

\* The reader takes a page, or closes its stream.
Reads ==
    /\ StreamEnds \/ StreamNext \/ StreamClose
    /\ UNCHANGED <<config, failed, version, cache, published, objects, revision, pending, answer,
                   ksteps, others, faults>>

ListFails ==
    /\ StreamBreaks
    /\ faults < MaxFaults /\ faults' = faults + 1
    /\ UNCHANGED <<config, failed, version, cache, published, objects, revision, pending, answer, ksteps, others>>

-----------------------------------------------------------------------------
(* mutation.go: values and identity *)

\* A literal as a document: null, JSON, or a scalar of the column's type.
kubernetesMutationValue(value, type) ==
    CASE value.kind = "null" -> [ok |-> TRUE, doc |-> Leaf(NullLeaf)]
      [] value.kind = "json" /\ type = "json" -> [ok |-> TRUE, doc |-> value.doc]
      [] value.kind = type -> [ok |-> TRUE, doc |-> Leaf(IF type = "long" THEN Val("integer", value.v) ELSE value)]
      [] OTHER -> Rejected

jsonObject(value) == value.kind = "json" /\ IsObject(value.doc)

\* A column of the whole object goes with columns of its identity only.
validateObjectMutationColumns(columns) ==
    (\E i \in DOMAIN columns : columns[i].path = <<>>) =>
        \A i \in DOMAIN columns : columns[i].path \in
            {<<>>, <<"apiVersion">>, <<"kind">>, <<"metadata", "name">>, <<"metadata", "namespace">>}

\* The columns of fields: each exists, once, and may be written.
mutationColumns(table, fields) ==
    LET columns == [i \in DOMAIN fields |-> table.columns[CHOOSE j \in ColumnOf(table, fields[i]) : TRUE]]
    IN IF \/ fields = <<>> \/ ~IsInjective(fields)
          \/ \E i \in DOMAIN fields : ColumnOf(table, fields[i]) = {}
          \/ \E i \in DOMAIN fields : ~columns[i].updatable
          \/ ~validateObjectMutationColumns(columns)
       THEN Rejected ELSE [ok |-> TRUE, columns |-> columns]

normalizeResourceIdentity(resource, doc, forced) ==
    LET kind == Text1(doc, <<"kind">>)
        api == Text1(doc, <<"apiVersion">>)
        stated == Namespace(doc)
        filled == mutationNamespace(IF forced = "" THEN {} ELSE {forced})
        namespace == IF stated # "" THEN stated ELSE CHOOSE n \in filled : TRUE
        typed == SetText(SetText(doc, <<"apiVersion">>, resource.gv), <<"kind">>, resource.kind)
    IN CASE api \notin {"", resource.gv} \/ kind \notin {"", resource.kind} -> Rejected
         [] resource.namespaced /\ stated # "" /\ forced \notin {"", stated} -> Rejected
         [] resource.namespaced /\ stated = "" /\ filled = {} -> Rejected
         [] resource.namespaced -> [ok |-> TRUE, doc |-> SetText(typed, <<"metadata", "namespace">>, namespace)]
         [] stated # "" \/ forced # "" -> Rejected
         [] OTHER -> [ok |-> TRUE, doc |-> typed]

\* A patch that says who it is for must say it right.
validateResourceIdentity(resource, doc, name, namespace) ==
    /\ Text1(doc, <<"apiVersion">>) \in {"", resource.gv} /\ Text1(doc, <<"kind">>) \in {"", resource.kind}
    /\ Name(doc) \in {"", name} /\ Namespace(doc) \in {"", namespace}

-----------------------------------------------------------------------------
(* Insert *)

Documents == {<<"metadata">>, <<"spec">>}
Identity == {<<"api_version">>, <<"kind">>, <<"metadata", "name">>, <<"metadata", "namespace">>}

\* The object, then the metadata and spec, then single fields, then identity.
buildInsertObject(resource, columns, values) ==
    LET base == {i \in DOMAIN columns : columns[i].name = <<"object">>}
        start == IF base = {} THEN <<>> ELSE values[CHOOSE i \in base : TRUE].doc
        named(names) == SetToSeq({i \in DOMAIN columns : columns[i].name \in names})
        fields == SetToSeq({i \in DOMAIN columns : columns[i].name \notin Documents \cup Identity \cup {<<"object">>}})
        documents == FoldLeft(LAMBDA doc, i : Put(doc, columns[i].name,
                                  kubernetesMutationValue(values[i], "json").doc), start, named(Documents))
        filled == FoldLeft(LAMBDA r, i : SetNestedField(r, columns[i].path,
                                  kubernetesMutationValue(values[i], columns[i].type).doc),
                           [ok |-> TRUE, doc |-> documents], fields)
        identified == FoldLeft(LAMBDA doc, i : SetText(doc, columns[i].path,
                                  IF values[i].kind = "null" THEN "" ELSE values[i].v), filled.doc, named(Identity))
        bad == \/ \E i \in base : ~jsonObject(values[i])
               \/ \E i \in ToSet(named({<<"metadata">>})) : ~jsonObject(values[i])
               \/ \E i \in ToSet(named({<<"spec">>})) : values[i].kind \notin {"null", "json"}
               \/ \E i \in ToSet(fields) : \/ ~kubernetesFieldPathWritable(columns[i].path)
                                           \/ ~kubernetesMutationValue(values[i], columns[i].type).ok
               \/ \E i \in ToSet(named(Identity)) :
                      IF values[i].kind = "null" THEN columns[i].name # <<"metadata", "namespace">>
                      ELSE values[i].kind # "string" \/ values[i].v = ""
    IN IF bad THEN Rejected
       ELSE IF ~filled.ok THEN Rejected
       ELSE LET object == normalizeResourceIdentity(resource, identified, "")
            IN IF ~object.ok THEN Rejected
               ELSE IF Name(object.doc) = "" /\ Text1(object.doc, <<"metadata", "generateName">>) = "" THEN Rejected
               ELSE object

\* The server finds a name for an object that has only a generateName.
Generated(object) ==
    IF object.ok => Name(object.doc) # "" THEN object
    ELSE [object EXCEPT !.doc = SetText(@, <<"metadata", "name">>, "generated")]

KeyOf(resource, namespace, name) == <<resource.gv, resource.name, namespace, name>>

\* One tuple after another, up to the first that fails; the ones before it stay,
\* and the caller has an error that does not count them ("cut").
Insert(request, call) ==
    LET resource == call.table.resource
        planned == mutationColumns(call.table, request.fields)
        built(i) == Generated(buildInsertObject(resource, planned.columns, request.tuples[i]))
        key(i) == KeyOf(resource, Namespace(built(i).doc), Name(built(i).doc))
        good(i) == /\ built(i).ok /\ key(i) \notin DOMAIN objects
                   /\ \A j \in 1 .. i - 1 : built(j).ok => key(j) # key(i)
        stop == {i \in DOMAIN request.tuples : ~good(i)}
        count == IF stop = {} THEN Len(request.tuples) ELSE Min(stop) - 1
    IN /\ request.op = "insert"
       /\ IF ~call.found \/ ~hasVerb(resource, "create") \/ ~planned.ok
          THEN /\ answer' = IF call.found THEN Refuse("InvalidArgument") ELSE NotResolved(call)
               /\ UNCHANGED <<objects, revision>>
          ELSE /\ answer' = Answer(IF stop # {} THEN "cut" ELSE "inserted", count, request, call)
               /\ objects' = FoldLeft(LAMBDA o, i : (key(i) :> Revised(built(i).doc, revision + i)) @@ o,
                                      objects, [i \in 1 .. count |-> i])
               /\ revision' = revision + count
       /\ ksteps' = ksteps + 1
       /\ UNCHANGED <<config, failed, version, cache, published, kstream, kreader, pending, others, faults>>

-----------------------------------------------------------------------------
(* Update *)

\* Assignments of literals to columns that exist, once, and may be written.
planMutationAssignments(table, assignments) ==
    LET fields == [i \in DOMAIN assignments |-> assignments[i].field]
        planned == mutationColumns(table, fields)
        value(i) == kubernetesMutationValue(assignments[i].value,
                        IF fields[i] \in Documents \cup {<<"object">>} THEN "json" ELSE planned.columns[i].type)
    IN IF ~planned.ok THEN Rejected
       ELSE IF \E i \in DOMAIN fields :
                 \/ ~value(i).ok
                 \/ fields[i] \in {<<"object">>, <<"metadata">>} /\ ~IsObject(value(i).doc)
                 \/ fields[i] \notin Documents \cup {<<"object">>}
                      /\ ~kubernetesFieldPathWritable(planned.columns[i].path)
            THEN Rejected
       ELSE [ok |-> TRUE, list |-> [i \in DOMAIN fields |->
               [path |-> planned.columns[i].path, value |-> value(i).doc]]]

hasObjectAssignment(list) == \E i \in DOMAIN list : list[i].path = <<>>
ObjectOf(list) == list[CHOOSE i \in DOMAIN list : list[i].path = <<>>].value

\* Fields of the document first, deeper ones after; the first list is in order.
Long(list) == SelectSeq(list, LAMBDA a : Len(a.path) > 1)
Short(list) == SelectSeq(list, LAMBDA a : Len(a.path) = 1)

applyPlannedPaths(doc, list) ==
    FoldLeft(LAMBDA r, a : SetNestedField(r, a.path, a.value),
             [ok |-> TRUE, doc |-> FoldLeft(LAMBDA d, a : Put(d, a.path, a.value), doc, Short(list))],
             Long(list))

buildMergePatch(resource, target, list) ==
    LET patch == applyPlannedPaths(IF hasObjectAssignment(list) THEN ObjectOf(list) ELSE <<>>, list)
    IN IF ~patch.ok THEN Rejected
       ELSE IF ~validateResourceIdentity(resource, patch.doc, target.name, target.namespace) THEN Rejected
       ELSE patch

\* Mutant: the object goes back without the resource version it was read at.
buildUpdatedObjectUnversioned(resource, target, list, current) ==
    LET set == applyPlannedPaths(SetText(current, <<"metadata", "resourceVersion">>, ""), list)
    IN IF ~set.ok THEN Rejected ELSE normalizeResourceIdentity(resource, set.doc, target.namespace)

\* The object to put: the given one, with the current resource version if it has
\* none, or the current one.  Of the fields at the root only metadata, which is
\* merged key by key, and spec are set.
buildUpdatedObject(resource, target, list, current) ==
    LET given == hasObjectAssignment(list)
        base == IF ~given THEN current
                ELSE IF ResourceVersion(ObjectOf(list)) # "" THEN ObjectOf(list)
                ELSE SetText(ObjectOf(list), <<"metadata", "resourceVersion">>, ResourceVersion(current))
        merged(doc, value) ==    \* of the keys of metadata
            LET keys == {p[1] : p \in DOMAIN value}
            IN Put(doc, <<"metadata">>, value @@ [p \in {q \in DOMAIN Sub(doc, <<"metadata">>) :
                   q # <<>> /\ q[1] \notin keys} |-> Sub(doc, <<"metadata">>)[p]])
        shallow == FoldLeft(LAMBDA d, a : CASE a.path = <<"metadata">> -> merged(d, a.value)
                                            [] a.path = <<"spec">> -> Put(d, a.path, a.value)
                                            [] OTHER -> d, base, Short(list))
        set == FoldLeft(LAMBDA r, a : SetNestedField(r, a.path, a.value),
                        [ok |-> TRUE, doc |-> shallow], Long(list))
    IN IF ~set.ok THEN Rejected
       ELSE LET named == IF Name(set.doc) = "" THEN SetText(set.doc, <<"metadata", "name">>, target.name) ELSE set.doc
                object == normalizeResourceIdentity(resource, named, target.namespace)
            IN IF ~object.ok THEN Rejected
               ELSE IF Name(object.doc) # target.name THEN Rejected ELSE object

Updated(n, request, call) == Answer("updated", n, request, call)

\* A merge patch where the resource has one, and it is not for a whole object;
\* otherwise the object is read (unless it was given with its version) and put
\* in a second call.
UpdateTarget(request, call, target, planned) ==
    LET resource == call.table.resource
        patches == hasVerb(resource, "patch")
        updates == hasVerb(resource, "update")
        key == KeyOf(resource, target.namespace, target.name)
        patch == buildMergePatch(resource, target, planned.list)
        blind == hasObjectAssignment(planned.list) /\ ResourceVersion(ObjectOf(planned.list)) # ""
        object == buildUpdatedObject(resource, target, planned.list,
                                     IF key \in DOMAIN objects THEN objects[key] ELSE <<>>)
    IN /\ CASE ~call.found -> answer' = NotResolved(call) /\ UNCHANGED <<objects, revision, pending>>
            [] ~patches /\ ~updates -> answer' = Refuse("FailedPrecondition") /\ UNCHANGED <<objects, revision, pending>>
            [] target.kind = "bad" -> answer' = Refuse("InvalidArgument") /\ UNCHANGED <<objects, revision, pending>>
            [] target.kind = "none" -> answer' = Updated(0, request, call) /\ UNCHANGED <<objects, revision, pending>>
            [] ~planned.ok -> answer' = Refuse("InvalidArgument") /\ UNCHANGED <<objects, revision, pending>>
            [] patches /\ (~updates \/ ~hasObjectAssignment(planned.list)) ->
                 /\ UNCHANGED pending
                 /\ CASE ~patch.ok -> answer' = Refuse("InvalidArgument") /\ UNCHANGED <<objects, revision>>
                      [] key \notin DOMAIN objects -> answer' = Updated(0, request, call) /\ UNCHANGED <<objects, revision>>
                      [] Conflicts(key, patch.doc) -> answer' = Refuse("Aborted") /\ UNCHANGED <<objects, revision>>
                      [] OTHER -> /\ answer' = Updated(1, request, call)
                                  /\ Stored(key, MergePatch(objects[key], patch.doc))
            [] OTHER ->
                 /\ UNCHANGED <<objects, revision>>
                 /\ CASE ~blind /\ key \notin DOMAIN objects -> answer' = Updated(0, request, call) /\ UNCHANGED pending
                      [] ~object.ok -> answer' = Refuse("InvalidArgument") /\ UNCHANGED pending
                      [] OTHER -> /\ answer' = NoAnswer
                                  /\ pending' = [on |-> TRUE, key |-> key, object |-> object.doc,
                                                 then |-> Updated(1, request, call)]
       /\ ksteps' = ksteps + 1
       /\ UNCHANGED <<config, failed, version, cache, published, kstream, kreader, others, faults>>

Update(request, call) ==
    /\ request.op = "update" /\ ~pending.on
    /\ \E target \in {resolveMutationTarget(call.table.resource, request.filter)},
          planned \in {planMutationAssignments(call.table, request.assignments)} :
             UpdateTarget(request, call, target, planned)

\* The second call of an update.
UpdatePut ==
    /\ pending.on /\ pending' = NoUpdate
    /\ CASE pending.key \notin DOMAIN objects ->
              answer' = [pending.then EXCEPT !.n = 0] /\ UNCHANGED <<objects, revision>>
         [] Conflicts(pending.key, pending.object) -> answer' = Refuse("Aborted") /\ UNCHANGED <<objects, revision>>
         [] OTHER -> answer' = pending.then /\ Stored(pending.key, pending.object)
    /\ UNCHANGED <<config, failed, version, cache, published, kstream, kreader, ksteps, others, faults>>

\* The answer to that call is lost: the caller has an error, whatever was done.
UpdateLost ==
    /\ pending.on /\ pending' = NoUpdate /\ faults < MaxFaults /\ faults' = faults + 1
    /\ answer' = Refuse("Unavailable")
    /\ \/ UNCHANGED <<objects, revision>>
       \/ /\ pending.key \in DOMAIN objects /\ ~Conflicts(pending.key, pending.object)
          /\ Stored(pending.key, pending.object)
    /\ UNCHANGED <<config, failed, version, cache, published, kstream, kreader, ksteps, others>>

Delete(request, call) ==
    LET resource == call.table.resource
        target == resolveMutationTarget(resource, request.filter)
        key == KeyOf(resource, target.namespace, target.name)
        there == target.kind = "one" /\ key \in DOMAIN objects
    IN /\ request.op = "delete"
       /\ answer' = CASE ~call.found -> NotResolved(call)
                      [] ~hasVerb(resource, "delete") -> Refuse("FailedPrecondition")
                      [] target.kind = "bad" -> Refuse("InvalidArgument")
                      [] OTHER -> Answer("deleted", IF there THEN 1 ELSE 0, request, call)
       /\ objects' = IF answer'.kind = "deleted" /\ there THEN Restrict(objects, DOMAIN objects \ {key}) ELSE objects
       /\ ksteps' = ksteps + 1
       /\ UNCHANGED <<config, failed, version, cache, published, revision, kstream, kreader, pending, others, faults>>

-----------------------------------------------------------------------------
(* The rest of the world *)

OtherWrites ==
    /\ others < MaxOther /\ others' = others + 1
    /\ \E key \in OtherKeys \cap DOMAIN objects :
          \/ \E doc \in OtherDocs : Stored(key, MergePatch(objects[key], doc))
          \/ objects' = Restrict(objects, DOMAIN objects \ {key}) /\ UNCHANGED revision
    /\ UNCHANGED <<config, failed, version, cache, published, kstream, kreader, pending, answer, ksteps, faults>>

GroupsChange ==
    /\ faults < MaxFaults /\ faults' = faults + 1
    /\ failed' \in ({{}} \cup Outages) \ {failed}
    /\ UNCHANGED <<config, version, cache, published, objects, revision, kstream, kreader, pending, answer,
                   ksteps, others>>

DocumentChanges ==
    /\ faults < MaxFaults /\ faults' = faults + 1
    /\ version' \in Versions \ {version}
    /\ UNCHANGED <<config, failed, cache, published, objects, revision, kstream, kreader, pending, answer,
                   ksteps, others>>

KubeNext ==
    \/ Metadata
    \/ /\ ksteps < MaxSteps
       /\ \E request \in KubeRequests : \E call \in Calls(request) :
             Query(request, call) \/ Insert(request, call) \/ Update(request, call) \/ Delete(request, call)
    \/ Reads \/ ListFails
    \/ UpdatePut \/ UpdateLost
    \/ OtherWrites \/ GroupsChange \/ DocumentChanges

-----------------------------------------------------------------------------
(* Properties *)

\* The name of a resource's table in a discovery that misses some groups.
NameAt(resource, missed) ==
    LET descriptors == Descriptors(config, missed)
        names == assignTableNames(descriptors)
    IN {names[i] : i \in {j \in DOMAIN descriptors : descriptors[j] = resource}}

Resolving == {"stream", "inserted", "cut", "updated", "deleted"}

\* A call on a table of the published catalog reaches the resource that the
\* catalog showed under that name, or fails (resolveResource names tables afresh
\* for every call).  While discovery reaches the groups it reached for the
\* catalog the table is always found and is always that one.  When it reaches
\* others a kind may be qualified that was not, or the other way round, and a
\* name may have gone from one resource to another (Event and EvIoEvent of ev.io
\* are both called EV_IO_EVENT, with the core group and without it): then, and
\* only when that name is no longer that of the resource asked for, the call
\* reaches the other one, which is of the same group version unless a provider
\* namespace is configured.
BoundAsPublished ==
    /\ answer.kind = "unresolved" => answer.missed # answer.misses
    /\ answer.kind \in Resolving /\ answer.bound # answer.asked =>
         /\ answer.missed # answer.misses
         /\ NameAt(answer.asked, answer.missed) # NameAt(answer.asked, answer.misses)
         /\ config.namespace = "" => answer.bound.gv = answer.asked.gv

\* The tables of a catalog have different names (assignTableNames).
NamesUnique == \A i, j \in DOMAIN published : i # j => published[i].name # published[j].name

\* A table name means one resource, in a catalog and from the catalog to the
\* calls made with it.
TablesExact == BoundAsPublished /\ NamesUnique

\* A row of an object satisfies a filter, in the terms of SQL.
RECURSIVE Holds(_, _)
Holds(e, key) ==
    IF e.op = "and" THEN \A i \in DOMAIN e.args : Holds(e.args[i], key)
    ELSE LET field == IF e.left.op = "field" THEN e.left ELSE e.right
             literal == IF e.left.op = "field" THEN e.right ELSE e.left
         IN literal.value.v = IF field.name = <<"metadata", "name">> THEN key[4] ELSE key[3]

RECURSIVE SaysNamespace(_)
SaysNamespace(e) ==
    IF e.op = "and" THEN \E i \in DOMAIN e.args : SaysNamespace(e.args[i])
    ELSE \E side \in {e.left, e.right} : side.op = "field" /\ side.name = <<"metadata", "namespace">>

\* The objects that an update or a delete is about: those its filter selects, in
\* the default namespace if it does not say which.
Meant(mine) ==
    {key \in DOMAIN objects :
        /\ key[1] = mine.bound.gv /\ key[2] = mine.bound.name /\ Holds(mine.request.filter, key)
        /\ SaysNamespace(mine.request.filter) \/ ~mine.bound.namespaced \/ key[3] = DefaultNamespace}

Changed == {key \in DOMAIN objects \cup DOMAIN objects' :
               \/ (key \in DOMAIN objects) # (key \in DOMAIN objects')
               \/ objects[key] # objects'[key]}

\* An object has a value that was given for one of its fields.
PathOf(field) == IF field = <<"object">> THEN <<>> ELSE field
Carries(doc, field, value) ==
    LET given == IF value.kind = "json" THEN value.doc ELSE Leaf(value)
        at(q) == PathOf(field) \o q
    IN \A q \in DOMAIN given :
          \/ at(q) = <<"metadata", "resourceVersion">>
          \/ given[q].kind = "null" /\ at(q) \notin DOMAIN doc
          \/ at(q) \in DOMAIN doc /\ doc[at(q)].kind = given[q].kind /\ doc[at(q)].v = given[q].v

\* Two states of an object differ only where the assignments say so.
SameElsewhere(assignments, before, after) ==
    LET fields == {assignments[i].field : i \in DOMAIN assignments}
    IN <<"object">> \in fields \/ \A p \in DOMAIN before \cup DOMAIN after :
          \/ p = <<"metadata", "resourceVersion">> \/ \E f \in fields : IsPrefix(f, p)
          \/ p \in DOMAIN before \cap DOMAIN after /\ before[p] = after[p]

\* The object of a tuple: its values, its identity, and nothing besides.
ObjectOfTuple(mine, tuple, key) ==
    LET doc == objects'[key]
        fields == mine.request.fields
    IN /\ key = KeyOf(mine.bound, Namespace(doc), Name(doc))
       /\ Text1(doc, <<"apiVersion">>) = mine.bound.gv /\ Text1(doc, <<"kind">>) = mine.bound.kind
       /\ \A k \in DOMAIN fields :
             IF fields[k] = <<"metadata", "namespace">> /\ tuple[k].kind = "null"
             THEN Namespace(doc) = DefaultNamespace ELSE Carries(doc, fields[k], tuple[k])
       /\ \A p \in DOMAIN doc :
             \/ p \in {<<"apiVersion">>, <<"kind">>, <<"metadata", "name">>, <<"metadata", "namespace">>,
                       <<"metadata", "resourceVersion">>}
             \/ \E k \in DOMAIN fields : IsPrefix(PathOf(fields[k]), p)

\* An insert that is acknowledged has created the object of every tuple, one that
\* is cut short those of the first n, and neither has touched another object.
Created(mine) ==
    /\ mine.n <= Len(mine.request.tuples) /\ (mine.kind = "inserted" <=> mine.n = Len(mine.request.tuples))
    /\ Changed \cap DOMAIN objects = {} /\ Cardinality(Changed) = mine.n
    /\ \E at \in [1 .. mine.n -> Changed] :
          IsInjective(at) /\ \A i \in 1 .. mine.n : ObjectOfTuple(mine, mine.request.tuples[i], at[i])

Rewritten(mine, keys) ==
    /\ keys \subseteq Meant(mine) \cap DOMAIN objects'
    /\ \A key \in keys : SameElsewhere(mine.request.assignments, objects[key], objects'[key])

\* A call is answered: in one step, or by the second one of an update.
Answered == ksteps' # ksteps \/ (pending.on /\ ~pending'.on)

\* A mutation changes the objects it is about, as many as it answers, and nothing
\* else: a delete removes exactly the object its filter selects, and answers none
\* only when there is none; an update changes that object, and leaves every field
\* it does not assign as it was at that moment though other clients write between
\* its Get and its Update (mutation.go): a write made in between makes it fail
\* instead; an insert creates the objects of its tuples.  A mutation that fails
\* changes nothing, but for an insert cut short and an update whose answer is lost.
WritesConfined ==
    [][ CASE others' # others -> TRUE
          [] ~Answered -> Changed = {}
          [] answer'.kind \in {"inserted", "cut"} -> Created(answer')
          [] answer'.kind = "updated" ->
               /\ answer'.n = Cardinality(Meant(answer')) /\ Changed \subseteq Meant(answer')
               /\ Rewritten(answer', Meant(answer'))
          [] answer'.kind = "deleted" ->
               /\ answer'.n = Cardinality(Meant(answer'))
               /\ objects' = Restrict(objects, DOMAIN objects \ Meant(answer'))
          [] OTHER -> Changed = {} \/ (pending.on /\ Rewritten(pending.then, Changed))
      ]_kubeVars

\* An update that is acknowledged has stored what it assigns to the object.
StoredBy(excused(_)) ==
    Answered /\ answer'.kind = "updated" =>
        \A key \in Meant(answer'), i \in DOMAIN answer'.request.assignments :
            LET a == answer'.request.assignments[i]
            IN a.field \in excused(answer'.bound) \/ Carries(objects'[key], a.field, a.value)

\* An update that reports an affected row has stored what it assigns.  Of a
\* resource that cannot be patched this is claimed, at the root of the object,
\* of metadata and spec only: see UpdateApplies.
AssignedStored ==
    [][StoredBy(LAMBDA resource : IF hasVerb(resource, "patch") THEN {} ELSE {<<"data">>})]_kubeVars

\* "Update applies JSON assignments to one Kubernetes resource identified by its
\* key": so it does with every column that the catalog shows as updatable.
UpdateApplies == [][StoredBy(LAMBDA resource : {})]_kubeVars
=============================================================================
