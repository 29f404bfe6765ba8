-------------------------- MODULE KubernetesSchema --------------------------
(***************************************************************************)
(* The catalog of the Kubernetes provider: which configurations are        *)
(* accepted, which discovered resources become tables, under which names,  *)
(* and with which columns.                                                 *)
(*                                                                         *)
(* A name in camel case or with separators is the sequence of its words,   *)
(* so a table's or a column's name is a sequence of words and joining is   *)
(* concatenation.  Names are compared without case in the code, and are    *)
(* canonical here.  A field of an object is named by its path.             *)
(***************************************************************************)
EXTENDS Integers, Sequences, FiniteSets, SequencesExt

CONSTANTS
    Words(_),     \* the words of a kind, a group or a resource name
    Resources,    \* sequence, in the order of group version and name, of
                  \*   [group, version, gv, name, kind, namespaced, verbs]
    SchemaOf(_, _)  \* the schema of a resource in a version of the OpenAPI
                    \* document, or NoSchema; schemas refer to each other by it

NoSchema == [form |-> "none"]
Rejected == [ok |-> FALSE]

hasVerb(resource, verb) == verb \in resource.verbs

-----------------------------------------------------------------------------
(* config.go: an include or exclude pattern is the set of the resources it  *)
(* matches; a blank name is <<>>; a number that is not set is 0.            *)

normalizeNamespaceColumnConfig(column) ==
    CASE ~column.enabled /\ (column.name # <<>> \/ column.inKeys) -> Rejected
      [] ~column.enabled -> [ok |-> TRUE, column |-> column]
      [] "+" \in ToSet(column.name) -> Rejected
      [] column.name = <<>> -> [ok |-> TRUE, column |-> [column EXCEPT !.name = <<"kubling_namespace">>]]
      [] OTHER -> [ok |-> TRUE, column |-> column]

\* Depths must not be negative, patterns must not be blank, and a key of the
\* overrides must name one resource, once.
normalizeSchemaConfig(schema) ==
    /\ schema.depth >= 0
    /\ {} \notin (schema.include \cup schema.exclude)
    /\ \A key \in DOMAIN schema.overrides : schema.overrides[key] >= 0

normalizeConfig(raw) ==
    LET column == normalizeNamespaceColumnConfig(raw.namespaceColumn)
        strategy == IF raw.strategy = "" THEN "DEFAULT" ELSE raw.strategy
    IN IF \/ raw.inCluster /\ (raw.kubeconfig \/ raw.context)
          \/ raw.requestTimeout < 0 \/ raw.qps < 0 \/ raw.burst < 0
          \/ ~column.ok
          \/ column.column.enabled /\ raw.namespace = ""
          \/ strategy \notin {"DEFAULT", "ALL", "FAIL"}
          \/ ~normalizeSchemaConfig(raw.schema)
       THEN Rejected
       ELSE [ok |-> TRUE, namespace |-> raw.namespace, namespaceColumn |-> column.column,
             strategy |-> strategy, schema |-> raw.schema]

includesResource(schema, resource) ==
    /\ schema.include = {} \/ \E pattern \in schema.include : <<resource.gv, resource.name>> \in pattern
    /\ \A pattern \in schema.exclude : <<resource.gv, resource.name>> \notin pattern

expansionDepth(schema, resource) ==
    IF <<resource.gv, resource.name>> \in DOMAIN schema.overrides
    THEN schema.overrides[<<resource.gv, resource.name>>] ELSE schema.depth

-----------------------------------------------------------------------------
(* metadata.go: discovery and table names *)

\* What discovery lists, in order, while some groups do not answer: resources
\* that are not subresources and can be listed.
discoverableResources(failed) ==
    SelectSeq(Resources, LAMBDA r : r.gv \notin failed /\ ~r.subresource /\ hasVerb(r, "list"))

filterResourceDescriptors(descriptors, schema) ==
    SelectSeq(descriptors, LAMBDA r : includesResource(schema, r))

RECURSIVE WithSuffix(_, _, _)
WithSuffix(candidate, suffix, used) ==
    IF candidate \in used THEN WithSuffix(Append(candidate, ToString(suffix)), suffix + 1, used) ELSE candidate

\* The kind names the table; a kind that occurs twice is qualified with its
\* group, a name in use with the resource and then with numbers.
assignTableNames(descriptors) ==
    LET base(r) == Words(r.kind)
        shared(r) == Cardinality({i \in DOMAIN descriptors : base(descriptors[i]) = base(r)}) > 1
        group(r) == IF r.group = "" THEN <<"CORE">> ELSE Words(r.group)
        first(r) == IF shared(r) THEN group(r) \o base(r) ELSE base(r)
        second(r, used) == IF first(r) \in used THEN first(r) \o Words(r.name) ELSE first(r)
    IN FoldLeft(LAMBDA names, r : Append(names, WithSuffix(second(r, ToSet(names)), 2, ToSet(names))),
                <<>>, descriptors)

-----------------------------------------------------------------------------
(* metadata.go and owner_reference.go: the columns of the compact model *)

NoOwner == [kind |-> "", field |-> ""]
Column(name, path, type, updatable) ==
    [name |-> name, path |-> path, type |-> type, updatable |-> updatable, owner |-> NoOwner]

ownerReferenceProjections(resource) ==
    CASE resource.gv = "apps/v1" /\ resource.name = "replicasets" -> <<"Deployment">>
      [] resource.gv = "v1" /\ resource.name = "pods" -> <<"ReplicaSet">>
      [] OTHER -> <<>>

ownerReferenceColumns(resource) ==
    FlattenSeq([i \in DOMAIN ownerReferenceProjections(resource) |->
        [j \in 1 .. 2 |->
            LET kind == ownerReferenceProjections(resource)[i]
                field == <<"uid", "name">>[j]
            IN [Column(Words(kind) \o <<field>>, <<"metadata", "ownerReferences">>, "string", FALSE)
                  EXCEPT !.owner = [kind |-> kind, field |-> field]]]])

resourceColumnsWithOptions(resource, includeObject) ==
    LET insert == hasVerb(resource, "create")
        document == insert \/ hasVerb(resource, "update") \/ hasVerb(resource, "patch")
    IN << Column(<<"api_version">>, <<"apiVersion">>, "string", insert),
          Column(<<"kind">>, <<"kind">>, "string", insert),
          Column(<<"metadata", "uid">>, <<"metadata", "uid">>, "string", FALSE),
          Column(<<"metadata", "name">>, <<"metadata", "name">>, "string", insert),
          Column(<<"metadata", "namespace">>, <<"metadata", "namespace">>, "string", insert),
          Column(<<"metadata", "resource_version">>, <<"metadata", "resourceVersion">>, "string", FALSE),
          Column(<<"metadata">>, <<"metadata">>, "json", document),
          Column(<<"spec">>, <<"spec">>, "json", document),
          Column(<<"status">>, <<"status">>, "json", FALSE) >>
       \o ownerReferenceColumns(resource)
       \o (IF includeObject THEN <<Column(<<"object">>, <<>>, "json", document)>> ELSE <<>>)

\* The key that the engine generates is a column with no source.
AddStablePrimaryKey(columns) ==
    Append(columns, Column(<<"identifier">>, <<"identifier">>, "string", FALSE))

\* So is the namespace column, which must be a new one.
AddNamespaceColumns(columns, name) ==
    IF name \in {columns[i].name : i \in DOMAIN columns} THEN Rejected
    ELSE [ok |-> TRUE, columns |-> Append(columns, Column(name, name, "string", FALSE))]

-----------------------------------------------------------------------------
(* mutation.go: the fields that a resource update may write *)

ServerManaged == {"uid", "resourceVersion", "generation", "creationTimestamp", "deletionTimestamp",
                  "deletionGracePeriodSeconds", "managedFields", "selfLink", "name", "namespace"}

kubernetesFieldPathWritable(path) ==
    /\ path # <<>> /\ path[1] \notin {"apiVersion", "kind", "status"}
    /\ path[1] = "metadata" /\ Len(path) > 1 => path[2] \notin ServerManaged

-----------------------------------------------------------------------------
(* openapi_schema.go: the relational expansion.  A schema is a reference    *)
(* [form "ref", to], a wrapper [form "allOf", of], a scalar, a collection   *)
(* or choice, or an object with its properties in the order of their names. *)

\* References are followed once each; one that comes back stays unresolved.
RECURSIVE resolveSeen(_, _, _)
resolveSeen(version, schema, seen) ==
    CASE schema.form = "ref" ->
           IF schema.to \in seen \/ SchemaOf(version, schema.to) = NoSchema THEN schema
           ELSE resolveSeen(version, SchemaOf(version, schema.to), seen \cup {schema.to})
      [] schema.form = "allOf" -> resolveSeen(version, schema.of, seen)
      [] OTHER -> schema

\* Integers are 32 bits wide unless the format says int64, and numbers doubles.
openAPISchemaValueType(schema) ==
    CASE schema.type = "integer" /\ schema.format = "int64" -> "long"
      [] schema.type = "number" -> IF schema.format = "float" THEN "float" ELSE "double"
      [] OTHER -> schema.type

\* The columns of a field: its own when it is a scalar, a collection, an object
\* with nothing inside or at the depth; those of its fields otherwise.
RECURSIVE appendExpandedOpenAPIColumns(_, _, _, _, _, _)
appendExpandedOpenAPIColumns(version, schema, path, depth, writable, inherited) ==
    LET resolved == resolveSeen(version, schema, {})
        readOnly == inherited \/ resolved.readOnly
        column(type) == <<Column(path, path, type, writable /\ ~readOnly /\ kubernetesFieldPathWritable(path))>>
    IN CASE Len(path) > depth -> <<>>
         [] resolved.form = "scalar" -> column(openAPISchemaValueType(resolved))
         [] resolved.form # "object" \/ Len(path) = depth \/ resolved.properties = <<>> -> column("json")
         [] OTHER -> FlattenSeq([i \in DOMAIN resolved.properties |->
                appendExpandedOpenAPIColumns(version, resolved.properties[i].schema,
                    Append(path, resolved.properties[i].name), depth, writable, readOnly)])

removeRelationalizedDocumentColumns(columns) ==
    SelectSeq(columns, LAMBDA c : c.path \notin {<<"metadata">>, <<"spec">>, <<"status">>})

\* A name that exists is not added again.
appendOpenAPIColumn(columns, column) ==
    IF column.name \in {columns[i].name : i \in DOMAIN columns} THEN columns ELSE Append(columns, column)

\* version is the document the resolver has, or NoDocument.
NoDocument == 0
resourceTableMetadataWithSchema(resource, version, depth, includeObject) ==
    LET compact == AddStablePrimaryKey(resourceColumnsWithOptions(resource, includeObject))
        root == resolveSeen(version, SchemaOf(version, resource.kind), {})
        writable == \E verb \in {"create", "update", "patch"} : hasVerb(resource, verb)
        fields == SelectSeq(root.properties, LAMBDA p : p.name \notin {"apiVersion", "kind"})
        expanded == FlattenSeq([i \in DOMAIN fields |->
            appendExpandedOpenAPIColumns(version, fields[i].schema, <<fields[i].name>>, depth, writable, FALSE)])
    IN IF depth <= 0 \/ version = NoDocument \/ SchemaOf(version, resource.kind) = NoSchema THEN compact
       ELSE FoldLeft(appendOpenAPIColumn, removeRelationalizedDocumentColumns(compact), expanded)

-----------------------------------------------------------------------------
(* metadata.go, namespace.go: the tables *)

expectedEntityNamespace(config, resource) ==
    IF config.namespace = "" THEN resource.gv ELSE config.namespace

\* One table per resource that the configuration includes; Rejected when the
\* namespace column is not new in one of them.
Descriptors(config, failed) == filterResourceDescriptors(discoverableResources(failed), config.schema)

configuredTableMetadata(config, resource, name, version) ==
    LET columns == resourceTableMetadataWithSchema(resource, version,
                       expansionDepth(config.schema, resource), config.schema.includeObject)
        all == IF config.namespaceColumn.enabled
               THEN AddNamespaceColumns(columns, config.namespaceColumn.name)
               ELSE [ok |-> TRUE, columns |-> columns]
    IN IF ~all.ok THEN Rejected
       ELSE [ok |-> TRUE, resource |-> resource, namespace |-> expectedEntityNamespace(config, resource),
             name |-> name, columns |-> all.columns]

buildMetadataWithSchema(config, failed, version) ==
    LET descriptors == Descriptors(config, failed)
        names == assignTableNames(descriptors)
    IN [i \in DOMAIN descriptors |-> configuredTableMetadata(config, descriptors[i], names[i], version)]
=============================================================================
