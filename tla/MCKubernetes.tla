---------------------------- MODULE MCKubernetes ----------------------------
(***************************************************************************)
(* The resources, configurations, objects and calls of the instances of    *)
(* Kubernetes.                                                             *)
(***************************************************************************)
EXTENDS Kubernetes

KubeSpec == KubeInit /\ [][KubeNext]_kubeVars

MCWords(s) ==
    CASE s \in {"ReplicaSet", "Replica_Set"} -> <<"replica", "set">> [] s = "ev.io" -> <<"ev", "io">>
      [] s = "Event" -> <<"event">> [] s = "EvIoEvent" -> <<"ev", "io", "event">> [] OTHER -> <<s>>

Res(group, gv, name, kind, namespaced, verbs) ==
    [group |-> group, gv |-> gv, name |-> name, kind |-> kind, namespaced |-> namespaced,
     subresource |-> FALSE, verbs |-> verbs]
All == {"list", "create", "update", "patch", "delete"}
\* EvIoEvent spells the qualified name of its group's Event.
MCResources == << Res("ev.io", "ev.io/v1", "events", "Event", TRUE, {"list", "delete"}),
                  Res("ev.io", "ev.io/v1", "evioevents", "EvIoEvent", TRUE, {"list", "delete"}),
                  Res("", "v1", "configs", "Config", TRUE, All \ {"patch"}),
                  Res("", "v1", "events", "Event", TRUE, {"list", "delete"}),
                  Res("", "v1", "evs", "Event", FALSE, {"list"}),
                  Res("", "v1", "nodes", "Node", FALSE, {"list", "patch", "delete"}),
                  Res("", "v1", "pods", "Pod", TRUE, All),
                  [Res("", "v1", "pods/log", "Pod", TRUE, {"list"}) EXCEPT !.subresource = TRUE] >>

Scalar1(type, format) == [form |-> "scalar", type |-> type, format |-> format, readOnly |-> FALSE]
Obj(properties) == [form |-> "object", properties |-> properties, readOnly |-> FALSE]
Prop(name, schema) == [name |-> name, schema |-> schema]
Ref(name) == [form |-> "ref", to |-> name, readOnly |-> FALSE]
Map == [form |-> "collection", readOnly |-> FALSE]

MCSchemaOf(v, name) ==
    CASE v = NoDocument -> NoSchema
      [] name = "Pod" -> Obj(<<Prop("kind", Scalar1("string", "")), Prop("metadata", Ref("Meta")),
                               Prop("spec", [form |-> "allOf", of |-> Ref("PodSpec"), readOnly |-> FALSE])>>)
      [] name = "Config" -> Obj(<<Prop("data", Map), Prop("metadata", Ref("Meta"))>>)
      [] name = "Meta" -> Obj(<<Prop("labels", Map), Prop("name", Scalar1("string", "")),
                                Prop("uid", Scalar1("string", ""))>>)
      [] name = "PodSpec" -> Obj(<<Prop("node", Scalar1("string", "")),
                                   Prop("of", Ref("PodSpec")),
                                   Prop("size", Scalar1("integer", IF v = 2 THEN "int64" ELSE "")),
                                   Prop("uid", [Scalar1("string", "") EXCEPT !.readOnly = TRUE])>>)
      [] OTHER -> NoSchema

Raw(namespace, column, strategy, depth, include, exclude, overrides) ==
    [namespace |-> namespace, namespaceColumn |-> column, strategy |-> strategy, inCluster |-> FALSE,
     kubeconfig |-> FALSE, context |-> FALSE, requestTimeout |-> 0, qps |-> 0, burst |-> 0,
     schema |-> [depth |-> depth, includeObject |-> depth = 0, include |-> include, exclude |-> exclude,
                 overrides |-> overrides]]
NoColumn == [enabled |-> FALSE, name |-> <<>>, inKeys |-> FALSE]
OneColumn == [enabled |-> TRUE, name |-> <<>>, inKeys |-> TRUE]
Pods == {<<"v1", "pods">>}
Events == {<<"v1", "events">>, <<"ev.io/v1", "events">>, <<"ev.io/v1", "evioevents">>}
MCRawConfigs ==
    { Raw("", NoColumn, "", 0, {}, {}, <<>>), Raw("", NoColumn, "ALL", 2, {}, {{<<"v1", "evs">>}}, (<<"v1", "configs">> :> 1)),
      Raw("c1", OneColumn, "FAIL", 2, {Pods, {<<"v1", "configs">>}}, {}, <<>>),
      Raw("c1", NoColumn, "DEFAULT", 0, {Events}, {}, <<>>),
      Raw("", OneColumn, "ALL", 0, {}, {}, <<>>), Raw("", NoColumn, "SOME", 0, {}, {}, <<>>),
      Raw("", NoColumn, "", -1, {}, {Pods}, <<>>) }

S(v) == Val("string", v)
Meta(kind, namespace, name) ==
    (<<"apiVersion">> :> S(IF kind \in {"Event", "EvIoEvent"} /\ name = "a" THEN "ev.io/v1" ELSE "v1")) @@ (<<"kind">> :> S(kind)) @@
    (<<"metadata", "name">> :> S(name)) @@ (<<"metadata", "resourceVersion">> :> S("1"))
    @@ (IF namespace = "" THEN <<>> ELSE (<<"metadata", "namespace">> :> S(namespace)))
Owned == (<<"metadata", "ownerReferences", "0", "kind">> :> S("Job"))
         @@ (<<"metadata", "ownerReferences", "0", "controller">> :> Val("boolean", "true"))
         @@ (<<"metadata", "ownerReferences", "1", "kind">> :> S("ReplicaSet"))
         @@ (<<"metadata", "ownerReferences", "1", "controller">> :> Val("boolean", "true"))
         @@ (<<"metadata", "ownerReferences", "1", "name">> :> S("r1"))
MCKubeSeed ==
    (<<"v1", "pods", "d", "a">> :> (Meta("Pod", "d", "a") @@ Owned @@ (<<"spec", "size">> :> Val("integer", "1"))))
    @@ (<<"v1", "pods", "e", "a">> :> (Meta("Pod", "e", "a") @@ (<<"spec", "size">> :> Val("wide", "9"))))
    @@ (<<"v1", "configs", "d", "a">> :> (Meta("Config", "d", "a") @@ (<<"data", "x">> :> S("old"))))
    @@ (<<"v1", "nodes", "", "a">> :> Meta("Node", "", "a"))
    @@ (<<"ev.io/v1", "events", "d", "a">> :> Meta("Event", "d", "a"))
    @@ (<<"ev.io/v1", "evioevents", "d", "a">> :> Meta("EvIoEvent", "d", "a"))
    @@ (<<"v1", "events", "d", "b">> :> Meta("Event", "d", "b"))

Is(field, v) == Cmp("=", Field(<<"metadata", field>>), Lit(S(v)))
A == Is("name", "a")
AD == And(<<A, Is("namespace", "d")>>)
AE == And(<<A, Cmp("=", Lit(S("e")), Field(<<"metadata", "namespace">>))>>)
Json(doc) == [kind |-> "json", doc |-> doc]
Set1(field, value) == <<[field |-> field, value |-> value]>>

Q(table, fields, filter, limit) ==
    [op |-> "query", table |-> table, fields |-> fields, filter |-> filter, offset |-> 0, limit |-> limit, batch |-> 1]
PodsT == <<"v1", "pods">>
ConfigsT == <<"v1", "configs">>
MCQueries ==
    { Q(PodsT, <<>>, f, l) : f \in {NoFilter, A, AE}, l \in {NoLimit, 1} }
    \cup { Q(PodsT, <<<<"spec", "size">>, <<"replica", "set", "name">>>>, NoFilter, NoLimit),
           Q(PodsT, <<>>, And(<<A, Is("name", "b")>>), 0), Q(PodsT, <<>>, Is("uid", "u"), NoLimit),
           Q(<<"v1", "nodes">>, <<>>, AD, NoLimit), Q(<<"v1", "nodes">>, <<>>, NoFilter, 2),
           Q(<<"v1", "events">>, <<>>, NoFilter, NoLimit), Q(<<"ev.io/v1", "events">>, <<>>, NoFilter, NoLimit),
           [Q(PodsT, <<>>, NoFilter, NoLimit) EXCEPT !.offset = 1] }
Up(table, filter, assignments) == [op |-> "update", table |-> table, filter |-> filter, assignments |-> assignments]
Labels == Json((<<"l">> :> S("1")))
MCUpdates ==
    { Up(t, f, a) : t \in {PodsT, ConfigsT}, f \in {AD},
        a \in { Set1(<<"metadata">>, Json((<<"labels", "l">> :> S("1")))), Set1(<<"metadata", "labels">>, Labels),
                Set1(<<"spec", "size">>, Val("integer", "7")), Set1(<<"spec">>, Json((<<"node">> :> S("n")))),
                Set1(<<"metadata", "uid">>, S("u")), Set1(<<"data">>, Json((<<"x">> :> S("new")))) } }
    \cup { Up(PodsT, AD, Set1(<<"object">>, Json(o))) : o \in
             { (<<"spec", "node">> :> S("n")), (<<"metadata", "name">> :> S("b")),
               (<<"metadata", "resourceVersion">> :> S("1")) @@ (<<"spec", "node">> :> S("m")) } }
    \cup { Up(PodsT, A, Set1(<<"spec">>, Json((<<"node">> :> S("n"))))),
           Up(<<"v1", "nodes">>, A, Set1(<<"object">>, Json((<<"spec", "node">> :> S("n"))))),
           Up(<<"v1", "events">>, A, Set1(<<"spec">>, Json(<<>>))),
           Up(PodsT, AD, Set1(<<"spec">>, NullLeaf)) }
MCInserts ==
    { [op |-> "insert", table |-> PodsT, fields |-> <<<<"metadata", "name">>, <<"metadata", "namespace">>, f>>,
       tuples |-> ts] : f \in {<<"spec">>, <<"spec", "size">>, <<"object">>}, ts \in
         { << <<S("c"), NullLeaf, Json((<<"size">> :> Val("integer", "1")))>>, <<S("a"), S("d"), NullLeaf>> >>,
           << <<S("c"), S("e"), Val("integer", "2")>> >> } }
MCGenerated == [op |-> "insert", table |-> ConfigsT, fields |-> <<<<"metadata">>>>,
                tuples |-> << <<Json((<<"generateName">> :> S("g")))>> >>]
MCDeletes == { [op |-> "delete", table |-> t, filter |-> f] :
                 t \in {PodsT, <<"v1", "nodes">>, <<"ev.io/v1", "events">>}, f \in {A, AD} }

MCKubeRequests == MCQueries \cup MCUpdates \cup MCInserts \cup MCDeletes \cup {MCGenerated}
MCOtherKeys == {<<"v1", "configs", "d", "a">>, <<"v1", "pods", "d", "a">>}
MCOtherDocs == { (<<"metadata", "labels", "o">> :> S("2")) }
=============================================================================
