---------------------------- MODULE OpenAPICases ----------------------------
(***************************************************************************)
(* The document, configurations, items and calls of the instances of OpenAPI.*)
(***************************************************************************)
EXTENDS Relational, OpenAPISchema, TLC

Schema(types, format) ==
    [types |-> types, format |-> format, props |-> <<>>, required |-> {}, allOf |-> <<>>, alternatives |-> {},
     items |-> "", nullable |-> FALSE, readOnly |-> FALSE, component |-> "", title |-> ""]
Composed(props, required, allOf) ==
    [Schema({}, "") EXCEPT !.props = props, !.required = required, !.allOf = allOf]
MCSchemaNamed ==
    [ Id |-> [Schema({"integer"}, "int64") EXCEPT !.readOnly = TRUE], Key |-> Schema({"integer"}, "int64"),
      Color |-> Schema({"string"}, ""), Size |-> Schema({"integer", "null"}, "int32"),
      Any |-> [Schema({}, "") EXCEPT !.alternatives = {"Color", "Size"}],
      Base |-> Composed([id |-> "Id"], {"id"}, <<>>),
      Item |-> [Composed([color |-> "Color", size |-> "Size"], {"color"}, <<"Base">>) EXCEPT !.component = "Item"],
      NewItem |-> Composed([color |-> "Color", size |-> "Size", id |-> "Id"], {"color", "id"}, <<>>),
      Respelled |-> Composed([Color |-> "Color", size |-> "Size"], {"Color"}, <<>>),
      Wrapped |-> Composed([item |-> "NewItem"], {}, <<>>),
      Loop |-> Composed([id |-> "Id"], {}, <<"Loop">>),
      Loops |-> [Schema({"array"}, "") EXCEPT !.items = "Loop"],
      List |-> [Schema({"array"}, "") EXCEPT !.items = "Item"],
      Data |-> Composed([items |-> "List", next |-> "Color"], {}, <<>>),
      Listing |-> Composed([data |-> "Data"], {}, <<>>),
      Two |-> Composed([data |-> "Data", others |-> "List"], {}, <<>>) ]
MCIdentifierOf(name) == CASE name = "Item" -> "ITEM" [] name = "listItems" -> "LIST" [] OTHER -> ""
MCLookup(name) == IF name = "Color" THEN "color" ELSE name
MCFieldOrder == <<"color", "id", "size", "team", "identifier">>

Text1(name) == <<[kind |-> "text", name |-> name]>>
Slot(name) == <<[kind |-> "param", name |-> name]>>
InPath(name, schema) == [in |-> "path", name |-> name, required |-> TRUE, schema |-> schema, plain |-> TRUE]
InQuery(name, schema) == [in |-> "query", name |-> name, required |-> FALSE, schema |-> schema, plain |-> FALSE]
Op(id, params, responses, body) ==
    [id |-> id, params |-> params, responses |-> responses, body |-> body, tags |-> {"items"}]
Returns(schema) == {[code |-> 200, media |-> 1, schema |-> schema], [code |-> 206, media |-> 1, schema |-> "Two"],
                    [code |-> 200, media |-> 0, schema |-> "Color"]}
PagingParams == <<InQuery("limit", "Key"), InQuery("offset", "Key"), InQuery("page", "Key"),
                  InQuery("cursor", "Color"), InQuery("color", "Color")>>
MCDocument ==
    [ server |-> TRUE,
      schemes |-> [ query |-> [type |-> "apikey", scheme |-> "", name |-> "key", in |-> "query"],
                    bearer |-> [type |-> "http", scheme |-> "bearer", name |-> "", in |-> ""],
                    oauth |-> [type |-> "oauth2", scheme |-> "", name |-> "", in |-> ""] ],
      items |-> <<
        [ path |-> <<Text1("items")>>, params |-> <<>>,
          ops |-> [GET |-> Op("listItems", PagingParams, Returns("Listing"), ""),
                   POST |-> Op("createItem", <<>>, {}, "Wrapped")] ],
        [ path |-> <<Text1("items"), Slot("id")>>, params |-> <<InPath("id", "Color")>>,
          ops |-> [PATCH |-> Op("patchItem", <<InPath("id", "Key")>>, {}, "NewItem"),
                   PUT |-> Op("putRespelled", <<InPath("id", "Key")>>, {}, "Respelled"),
                   POST |-> Op("createNamed", <<InPath("id", "Key")>>, {}, "NewItem"),
                   DELETE |-> Op("deleteItem", <<>>, {}, "")] ],
        [ path |-> <<Text1("respelled")>>, params |-> <<>>,
          ops |-> [POST |-> Op("createRespelled", <<>>, {}, "Respelled")] ],
        [ path |-> <<Text1("teams"), Slot("team"), Text1("items")>>, params |-> <<InPath("team", "Color")>>,
          ops |-> [GET |-> Op("listTeamItems", <<InQuery("cursor", "Color")>>, Returns("Listing"), ""),
                   POST |-> Op("createTeamItem", <<>>, {}, "Wrapped")] ],
        [ path |-> <<Text1("teams"), Slot("team"), Text1("items"), Slot("id")>>,
          params |-> <<InPath("team", "Color"), InPath("id", "Key")>>,
          ops |-> [PUT |-> Op("putTeamItem", <<>>, {}, "NewItem")] ],
        [ path |-> <<Text1("loops")>>, params |-> <<>>, ops |-> [GET |-> Op("listLoops", <<>>, Returns("Loops"), "")] ],
        [ path |-> <<Text1("two")>>, params |-> <<>>, ops |-> [GET |-> Op("listTwo", <<>>, Returns("Two"), "")] ] >> ]

AsField(name) == [parameter |-> name, field |-> name, value |-> EmptyText]
Fixed(name, text) == [parameter |-> name, field |-> "", value |-> text]
Paged(mode, parameter, size, sizeParameter, more) ==
    [on |-> TRUE, mode |-> mode, pageSize |-> size, parameter |-> parameter, sizeParameter |-> sizeParameter,
     startPage |-> -1, maxPages |-> 0, nextCursorPath |-> <<"data", "next">>,
     hasMorePath |-> IF more THEN <<"data", "more">> ELSE <<>>]
Mut(operation, fields, bodyPath) ==
    [operation |-> operation, pathParameters |-> [i \in DOMAIN fields |-> AsField(fields[i])],
     queryParameters |-> <<>>, bodyPath |-> bodyPath]
ItemWrites == [on |-> TRUE, of |-> [insert |-> Mut("createItem", <<>>, <<"item">>),
                                    update |-> Mut("patchItem", <<"id">>, <<>>),
                                    delete |-> Mut("deleteItem", <<"id">>, <<>>)]]
RespelledWrites == [on |-> TRUE, of |-> [insert |-> Mut("createRespelled", <<>>, <<>>),
                                         update |-> Mut("putRespelled", <<"id">>, <<>>)]]
NamedWrites == [on |-> TRUE, of |-> [insert |-> Mut("createNamed", <<"id">>, <<>>)]]
TeamWrites == [on |-> TRUE, of |-> [insert |-> Mut("createTeamItem", <<"team">>, <<"item">>),
                                    update |-> Mut("putTeamItem", <<"team", "id">>, <<>>)]]
Items(pagination, mutations) ==
    [name |-> "ITEMS", list |-> "listItems", responsePath |-> <<"data", "items">>, primaryKey |-> <<"id">>,
     stableKey |-> [on |-> FALSE], pathParameters |-> <<>>, queryParameters |-> <<>>,
     equalityFilters |-> <<AsField("color")>>, pagination |-> pagination, mutations |-> mutations]
TeamItems(stable, mutations) ==
    [Items(Paged("CURSOR", "cursor", 2, "", TRUE), mutations) EXCEPT
        !.name = "TEAM_ITEMS", !.list = "listTeamItems", !.pathParameters = <<AsField("team")>>,
        !.equalityFilters = <<>>, !.primaryKey = IF stable THEN <<>> ELSE <<"id">>,
        !.stableKey = [on |-> stable, name |-> "", columns |-> <<"team", "id">>]]
NoAuth == [on |-> FALSE]
Auth(scheme) == [on |-> TRUE, scheme |-> scheme, credential |-> "token", user |-> FALSE]
NoDiscovery == [enabled |-> FALSE, includeTags |-> {}, includeOperations |-> {}, excludeOperations |-> {}]
Raw(entities, auth, discovery) ==
    [specFile |-> "api", requestTimeout |-> 0, maxResponseBytes |-> 0, responseLimit |-> 9, baseUrl |-> TRUE,
     plainHttp |-> FALSE, allowInsecureHttp |-> FALSE, headers |-> {}, authentication |-> auth,
     discovery |-> discovery, entities |-> entities]
ByOffset == Items(Paged("OFFSET", "offset", 1, "", FALSE), ItemWrites)
MCRawConfigs ==
    { Raw(<<ByOffset>>, Auth("query"), NoDiscovery),
      Raw(<<Items(Paged("PAGE", "page", 2, "limit", FALSE), NoMutations)>>, Auth("bearer"), NoDiscovery),
      Raw(<<Items([Paged("CURSOR", "cursor", 2, "limit", FALSE) EXCEPT !.maxPages = 2], NoMutations),
            TeamItems(FALSE, TeamWrites)>>, NoAuth, NoDiscovery),
      Raw(<<TeamItems(TRUE, NoMutations)>>, NoAuth, NoDiscovery),
      \* bodies that spell a column in another case, or keep a field of the path to themselves
      Raw(<<Items(NoPagination, RespelledWrites)>>, NoAuth, NoDiscovery),
      Raw(<<Items(NoPagination, NamedWrites)>>, NoAuth, NoDiscovery),
      Raw(<<>>, NoAuth, [NoDiscovery EXCEPT !.enabled = TRUE, !.includeTags = {"items"}, !.excludeOperations = {"listTeamItems"}]),
      \* what is turned away
      Raw(<<>>, NoAuth, [NoDiscovery EXCEPT !.enabled = TRUE]),
      Raw(<<>>, NoAuth, [NoDiscovery EXCEPT !.enabled = TRUE, !.includeOperations = {"listTwo"}]),
      Raw(<<>>, NoAuth, NoDiscovery), Raw(<<ByOffset>>, Auth("oauth"), NoDiscovery),
      Raw(<<[ByOffset EXCEPT !.queryParameters = <<Fixed("key", 2)>>]>>, Auth("query"), NoDiscovery),
      Raw(<<[ByOffset EXCEPT !.queryParameters = <<Fixed("color", 2)>>]>>, NoAuth, NoDiscovery),
      Raw(<<[TeamItems(FALSE, NoMutations) EXCEPT !.pathParameters = <<>>]>>, NoAuth, NoDiscovery),
      Raw(<<[ByOffset EXCEPT !.primaryKey = <<"none">>]>>, NoAuth, NoDiscovery),
      Raw(<<[ByOffset EXCEPT !.list = "listLoops", !.responsePath = <<>>]>>, NoAuth, NoDiscovery) }

At(id) == << <<[literal |-> "items", text |-> 0]>>, <<[literal |-> "", text |-> 20 + id]>> >>
TeamAt(team, id) == << <<[literal |-> "teams", text |-> 0]>>, <<[literal |-> "", text |-> team]>> >> \o At(id)
ItemOf(id, color, size) == [id |-> Val("number", id), color |-> Val("string", color), size |-> size]
MCSeed == (At(1) :> ItemOf(1, 2, Val("number", 3))) @@ (At(2) :> ItemOf(2, 3, Val("null", 0))) @@
          (At(4) :> ItemOf(4, 2, Val("number", 1))) @@
          (TeamAt(4, 1) :> ItemOf(1, 2, Val("number", 2))) @@ (TeamAt(4, 2) :> ItemOf(2, 2, Val("fraction", 1))) @@
          (TeamAt(5, 1) :> ItemOf(1, 3, Val("number", 1)))

MCSourceRow(a, item) ==
    LET Read(f, kind) == IF f \notin DOMAIN item THEN Null
                         ELSE IF item[f].kind = "null" THEN Null ELSE Val(kind, item[f].v)
    IN [id |-> Read("id", "long"), color |-> Read("color", "string"), size |-> Read("size", "integer"),
        identifier |-> Null, team |-> IF Len(a) = 2 THEN Null ELSE Val("string", a[2][1].text)]
MCSourceRows(entity, items) ==
    LET mine == {a \in DOMAIN items : Len(a) = (IF entity = "TEAM_ITEMS" THEN 4 ELSE 2)}
        order == SetToSortSeq(mine, LAMBDA a, b : a[Len(a)][1].text < b[Len(b)][1].text)
    IN [i \in DOMAIN order |-> MCSourceRow(order[i], items[order[i]])]
MCSampleValue(type) == Val(type, 2)
MCServerBodyAt(method) == IF method = "POST" THEN <<"item">> ELSE <<>>

Is(field, value) == Cmp("=", Field(field), Lit(value))
Q(entity, filter, projections, limit, offset, batch) ==
    [op |-> "query", entity |-> entity, filter |-> filter, projections |-> projections, ordered |-> FALSE,
     limit |-> limit, offset |-> offset, batch |-> batch]
Team(n) == Is("team", Val("string", n))
MCApiRequests ==
    { Q(e, f, <<>>, l, o, 2) : e \in {"ITEMS", "ITEM"}, f \in {NoFilter, Is("color", Str(2))}, l \in {NoCount, 2}, o \in {NoCount, 1} }
    \cup { Q("ITEMS", NoFilter, <<Field("id"), Lit(Num(7))>>, NoCount, 2, 1),
           Q("ITEMS", Is("size", Num(3)), <<>>, NoCount, NoCount, 1), Q("ITEMS", Is("color", Null), <<>>, 0, NoCount, 1),
           Q("TEAM_ITEMS", NoFilter, <<Field("id")>>, NoCount, NoCount, 1),
           Q("TEAM_ITEMS", Team(4), <<Field("id"), Field("team")>>, NoCount, NoCount, 1),
           Q("TEAM_ITEMS", And(<<Team(4), Team(5)>>), <<>>, NoCount, NoCount, 1),
           Q("TEAM_ITEMS", Team(4), <<>>, 1, NoCount, 1), Q("TEAM_ITEMS", Team(1), <<>>, NoCount, NoCount, 1),
           Q("TEAM_ITEMS", Team(5), <<>>, NoCount, NoCount, 2) }
    \cup { [op |-> "insert", entity |-> "ITEMS", fields |-> <<"color", "size">>, tuples |->
              << <<Str(3), Null>>, <<t, Num(2)>> >>] : t \in {Str(2), Val("clob", 1)} }
    \cup { [op |-> "insert", entity |-> "TEAM_ITEMS", fields |-> f, tuples |-> << <<Str(4), Str(2)>> >>] :
              f \in {<<"team", "color">>, <<"id", "color">>} }
    \cup { [op |-> "update", entity |-> "ITEMS", filter |-> f, assignments |-> <<[field |-> "color", value |-> Str(3)]>>] :
              f \in {Is("id", Num(1)), Is("id", Num(3)), And(<<Is("id", Num(2)), Is("color", Str(2))>>)} }
    \cup { [op |-> "update", entity |-> "ITEMS", filter |-> Is("id", Num(1)),
            assignments |-> <<[field |-> "size", value |-> Num(3)]>>] }
    \cup { [op |-> "update", entity |-> "TEAM_ITEMS", filter |-> And(<<Team(4), Is("id", Num(1))>>),
            assignments |-> <<[field |-> "size", value |-> Num(3)]>>] }
    \cup { [op |-> "delete", entity |-> "ITEMS", filter |-> f] :
              f \in {Is("id", Num(4)), And(<<Is("color", Str(3)), Is("id", Num(1))>>), NoFilter} }
=============================================================================
