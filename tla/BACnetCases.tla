---------------------------- MODULE BACnetCases ----------------------------
(***************************************************************************)
(* The documents, devices and calls of the instance of BACnetRequests.     *)
(***************************************************************************)
EXTENDS Integers, Sequences, TLC

Property(id, name) == [id |-> id, name |-> name]

\* A column of a document: optional, readable and scalar unless it says so.
Column(name, property, native, type) ==
    [name |-> name, property |-> property, native |-> native, type |-> type, nullable |-> {},
     required |-> FALSE, array |-> FALSE, enum |-> <<>>, write |-> {}, override |-> FALSE]
Required(column) == [column EXCEPT !.required = TRUE]
Override(column) == [column EXCEPT !.override = TRUE]
Writable(column, types, commandable) ==
    [column EXCEPT !.write = {[objectTypes |-> types, commandable |-> commandable]}]

Table(name, types, columns) ==
    [name |-> name, all |-> FALSE, objectTypes |-> types, columns |-> columns]

Identifier == Required(Column("object_identifier", Property(75, "object-identifier"), "objectid", "STRING"))
PresentValue == Writable(Required(Column("present_value", Property(85, "present-value"), "real", "DOUBLE")),
                         <<"analog-value">>, TRUE)
Units == Writable([Column("units", Property(117, "units"), "enumerated", "STRING")
                       EXCEPT !.enum = (1 :> "watts") @@ (2 :> "volts")],
                  <<"analog-value">>, FALSE)
ObjectList == [Required(Column("object_list", Property(76, "object-list"), "objectid", "STRING")) EXCEPT !.array = TRUE]
Level == Writable(Column("level", Property(600, "level"), "unsigned", "INTEGER"), <<"analog-value">>, FALSE)
Grade == Required(Column("grade", Property(601, "grade"), "signed", "INTEGER"))

Document(id, extends, selectors, objectTypes, tables) ==
    [id |-> id, abstract |-> FALSE, extends |-> extends, selectors |-> selectors,
     objectTypes |-> objectTypes, tables |-> tables]
Abstract(document) == [document EXCEPT !.abstract = TRUE, !.selectors = <<>>]

\* What of the standard profile (profiles/standard.yaml) the instance needs.
Standard ==
    Document(2, <<>>, <<>>,
        <<[id |-> 2, name |-> "analog-value"], [id |-> 5, name |-> "binary-value"], [id |-> 8, name |-> "device"]>>,
        <<[name |-> "OBJECTS", all |-> TRUE, objectTypes |-> {}, columns |-> <<Identifier>>],
          Table("DEVICE_OBJECTS", {"device"}, <<ObjectList>>),
          Table("ANALOG_POINTS", {"analog-value"}, <<PresentValue, Units>>)>>)

AnyDevice == [vendor |-> -1, model |-> "", firmware |-> "", device |-> -1, namespace |-> "", scope |-> ""]
Vendor(v) == [AnyDevice EXCEPT !.vendor = v]
Model(v, m) == [Vendor(v) EXCEPT !.model = m]
Firmware(v, m, f) == [Model(v, m) EXCEPT !.firmware = f]
Device(i) == [AnyDevice EXCEPT !.device = i, !.namespace = "site", !.scope = "lan"]

Points(columns) == Table("ANALOG_POINTS", {}, columns)
Leveled(id) == Abstract(Document(id, <<2>>, <<>>, <<>>, <<Points(<<Level>>)>>))

\* The columns of an object type of the vendor: one of every other type.
SpecialColumns ==
    LET Special(name, id, native, type) == Writable(Column(name, Property(id, name), native, type), <<"special">>, FALSE)
    IN <<Special("label", 700, "character", "STRING"), Special("raw", 701, "octetstring", "VARBINARY"),
         Special("ratio", 702, "double", "BIGDECIMAL"), Special("drift", 703, "signed", "LONG"),
         Special("armed", 704, "boolean", "BOOLEAN"), Special("mode", 705, "enumerated", "INTEGER"),
         Column("installed", Property(706, "installed"), "date", "DATE"),
         Column("flags", Property(707, "flags"), "bitstring", "VARBINARY"),
         [Column("sizes", Property(708, "sizes"), "unsigned", "BIGINTEGER") EXCEPT !.array = TRUE]>>

VendorProfile(extends, selectors) ==
    Document(3, extends, selectors, <<[id |-> 130, name |-> "special"]>>,
             <<Points(<<Grade>>), Table("SPECIALS", {"special"}, SpecialColumns)>>)
ModelProfile(id, selectors) == Document(id, <<3>>, selectors, <<>>, <<Points(<<Override(Required(Units))>>)>>)

\* Two abstract parents that agree on a column, a vendor, a model of
\* it, one firmware of that model, and one device.
Site == <<Standard, Leveled(1), Leveled(5), VendorProfile(<<1, 5>>, <<Vendor(7)>>),
          ModelProfile(4, <<Model(7, "m"), Firmware(8, "n", "f")>>), ModelProfile(6, <<Device(3), Firmware(7, "m", "g")>>)>>

Small(document) == <<Standard, document>>
Plain(id, selectors, columns) == Document(id, <<2>>, selectors, <<>>, <<Points(columns)>>)

\* Documents that start the provider, and documents that it refuses: overlapping
\* selectors, a child no more specific than its parent, a cycle, labels that are
\* not distinct, types that differ, an override of nothing, a duplicate without
\* override, and names of the provider's own columns and tables.
MCRawCatalogs ==
    { Site, <<Standard>>,
      <<Standard, Plain(3, <<Model(7, "m")>>, <<Level>>), Plain(4, <<Model(7, "m"), Vendor(8)>>, <<Level>>)>>,
      <<Standard, Plain(3, <<Device(9)>>, <<Level>>), Plain(4, <<[Device(9) EXCEPT !.vendor = 7]>>, <<Level>>)>>,
      <<Standard, VendorProfile(<<2>>, <<Vendor(7)>>), ModelProfile(4, <<Vendor(7)>>)>>,
      <<Standard, VendorProfile(<<2>>, <<Model(7, "m")>>), ModelProfile(4, <<Vendor(7)>>)>>,
      <<Standard, VendorProfile(<<4>>, <<Vendor(7)>>), ModelProfile(4, <<Model(7, "m")>>)>>,
      <<Standard, Plain(3, <<Vendor(7)>>, <<Level>>),
                  Plain(4, <<Vendor(8)>>, <<[Level EXCEPT !.type = "LONG"]>>)>>,
      Small(Plain(3, <<Vendor(7)>>, <<[Override(Units) EXCEPT !.enum = (1 :> "on") @@ (2 :> "on")]>>)),
      Small(Plain(3, <<Vendor(7)>>, <<Override(Level)>>)), Small(Plain(3, <<Vendor(7)>>, <<Required(Units)>>)),
      Small(Plain(3, <<Vendor(7)>>, <<[Level EXCEPT !.name = "observed_at"]>>)),
      Small(Document(3, <<2>>, <<Vendor(7)>>, <<>>, <<Table("SCOPES", {"device"}, <<ObjectList>>)>>)),
      Small(Plain(3, <<Firmware(7, "", "f")>>, <<Level>>)) }

-----------------------------------------------------------------------------
Listing(vendor, model, firmware) ==
    <<[namespace |-> "site", scope |-> "lan", attachment |-> "a", success |-> TRUE, duplicates |-> 1,
       devices |-> <<[instance |-> 9, vendor |-> vendor, model |-> model, firmware |-> firmware]>>],
      [namespace |-> "site", scope |-> "off", attachment |-> "a", success |-> FALSE, duplicates |-> 0,
       devices |-> <<[instance |-> 3, vendor |-> 0, model |-> "", firmware |-> ""]>>]>>
MCSnapshots == {Listing(7, "m", "f"), Listing(0, "", "")}
MCPolicies == (<<"site", "lan">> :> [enabled |-> TRUE]) @@ (<<"site", "off">> :> [enabled |-> FALSE])

DeviceObject == <<8, 9>>
Point(i) == <<2, i>>
Switch == <<5, 1>>
SpecialObject == <<130, 1>>

Number(kind, n) == [kind |-> kind, n |-> n]
World(list, values) ==
    [list |-> list, commanded |-> <<>>,
     values |-> values @@ [key \in {<<list[i], 75>> : i \in DOMAIN list} |-> [kind |-> "objectid", object |-> key[1]]]]

PointValues(i, value, units) == (<<Point(i), 85>> :> Number("real", value)) @@ (<<Point(i), 117>> :> Number("enumerated", units)) @@
                               (<<Point(i), 601>> :> Number("signed", 1))
SpecialValues(form) ==
    (<<SpecialObject, 700>> :> [kind |-> "character", text |-> <<"pump">>, decodes |-> TRUE]) @@
    (<<SpecialObject, 701>> :> [kind |-> "octetstring", bytes |-> <<"f">>]) @@
    (<<SpecialObject, 702>> :> Number("double", 15)) @@ (<<SpecialObject, 703>> :> Number("signed", -10)) @@
    (<<SpecialObject, 704>> :> [kind |-> "boolean", b |-> TRUE]) @@ (<<SpecialObject, 705>> :> Number("enumerated", 3)) @@
    (<<SpecialObject, 706>> :> [kind |-> "date", form |-> form]) @@
    (<<SpecialObject, 707>> :> [kind |-> "bitstring", bits |-> <<"1", "0">>]) @@
    (<<SpecialObject, 708>> :> [kind |-> "constructed", items |-> <<Number("unsigned", 1), Number("unsigned", 19)>>])

\* The device as it is, with other values and a command, without an object, with another list of
\* the same length, and with more objects than are read.
MCWorlds ==
    { World(<<DeviceObject, SpecialObject, Point(1), Switch>>,
            PointValues(1, 1, 1) @@ (<<Point(1), 600>> :> Number("unsigned", 3)) @@ SpecialValues("plain")),
      [World(<<DeviceObject, SpecialObject, Point(1), Switch>>, PointValues(1, 9, 3) @@ SpecialValues("wildcards"))
           EXCEPT !.commanded = <<Point(1), 85>> :> Number("real", 4)],
      World(<<DeviceObject, Point(1)>>, PointValues(1, 1, 2) @@ (<<Point(1), 600>> :> Number("unsigned", 4))),
      World(<<DeviceObject, Point(2), SpecialObject, Point(1)>>, PointValues(1, 1, 1) @@ PointValues(2, 4, 1)),
      World(<<DeviceObject, Point(1), Point(2), Switch, SpecialObject>>, PointValues(1, 1, 1)) }

-----------------------------------------------------------------------------
Str(text) == [kind |-> "string", text |-> text]
Whole(n) == [kind |-> "integer", v |-> n]
Double(n) == [kind |-> "double", v |-> n]
Eq(field, value) == [op |-> "cmp", cmp |-> "=", field |-> field, value |-> value]
And(args) == [op |-> "and", args |-> args]
NoFilter == [op |-> "none"]

OfDevice(scope, instance) ==
    <<Eq("namespace", Str(<<"site">>)), Eq("scope_id", Str(<<scope>>)), Eq("device_instance", Whole(instance))>>
OfObject(scope, device, type, instance) ==
    And(OfDevice(scope, device) \o <<Eq("object_type", Str(<<type>>)), Eq("object_instance", Whole(instance))>>)

Query(table, projections, filter) ==
    [op |-> "query", table |-> table, projections |-> projections, filter |-> filter, pushes |-> FALSE, arrays |-> TRUE]
OnDevice(table, projections, more) == Query(table, projections, And(OfDevice("lan", 9) \o more))
Update(table, filter, field, value) ==
    [op |-> "update", table |-> table, filter |-> filter, assignments |-> <<[field |-> field, value |-> value]>>]
SetPoint(field, value) == Update("ANALOG_POINTS", OfObject("lan", 9, "analog-value", 1), field, value)
SetSpecial(field, value) == Update("SPECIALS", OfObject("lan", 9, "special", 1), field, value)
Null == [kind |-> "null"]

MCDeviceRequests ==
    { Query("SCOPES", <<>>, NoFilter), Query("DEVICES", <<>>, Eq("scope_id", Str(<<"lan">>))),
      OnDevice("ANALOG_POINTS", <<>>, <<>>), OnDevice("OBJECTS", <<>>, <<Eq("object_identifier", Str(<<"special", "1">>))>>),
      OnDevice("OBJECTS", <<"object_type", "object_instance">>, <<Eq("object_type", Str(<<"analog-value">>))>>),
      OnDevice("DEVICE_OBJECTS", <<"object_list">>, <<>>), OnDevice("DEVICE_OBJECTS", <<"object_instance">>, <<>>),
      OnDevice("SPECIALS", <<"label", "raw", "ratio", "drift">>, <<>>),
      OnDevice("SPECIALS", <<"armed", "mode", "installed", "flags", "sizes">>, <<>>),
      OnDevice("SPECIALS", <<>>, <<Eq("object_instance", Whole(1)), Eq("object_instance", Whole(2))>>),
      OnDevice("ANALOG_POINTS", <<>>, <<Eq("units", Str(<<"watts">>))>>),
      Query("OBJECTS", <<>>, NoFilter), Query("OBJECTS", <<>>, And(OfDevice("off", 9))),
      [OnDevice("DEVICE_OBJECTS", <<"object_list">>, <<>>) EXCEPT !.arrays = FALSE],
      SetPoint("present_value", Double(5)), SetPoint("present_value", Null), SetPoint("present_value", Double(20)),
      SetPoint("units", Str(<<"volts">>)), SetPoint("units", Str(<<"3">>)), SetPoint("units", Null),
      SetPoint("level", Whole(-1)), SetPoint("level", Whole(2)),
      SetSpecial("label", Str(<<"fan">>)), SetSpecial("raw", [kind |-> "varbinary", bytes |-> <<"e">>]),
      SetSpecial("ratio", [kind |-> "bigdecimal", v |-> 99]), SetSpecial("ratio", [kind |-> "bigdecimal", v |-> 20]),
      SetSpecial("drift", [kind |-> "long", v |-> -10]), SetSpecial("armed", [kind |-> "boolean", b |-> FALSE]),
      SetSpecial("mode", Whole(2)), SetSpecial("installed", Null),
      Update("ANALOG_POINTS", OfObject("lan", 9, "analog-value", 2), "present_value", Double(5)),
      Update("ANALOG_POINTS", OfObject("off", 3, "analog-value", 1), "present_value", Double(5)),
      Update("ANALOG_POINTS", OfObject("lan", 4, "analog-value", 1), "present_value", Double(5)),
      Update("ANALOG_POINTS", And(OfDevice("lan", 9)), "present_value", Double(5)),
      Update("OBJECTS", OfObject("lan", 9, "analog-value", 1), "object_identifier", Str(<<"x">>)) }
=============================================================================
