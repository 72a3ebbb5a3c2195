---------------------------- MODULE MCGenerator ----------------------------
(* Descriptor pools, and plugin parameters to run the generator with. *)
EXTENDS Generator, TLC

NoneSet == <<>>
Typed(t) == [k |-> "scalar", t |-> t]
OfMessage(m) == [k |-> "message", m |-> m]
OfEnum(owner, file) == [k |-> "enum", owner |-> owner, file |-> file]
Field(name, number, label, type) ==
  [name |-> name, number |-> number, label |-> label, type |-> type, oneof |-> FALSE,
   flatten |-> FALSE, options |-> NoneSet]
One(name, number, type) == Field(name, number, "singular", type)
Opt(name, number, type) == Field(name, number, "optional", type)
Many(name, number, type) == Field(name, number, "repeated", type)
Msg(file, fields) ==
  [file |-> file, fields |-> fields, nested |-> <<>>, flatten |-> FALSE, map_entry |-> FALSE,
   options |-> NoneSet]
Wrap(file, field) == [Msg(file, <<field>>) EXCEPT !.flatten = TRUE]
MapEntry(file, key, value) ==
  [Msg(file, <<One("key", 1, key), One("value", 2, value)>>) EXCEPT !.map_entry = TRUE]
Method(input) ==
  [service |-> "Feed", name |-> "Rows", client_streaming |-> TRUE, server_streaming |-> FALSE,
   returns |-> "google_protobuf_Empty", input |-> input]
ProtoFile(name, package, messages, methods) ==
  [name |-> name, package |-> package, messages |-> messages, methods |-> methods]
Pool(files, messages, objects) ==
  [files |-> files, messages |-> messages, subject |-> "Row", objects |-> objects,
   extensions |-> <<>>, subfields |-> <<>>, enums |-> <<>>]
OneFile(messages) == <<ProtoFile("a", <<"p">>, messages, <<Method("Row")>>)>>

\* Every scalar kind, the well-known types and an enum.
ScalarsPool ==
  Pool(OneFile(<<"Row">>),
       [Row |-> Msg("a", <<One("b", 1, Typed("bool")), Opt("i", 2, Typed("sint32")),
                           One("l", 3, Typed("int64")), Opt("s", 4, Typed("string")),
                           One("y", 5, Typed("bytes")),
                           Opt("t", 6, OfMessage("google_protobuf_Timestamp")),
                           One("w", 7, OfMessage("google_protobuf_StringValue")),
                           One("e", 8, OfEnum("", "a"))>>),
        google_protobuf_Timestamp |-> Msg("google", <<One("seconds", 1, Typed("int64"))>>),
        google_protobuf_StringValue |-> Msg("google", <<One("value", 1, Typed("string"))>>)],
       {[i \in 1..8 |-> <<>>],
        <<<<<<1>>>>, <<<<3>>>>, <<<<1, 2>>>>, <<<<1, 2>>>>, <<<<3>>>>, <<<<0, 1>>>>, <<<<>>>>, <<<<2>>>>>>,
        <<<<>>, <<<<0>>>>, <<>>, <<<<>>>>, <<>>, <<>>, <<<<1, 1>>>>, <<>>>>})

\* Structs, lists and maps of them, in a message declared before its parts.
NestedPool ==
  Pool(OneFile(<<"Row", "Inner">>),
       [Row |-> Msg("a", <<Opt("a", 1, OfMessage("Inner")), One("b", 2, OfMessage("Inner")),
                           Many("c", 3, OfMessage("Inner")), Many("d", 4, Typed("uint32")),
                           Many("e", 5, OfMessage("ByName")), Many("f", 6, OfMessage("ByNumber"))>>),
        Inner |-> Msg("a", <<Opt("s", 1, Typed("string")), One("n", 2, Typed("int32"))>>),
        ByName |-> MapEntry("a", Typed("string"), OfMessage("Inner")),
        ByNumber |-> MapEntry("a", Typed("int32"), Typed("bool"))],
       {<<<<>>, <<>>, <<>>, <<>>, <<>>, <<>>>>,
        <<<<<<<<<<1>>>>, <<>>>>>>, <<<<<<>>, <<<<2>>>>>>>>, <<<<<<>>, <<<<1>>>>>>, <<<<<<3>>>>, <<>>>>>>,
          <<<<1>>, <<2>>>>, <<<<<<1>>, <<<<>>, <<>>>>>>, <<<<2>>, <<<<<<>>>>, <<<<1>>>>>>>>>>,
          <<<<<<0>>, <<1>>>>, <<<<3>>, <<0>>>>>>>>,
        <<<<<<<<>>, <<<<3>>>>>>>>, <<>>, <<<<<<<<2, 2>>>>, <<<<0>>>>>>>>, <<<<0>>, <<0>>, <<3>>>>, <<>>,
          <<<<<<1>>, <<1>>>>>>>>})

\* Flatten wrappers, singular and repeated, down to lists of lists.
WrapperPool ==
  Pool(OneFile(<<"Row", "Num", "Nums", "Coord", "Ring", "Text">>),
       [Row |-> Msg("a", <<Opt("a", 1, OfMessage("Num")), One("b", 2, OfMessage("Num")),
                           Many("c", 3, OfMessage("Num")), Many("d", 4, OfMessage("Nums")),
                           Many("e", 5, OfMessage("Ring")), One("f", 6, OfMessage("Text"))>>),
        Num |-> Wrap("a", One("v", 1, Typed("int32"))),
        Nums |-> Wrap("a", Many("v", 1, Typed("int32"))),
        Coord |-> Msg("a", <<One("x", 1, Typed("int32")), Opt("y", 2, Typed("string"))>>),
        Ring |-> Wrap("a", Many("cs", 1, OfMessage("Coord"))),
        Text |-> Wrap("a", One("n", 1, OfMessage("Num")))],
       {[i \in 1..6 |-> <<>>],
        <<<<<<1>>>>, <<<<2>>>>, <<<<3>>, <<0>>>>, <<<<<<1>>, <<2>>>>, <<>>>>,
          <<<<<<<<<<1>>>>, <<>>>>>>, <<<<<<>>, <<<<1>>>>>>, <<<<<<2>>>>, <<>>>>>>>>, <<<<1>>>>>>,
        <<<<>>, <<<<3>>>>, <<>>, <<<<<<0>>>>, <<<<3>>>>, <<<<1>>, <<1>>>>>>, <<<<>>>>, <<>>>>})

\* Structs and lists behind singular wrappers.
WrappedStructPool ==
  Pool(OneFile(<<"Row", "Coord", "At", "Ring">>),
       [Row |-> Msg("a", <<Opt("a", 1, OfMessage("At")), One("b", 2, OfMessage("At")),
                           One("c", 3, OfMessage("Ring")), Opt("d", 4, OfMessage("Ring"))>>),
        Coord |-> Msg("a", <<One("x", 1, Typed("int32"))>>),
        At |-> Wrap("a", One("c", 1, OfMessage("Coord"))),
        Ring |-> Wrap("a", Many("cs", 1, OfMessage("Coord")))],
       {[i \in 1..4 |-> <<>>],
        <<<<<<<<<<1>>>>>>>>, <<>>, <<<<<<<<2>>>>>>>>, <<<<<<>>>>, <<<<<<3>>>>>>>>>>,
        <<<<>>, <<<<<<<<3>>>>>>>>, <<>>, <<<<<<<<1>>>>>>>>>>})

\* flatten_field: a message inlined into a message inlined into the row, with
\* options on the wrappers, on the inlined fields, on their types and on an
\* enum's values.
Inlined(f, options) == [f EXCEPT !.flatten = TRUE, !.options = options]
With(f, options) == [f EXCEPT !.options = options]
Unit == <<"x", "unit">>
Axis == <<"x", "axis">>
Kind == <<"x", "kind">>
Label == <<"x", "label">>
Marks == <<"x", "marks">>
FlattenPool ==
  [Pool(OneFile(<<"Row", "Fix", "Pos", "Note">>),
        [Row |-> Msg("a", <<One("id", 1, Typed("int32")),
                            Inlined(One("fix", 2, OfMessage("Fix")),
                                    Axis :> [name |-> "outer", tags |-> <<"o", "p">>] @@ Unit :> "row"),
                            One("note", 3, OfMessage("Note"))>>),
         Fix |-> Msg("a", <<Inlined(One("pos", 1, OfMessage("Pos")),
                                    Axis :> [name |-> "inner", frame |-> "ENU"]),
                            With(One("q", 2, Typed("int32")), Unit :> "")>>),
         Pos |-> Msg("a", <<With(One("x", 1, Typed("int32")), Unit :> "m"), Opt("y", 2, Typed("int32"))>>),
         Note |-> [Msg("a", <<Opt("t", 1, Typed("string"))>>) EXCEPT !.options = Kind :> "free"]],
        {[i \in 1..5 |-> <<>>],
         <<<<<<1>>>>, <<<<2>>>>, <<<<3>>>>, <<<<1>>>>, <<<<<<<<1, 1>>>>>>>>>>})
   EXCEPT !.extensions = Unit :> [extendee |-> "FieldOptions", repeated |-> FALSE, type |-> "text", of |-> ""]
                      @@ Axis :> [extendee |-> "FieldOptions", repeated |-> FALSE, type |-> "message", of |-> "Axis"]
                      @@ Kind :> [extendee |-> "MessageOptions", repeated |-> FALSE, type |-> "text", of |-> ""]
                      @@ Marks :> [extendee |-> "FieldOptions", repeated |-> TRUE, type |-> "text", of |-> ""]
                      @@ Label :> [extendee |-> "EnumValueOptions", repeated |-> FALSE, type |-> "text", of |-> ""],
          !.subfields = [Axis |-> [name |-> [repeated |-> FALSE, type |-> "text", of |-> ""],
                                   tags |-> [repeated |-> TRUE, type |-> "text", of |-> ""],
                                   scale |-> [repeated |-> FALSE, type |-> "float", of |-> ""],
                                   frame |-> [repeated |-> FALSE, type |-> "enum", of |-> "Frame"]]],
          !.enums = [Frame |-> [ENU |-> Label :> "east", NED |-> <<>>]]]
Rule(scope, steps, key) == [scope |-> scope, steps |-> steps, key |-> key]
GoodRules == <<Rule("field", <<Axis \o <<"name">>>>, "axis"), Rule("field", <<Unit>>, "unit"),
               Rule("field", <<Axis \o <<"frame">>, Label>>, "axis"),
               Rule("field", <<Axis \o <<"tags">>>>, "tags"),
               Rule("field_type", <<Kind>>, "kind"), Rule("message", <<Kind>>, "kind"),
               Rule("field", <<<<"not", "imported">>>>, "unit")>>
BadRules == {Rule("field", <<Kind>>, "k"), Rule("field", <<Axis>>, "k"), Rule("field", <<Unit>>, "field_id"),
             Rule("field", <<Axis \o <<"scale">>>>, "k"), Rule("field", <<Unit, Label>>, "k"),
             Rule("file", <<Unit>>, "k"), Rule("field", <<Axis \o <<"none">>>>, "k"), Rule("field", <<Marks>>, "k")}

\* Three files: classes and enums of other files and packages, a message that
\* names an enum of a later one, a recursive message and a method on it.
FilesPool ==
  Pool(<<ProtoFile("c", <<>>, <<"Base">>, <<>>),
         ProtoFile("b", <<"q">>, <<"Part", "Tree">>, <<Method("Tree")>>),
         ProtoFile("a", <<"p", "r">>, <<"Row", "Owner">>, <<Method("Row"), Method("Part")>>)>>,
       [Base |-> Msg("c", <<Opt("n", 1, Typed("int32"))>>),
        Part |-> [Msg("b", <<One("base", 1, OfMessage("Base"))>>) EXCEPT !.nested = <<"Sub">>],
        Sub |-> Msg("b", <<One("k", 1, OfEnum("Base", "c"))>>),
        Tree |-> Msg("b", <<Many("kids", 1, OfMessage("Tree"))>>),
        Row |-> Msg("a", <<One("s", 1, OfEnum("Owner", "a")), Many("p", 2, OfMessage("Part")),
                           Opt("k", 3, OfEnum("", "c"))>>),
        Owner |-> Msg("a", <<One("v", 1, OfMessage("Sub"))>>)],
       LET base == <<<<<<2>>>>>>
           part == <<<<base>>>>
       IN  {<<<<<<1>>>>, <<part, part>>, <<>>>>, <<<<>>, <<>>, <<<<3>>>>>>})

\* A field the generator refuses in a second file: nothing is delivered.
RefusedPool ==
  Pool(<<ProtoFile("b", <<>>, <<"Part">>, <<>>), ProtoFile("a", <<"p">>, <<"Row">>, <<Method("Row")>>)>>,
       [Part |-> Msg("b", <<Many("n", 1, Typed("double"))>>),
        Row |-> Msg("a", <<[One("u", 1, Typed("float")) EXCEPT !.oneof = TRUE]>>)], {})
AnyPool ==
  Pool(OneFile(<<"Row">>),
       [Row |-> Msg("a", <<Many("x", 1, OfMessage("google_protobuf_Any"))>>),
        google_protobuf_Any |-> Msg("google", <<One("url", 1, Typed("string"))>>)], {})

Plain == [flags |-> {}, rules |-> <<>>]
Flags(fs) == [flags |-> fs, rules |-> <<>>]
Invoke(p, opt) == [pool |-> p, parameter |-> opt]
MCInvocations == {Invoke(ScalarsPool, Plain), Invoke(NestedPool, Flags({"ts", "ipc"})), Invoke(WrapperPool, Plain),
  Invoke(WrapperPool, Flags({"accessor"})), Invoke(WrappedStructPool, Flags({"accessor", "rust"})),
  Invoke(NestedPool, Flags({"schema_only"})), Invoke(FlattenPool, [flags |-> {"ipc"}, rules |-> GoodRules]),
  Invoke(FilesPool, Flags({"ts"})), Invoke(RefusedPool, Flags({"rust"})), Invoke(AnyPool, Plain)}
  \cup {Invoke(FlattenPool, [flags |-> {}, rules |-> <<r>>]) : r \in BadRules}
=============================================================================
