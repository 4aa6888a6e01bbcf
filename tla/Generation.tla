----------------------------- MODULE Generation -----------------------------
(***************************************************************************)
(* The generator (gen/lower.rs, run_generate of the command line): from    *)
(* the contract to the files of the TypeScript package.                    *)
(*                                                                         *)
(* A file has imports [from, name] and entries, its exported declarations  *)
(* in order: the name, the spaces of TypeScript it is in, the symbol it is *)
(* printed for and in what role, the names its text uses, those among them *)
(* it evaluates while the file loads, and whether the text parses.         *)
(***************************************************************************)
EXTENDS Extraction

Schema == Pascal(<<"schema">>)
Effect == Pascal(<<"effect">>)
Stream == Pascal(<<"stream">>)
ContextName == Pascal(<<"context">>)
LayerName == Pascal(<<"layer">>)
LayerFn == Camel(<<"layer">>)
ApiConfig == Pascal(<<"api", "config">>)
FetchClientConfig == Pascal(<<"fetch", "client", "config">>)
ApiClientError == Pascal(<<"api", "client", "error">>)
BinaryRequestBody == Pascal(<<"binary", "request", "body">>)
DecodeWithSchema == Camel(<<"decode", "with", "schema">>)
EncodeWithSchema == Camel(<<"encode", "with", "schema">>)
MakeSseClient == Camel(<<"make", "sse", "client">>)
MakeUnaryHttpClient == Camel(<<"make", "unary", "http", "client">>)
MakeBinaryUploadClient == Camel(<<"make", "binary", "upload", "client">>)
MakeBinaryDownloadClient == Camel(<<"make", "binary", "download", "client">>)

Import(from, names) == {[from |-> from, name |-> n] : n \in names}

Entry(name, spaces, uses, eager) ==
  [name |-> name, spaces |-> spaces, of |-> Unknown, role |-> "symbol", uses |-> uses,
   eager |-> eager, parses |-> TRUE]
Interface(name, uses) == Entry(name, {"type"}, uses, {})
Const(name, eager) == Entry(name, {"value"}, eager, eager)
FnConst(name, uses) == Entry(name, {"value"}, uses, {})
Class(name, eager) == Entry(name, {"type", "value"}, eager, eager)

\* A union of nothing leaves no text after the equals sign.
UnionType(name, members) == [Interface(name, members) EXCEPT !.parses = members # {}]

Marked(entries, of, role) ==
  [i \in DOMAIN entries |-> [entries[i] EXCEPT !.of = of, !.role = role]]

(***************************************************************************)
(* Types and schemas.                                                      *)
(***************************************************************************)
Named(ty) == IF ty.kind \in {"type", "error"} THEN {ty.name} ELSE {}
PlainName(ty) == ty.wraps = <<>> /\ Named(ty) # {}
SchemaExpr(ty) == Named(ty) \cup (IF PlainName(ty) THEN {} ELSE {Schema})

FieldTypes(fields) == UNION {Named(f.ty) : f \in Range(fields)}
FieldsObject(fields) == {Schema} \cup UNION {SchemaExpr(f.ty) : f \in Range(fields)}

DeclsById(ts) == [id \in {d.id : d \in ts} |-> CHOOSE d \in ts : d.id = id]

\* A visit of d, where `visit` visits what d refers to.
Visit(by_id, visit, st, d) ==
  LET refs == SetToSeq(DeclRefs(d) \cap DOMAIN by_id)
      below[i \in 0..Len(refs)] ==
        IF i = 0 THEN [st EXCEPT !.visiting = @ \cup {d}] ELSE visit[below[i - 1]][by_id[refs[i]]]
  IN IF d \in Range(st.sorted) THEN st
     ELSE IF d \in st.visiting THEN [st EXCEPT !.cyclic = TRUE]
     ELSE [below[Len(refs)] EXCEPT !.sorted = Append(@, d), !.visiting = st.visiting]

\* Depth first: a declaration follows those it refers to, unless it is one of them.  Each visit in
\* another visits one more declaration, so no more of them nest than there are declarations.
Sortings(ts) == [sorted : Seq(ts), visiting : SUBSET ts, cyclic : BOOLEAN]

TopoSortedTypes(ts) ==
  LET order == SetToSeq(ts)
      visit[n \in Nat] == [st \in Sortings(ts) |-> [d \in ts |->
                            IF n = 0 THEN st ELSE Visit(DeclsById(ts), visit[n - 1], st, d)]]
      after[i \in 0..Len(order)] ==
        IF i = 0 THEN [sorted |-> <<>>, visiting |-> {}, cyclic |-> FALSE]
        ELSE visit[Cardinality(ts) + 1][after[i - 1]][order[i]]
  IN after[Len(order)]

SchemaItems(d) ==
  LET name == TsName(d)
      fields == d.variants[1].fields
      variants == [i \in DOMAIN d.variants |->
                     Interface(name \o d.variants[i].name, FieldTypes(d.variants[i].fields))]
      members == {variants[i].name : i \in DOMAIN variants}
      all_fields == FlattenSeq([i \in DOMAIN d.variants |-> d.variants[i].fields])
  IN CASE d.shape = "struct" ->
            Marked(<<Interface(name, FieldTypes(fields)), Const(name, FieldsObject(fields))>>,
                   d.id, "symbol")
       [] d.shape = "newtype" ->
            Marked(<<Interface(name, FieldTypes(fields)), Const(name, SchemaExpr(fields[1].ty))>>,
                   d.id, "symbol")
       [] OTHER ->
            Marked(variants, d.id, "derived")
            \o Marked(<<UnionType(name, members), Const(name, FieldsObject(all_fields))>>,
                      d.id, "symbol")

SchemasFile(sorted) ==
  [imports |-> Import("compat", {Schema}),
   entries |-> FlattenSeq([i \in DOMAIN sorted |-> SchemaItems(sorted[i])])]

(***************************************************************************)
(* errors.ts and client.ts.                                                *)
(***************************************************************************)
DecoderName(name) == <<Low("decode")>> \o name
VariantId(d, v) == Id("variant", Append(d.id.at, d.id.name), v.name)

\* A class is named by its tag as it is.
IsIdentifier(name) == name # NoName /\ Dash \notin Range(name)

ErrorItems(d) ==
  LET name == TsName(d)
      class(v) == [Class(v.wire, FieldsObject(v.fields)) EXCEPT
                     !.of = VariantId(d, v), !.parses = IsIdentifier(v.wire)]
      tags == {v.wire : v \in Range(d.variants)}
      decoder == [FnConst(DecoderName(name), {Effect, ApiClientError, DecodeWithSchema, name})
                    EXCEPT !.parses = tags # {}]
  IN [i \in DOMAIN d.variants |-> class(d.variants[i])]
     \o Marked(<<UnionType(name, tags), Const(name, {Schema} \cup tags)>>, d.id, "symbol")
     \o Marked(<<decoder>>, d.id, "derived")

ErrorFields(errors) ==
  UNION {UNION {Range(v.fields) : v \in Range(d.variants)} : d \in errors}

ErrorsFile(errors) ==
  LET order == SetToSeq(errors)
  IN [imports |-> Import("runtime", {ApiClientError, DecodeWithSchema})
                  \cup Import("compat", {Effect, Schema})
                  \cup Import("schemas", UNION {Named(f.ty) : f \in ErrorFields(errors)}),
      entries |-> FlattenSeq([i \in DOMAIN order |-> ErrorItems(order[i])])]

ClientFile ==
  [imports |-> Import("runtime", {FetchClientConfig}) \cup Import("compat", {ContextName, LayerName}),
   entries |-> Marked(<<Class(ApiConfig, {ContextName}),
                        FnConst(LayerFn, {FetchClientConfig, LayerName, ApiConfig})>>,
                      Unknown, "client")]

(***************************************************************************)
(* endpoints/<module>.ts.                                                  *)
(***************************************************************************)
ArgsName(e) == Pascal(SplitWords(e.ts_name)) \o Pascal(<<"args">>)
RouteName(e) == e.ts_name \o Pascal(<<"route">>)
EndpointId(e) == Id("endpoint", e.at, e.rust_name)

Params(e) == Range(e.path_params \o e.query_params)
HasArgs(e) == Params(e) # {} \/ e.body # "none"
Streams(e) == e.transport = "sse" /\ e.success_ty # NoType
Decodes(e) == e.transport # "download" /\ e.success_ty # NoType

Factory(e) ==
  CASE Streams(e) -> MakeSseClient
    [] e.transport = "download" -> MakeBinaryDownloadClient
    [] e.transport = "upload" -> MakeBinaryUploadClient
    [] OTHER -> MakeUnaryHttpClient

\* The types whose schemas the endpoint object holds.
Encoded(e) ==
  (IF e.body = "json" THEN {e.body_ty} ELSE {}) \cup (IF Decodes(e) THEN {e.success_ty} ELSE {})

\* Mutant: the schema of a stream's items or of an answer is not looked at.
ImportsOfBody(e) ==
  [runtime |-> {Factory(e)} \cup (IF e.body = "json" THEN {EncodeWithSchema} ELSE {})
               \cup (IF Decodes(e) THEN {DecodeWithSchema} ELSE {}),
   runtime_types |-> {ApiClientError} \cup (IF e.body = "binary" THEN {BinaryRequestBody} ELSE {}),
   compat |-> {Effect} \cup (IF Streams(e) THEN {Stream} ELSE {})
              \cup (IF e.body # "json" \/ PlainName(e.body_ty) THEN {} ELSE {Schema}),
   schemas |-> (UNION {Named(p.ty) : p \in Params(e)}) \cup UNION {Named(ty) : ty \in Encoded(e)},
   errors |-> IF e.error = NoType THEN {} ELSE {e.error.name, DecoderName(e.error.name)}]

EndpointImports(e) ==
  [runtime |-> {Factory(e)} \cup (IF e.body = "json" THEN {EncodeWithSchema} ELSE {})
               \cup (IF Decodes(e) THEN {DecodeWithSchema} ELSE {}),
   runtime_types |-> {ApiClientError} \cup (IF e.body = "binary" THEN {BinaryRequestBody} ELSE {}),
   compat |-> {Effect} \cup (IF Streams(e) THEN {Stream} ELSE {})
              \cup (IF \A ty \in Encoded(e) : PlainName(ty) THEN {} ELSE {Schema}),
   schemas |-> (UNION {Named(p.ty) : p \in Params(e)}) \cup UNION {Named(ty) : ty \in Encoded(e)},
   errors |-> IF e.error = NoType THEN {} ELSE {e.error.name, DecoderName(e.error.name)}]

\* What the printed accessor mentions: its signature, then its body.
AccessorUses(e) ==
  {ApiConfig, ApiClientError, Factory(e), IF Streams(e) THEN Stream ELSE Effect}
  \cup (IF HasArgs(e) THEN {ArgsName(e)} ELSE {})
  \cup (IF Decodes(e) THEN {DecodeWithSchema} \cup SchemaExpr(e.success_ty) ELSE {})
  \cup (IF Streams(e) \/ (e.success_ty = NoType /\ e.transport # "download") THEN {Effect} ELSE {})
  \cup (IF e.body = "json" THEN {EncodeWithSchema} \cup SchemaExpr(e.body_ty) ELSE {})
  \cup (IF e.error = NoType THEN {} ELSE {e.error.name, DecoderName(e.error.name)})

ArgsUses(e) ==
  (UNION {Named(p.ty) : p \in Params(e)}) \cup Named(e.body_ty)
  \cup (IF e.body = "binary" THEN {BinaryRequestBody} ELSE {})

EndpointItems(e) ==
  (IF HasArgs(e) THEN Marked(<<Interface(ArgsName(e), ArgsUses(e))>>, EndpointId(e), "derived")
                 ELSE <<>>)
  \o Marked(<<Const(RouteName(e), {})>>, EndpointId(e), "route")
  \o Marked(<<FnConst(e.ts_name, AccessorUses(e))>>, EndpointId(e), "symbol")

EndpointFile(eps) ==
  LET order == SetToSeq(eps)
      all(Part(_)) == UNION {Part(EndpointImports(e)) : e \in eps}
  IN [imports |-> Import("runtime", all(LAMBDA i : i.runtime \cup i.runtime_types))
                  \cup Import("compat", all(LAMBDA i : i.compat))
                  \cup Import("client", {ApiConfig})
                  \cup Import("schemas", all(LAMBDA i : i.schemas))
                  \cup Import("errors", all(LAMBDA i : i.errors)),
      entries |-> FlattenSeq([i \in DOMAIN order |-> EndpointItems(order[i])])]

(***************************************************************************)
(* The package.  index.ts re-exports schemas and errors, ApiConfig and     *)
(* layer, and each module as a namespace.                                  *)
(***************************************************************************)
LowerPackage(c) ==
  LET names == {e.ts_module : e \in c.endpoints}
  IN [schemas |-> SchemasFile(TopoSortedTypes(c.types).sorted),
      errors |-> ErrorsFile(c.errors),
      client |-> ClientFile,
      modules |-> [m \in names |-> EndpointFile({e \in c.endpoints : e.ts_module = m})]]

\* Every type a schema expression is made for.
SchemaRefs(c) ==
  (UNION {DeclRefs(d) : d \in c.types \cup c.errors})
  \cup UNION {UNION {IdOf(ty) : ty \in Encoded(e)} : e \in c.endpoints}

GenerationDiagnostics(c) ==
  (IF TopoSortedTypes(c.types).cyclic THEN {Err("recursive-type")} ELSE {})
  \cup (IF \E d \in c.errors : d.id \in SchemaRefs(c) THEN {Err("error-as-type")} ELSE {})

Generate ==
  /\ phase = "extracted"
  /\ LET found == GenerationDiagnostics(contract)
     IN IF HasErrors
        THEN phase' = "skipped" /\ UNCHANGED <<diags, package>>
        ELSE /\ diags' = diags \cup found
             /\ phase' = IF \E d \in found : d.error THEN "skipped" ELSE "written"
             /\ package' = IF phase' = "written" THEN LowerPackage(contract) ELSE package
  /\ UNCHANGED <<src, modules, decls, unvisited, queue, types, endpoints, contract>>

\* The process ends.
Done == Finished /\ UNCHANGED vars

Next ==
  \/ Walk
  \/ LowerAllDecls
  \/ DrainTypeQueue
  \/ DeclsLowered
  \/ \E m \in unvisited : LowerEndpoints(m)
  \/ Extract
  \/ Generate
  \/ Done

Spec == Init /\ [][Next]_vars

(***************************************************************************)
(* Properties.                                                             *)
(***************************************************************************)
\* What is left of a round, the weightiest first.
StagesLeft == [start |-> 4, decls |-> 3, endpoints |-> 2, extracted |-> 1,
               refused |-> 0, skipped |-> 0, written |-> 0]
Declarable == UNION {{Item(m, i.name) : i \in Range(src.mods[m].items)} : m \in DOMAIN src.mods}
Left == <<StagesLeft[phase], Cardinality(unvisited), Len(decls),
          Cardinality(Declarable) - Cardinality(DOMAIN types), Len(queue)>>
Less(a, b) == \E i \in DOMAIN a : a[i] < b[i] /\ \A j \in 1..(i - 1) : a[j] = b[j]

\* A round of the generator ends, however types, aliases, globs and routers refer to one another:
\* every step leaves less to do, so the queue that lowering a declaration extends runs dry.
GenerationEnds == [][Less(Left', Left)]_vars

Files(p) == {p.schemas, p.errors, p.client} \cup {p.modules[m] : m \in DOMAIN p.modules}
NamesOf(file) == {x.name : x \in Range(file.entries)}

\* What the generator prints as it stands: no union without members, no class whose tag is not an
\* identifier, no reference to an error that is a struct.
Printable(c) ==
  /\ \A d \in c.types \cup c.errors : d.shape # "struct" => d.variants # <<>>
  /\ \A d \in c.errors : \A v \in Range(d.variants) : IsIdentifier(v.wire)
  /\ (UNION {EndpointRefs(e) : e \in c.endpoints}) \cup (UNION {DeclRefs(d) : d \in c.types \cup c.errors})
       \subseteq {d.id : d \in c.types \cup c.errors}

Loads(p, file) ==
  LET imported == {i.name : i \in file.imports}
      own == [schemas |-> p.schemas, errors |-> p.errors, client |-> p.client]
  IN /\ \A i \in file.imports : i.from \in DOMAIN own => i.name \in NamesOf(own[i.from])
     /\ \A n \in DOMAIN file.entries :
          LET x == file.entries[n]
              before == {file.entries[k].name : k \in 1..(n - 1)}
          IN /\ x.parses
             /\ x.uses \subseteq imported \cup NamesOf(file)
             /\ x.eager \subseteq imported \cup before

\* The files written parse and load: every name a file uses is declared in it or imported, what it
\* imports is exported there, and a schema is evaluated after those it is made of.  The imports of
\* an endpoint file are collected by hand beside the text they are for (EndpointImports).
FilesLoad ==
  phase = "written" /\ Printable(contract) => \A file \in Files(package) : Loads(package, file)

\* Two names that come straight from Rust never meet, in a file or in the index: the check for
\* collisions is complete for them.  Names the generator makes up (a variant's interface, Args,
\* Route, decode) and those it imports from the runtime are not checked by the code, nor is an
\* accessor against a type that is spelt like one.
NamesUniqueUnlessDerived ==
  phase = "written" =>
    LET decls_made == contract.types \cup contract.errors
        own(file) == {x \in Range(file.entries) : x.role = "symbol"}
        apart(xs) == \A x, y \in xs : x.of # y.of => x.name # y.name
        lent(file) == {i.name : i \in {j \in file.imports : j.from \in {"schemas", "errors"}}}
                        \ {DecoderName(TsName(d)) : d \in contract.errors}
    IN /\ \A file \in Files(package) : apart(own(file))
       /\ apart(own(package.schemas) \cup own(package.errors))
       /\ Printable(contract) /\ (\A d \in decls_made : UsualVariant(TsName(d))) =>
            \A file \in Files(package) : \A x \in own(file) : x.name \notin lent(file)

(***************************************************************************)
(* The wire.                                                               *)
(***************************************************************************)
FieldsKept(fields, given, rule, usual_only) ==
  \A i \in DOMAIN given : (usual_only => UsualField(given[i].name)) =>
    fields[i].wire = SerdeName(given[i].attrs, SerdeField(given[i].name, rule))

NamesKept(d, usual_only) ==
  LET item == SourceItem(d.id.at, d.id.name)
      serde_rule(v) == IF d.shape = "struct" THEN item.attrs.all
                       ELSE IF v.attrs.all # "none" THEN v.attrs.all ELSE item.attrs.fields
  IN d.shape # "newtype" => \A i \in DOMAIN d.variants :
       LET v == item.variants[i]
       IN /\ FieldsKept(d.variants[i].fields, v.fields, serde_rule(v), usual_only)
          /\ d.shape # "struct" /\ (usual_only => UsualVariant(v.name)) =>
               d.variants[i].wire = SerdeName(v.attrs, SerdeVariant(v.name, item.attrs.all))

\* Serde passes over what is said of the presence of a newtype's field.
PresenceKept(d) ==
  LET given == SourceItem(d.id.at, d.id.name).variants
  IN \A i \in DOMAIN given : \A j \in DOMAIN given[i].fields :
       LET g == given[i].fields[j]
           f == d.variants[i].fields[j]
           attrs == IF d.shape = "newtype" THEN NoAttrs ELSE g.attrs
           nullable == IsOption(TypeOf(modules, d.id.at, g.ty).ty)
       IN /\ Emits(nullable, attrs) \subseteq Allows(f.optionality, f.ty)
          /\ Allows(f.optionality, f.ty) \subseteq Takes(nullable, attrs)

\* The schemas accept what serde writes and allow what serde reads: a field is under serde's name,
\* may be missing or null only where serde says so, and a variant has serde's tag.  For fields whose
\* name is words in small letters with one underscore between each two, which leaves out type_ and
\* r#type, and for variants whose name is capitalised words without one.
WireAgrees ==
  phase = "written" => \A d \in contract.types \cup contract.errors :
    NamesKept(d, TRUE) /\ PresenceKept(d)

\* The same for every name the compiler accepts, which is what serde_attrs.rs:3 promises: "the
\* generated TypeScript schema can never silently drift from the Rust wire format".
WireFormatKept ==
  phase = "written" => \A d \in contract.types \cup contract.errors : NamesKept(d, FALSE)
=============================================================================
