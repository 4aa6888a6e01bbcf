----------------------------- MODULE Extraction -----------------------------
(***************************************************************************)
(* The extractor (extract/mod.rs, extract/router.rs): from the sources of  *)
(* a workspace to the contract of one package.  Declarations are lowered   *)
(* as they are referenced, through a queue; the modules are visited for    *)
(* endpoints in the order of a hash map, which is any.                     *)
(*                                                                         *)
(* An item is [name, kind, pub, ...].  Structs, enums, errors and aliases  *)
(* have generic, attrs and variants, a struct or an alias having one; a    *)
(* variant has fields [name, attrs, ty].  A type is [wraps, path], a route *)
(* or a prefix a sequence of segments [param, name], each behind a slash.  *)
(* The empty segment, Slash, is the end of a route written with a slash at *)
(* its end, and all of "/".                                                *)
(***************************************************************************)
EXTENDS Resolver

CONSTANTS
  Programs, \* the workspaces that may be extracted
  Paths     \* the paths the resolver is asked for

(***************************************************************************)
(* Workspaces.  A struct, an alias or a newtype has one variant, which has *)
(* no name, and the last two have one field.  The items of a module are    *)
(* told apart by their names: that a function and a type may share one is  *)
(* left out.                                                               *)
(***************************************************************************)
AttrSets == [flags : SUBSET STRING, rename : Identifier, all : Rules, fields : Rules]
TypeTexts == [wraps : Seq(STRING), path : Path]
Segments == [param : BOOLEAN, name : Identifier]
Slash == [param |-> FALSE, name |-> NoName]

FieldItems == [name : Identifier, attrs : AttrSets, ty : TypeTexts]
VariantItems ==
  [name : Identifier, attrs : AttrSets, status : BOOLEAN, shape : STRING, fields : Seq(FieldItems)]
DeclItems ==
  [name : Identifier, kind : {"struct", "newtype", "tuple", "enum", "error", "error struct", "alias", "plain"},
   pub : BOOLEAN, generic : BOOLEAN, attrs : AttrSets, variants : Seq(VariantItems)]

Types == [kind : STRING, ty : TypeTexts]
ParamItems == [kind : STRING, name : Identifier, ty : TypeTexts]
EndpointFns ==
  [name : Identifier, kind : {"endpoint"}, pub : BOOLEAN, attr_ok : BOOLEAN, method : STRING,
   route : Seq(Segments), allow_unused : BOOLEAN, async : BOOLEAN, generic : BOOLEAN,
   params : Seq(ParamItems), ret : Types, err : Types]
RouterFns ==
  [name : Identifier, kind : {"router"}, pub : BOOLEAN,
   calls : Seq([op : STRING, path : Path, prefix : Seq(Segments)])]

Sources ==
  [file : STRING, items : Seq(DeclItems \cup EndpointFns \cup RouterFns),
   uses : Seq([name : Identifier, path : Path, pub : BOOLEAN]),
   globs : Seq([path : Path, pub : BOOLEAN])]

OneOf(item) ==
  /\ IF item.kind \in {"enum", "error"} THEN \A v \in Range(item.variants) : v.name # NoName
                                         ELSE Len(item.variants) = 1
  /\ item.kind \in {"newtype", "alias"} => Len(item.variants[1].fields) = 1

IsWorkspace(p) ==
  /\ IsFiniteSet(DOMAIN p.mods) /\ DOMAIN p.mods \subseteq Key
  /\ \A m \in DOMAIN p.mods : p.mods[m] \in Sources
  /\ \A m \in DOMAIN p.mods : \A i \in Range(p.mods[m].items) :
       i.name # NoName /\ (i \in DeclItems => OneOf(i))
  /\ \A m \in DOMAIN p.mods : \A i, j \in DOMAIN p.mods[m].items :
       p.mods[m].items[i].name = p.mods[m].items[j].name => i = j

ASSUME ProgramsAssumption == \A p \in Programs : IsWorkspace(p)

VARIABLES
  src,        \* the workspace, which does not change
  phase,      \* how far `extract` and then `generate` are
  modules,    \* the modules walked: module -> its data
  decls,      \* declarations still to validate
  unvisited,  \* modules whose endpoints are still to lower
  queue,      \* named declarations referenced but not yet lowered
  types,      \* SymbolId -> declaration, types and errors alike
  endpoints,  \* the endpoints lowered so far
  diags,      \* the diagnostics
  contract,   \* the contract, once extracted
  package     \* the package, once generated

vars == <<src, phase, modules, decls, unvisited, queue, types, endpoints, diags, contract,
          package>>

Err(code) == [code |-> code, error |-> TRUE]
Warn(code) == [code |-> code, error |-> FALSE]
HasErrors == \E d \in diags : d.error

(***************************************************************************)
(* Lowering returns what was lowered, what it enqueued and its diagnostics.*)
(***************************************************************************)
NoType == [wraps |-> <<>>, kind |-> "none", at |-> <<>>, name |-> <<>>]
Lowered(kind, at, name) ==
  [ty |-> [wraps |-> <<>>, kind |-> kind, at |-> at, name |-> name], queue |-> <<>>, diags |-> {}]
Failed(code) == [ty |-> NoType, queue |-> <<>>, diags |-> {Err(code)}]

Queued(rs) == FlattenSeq([i \in DOMAIN rs |-> rs[i].queue])
Reported(rs) == UNION {rs[i].diags : i \in DOMAIN rs}

Id(ns, at, name) == [ns |-> ns, at |-> at, name |-> name]

StringType == Pascal(<<"string">>)
I32 == Snake(<<"i32">>)
U64 == Snake(<<"u64">>)
Primitives == {StringType, I32, U64}
StdString == <<Snake(<<"std">>), Snake(<<"string">>), StringType>>

FindItem(tab, m, name) == CHOOSE i \in Range(tab[m].items) : i.name = name

ApiItemKind(item) ==
  CASE item.kind \in {"struct", "newtype", "tuple", "enum"} -> "type"
    [] item.kind \in {"error", "error struct"} -> "error"
    [] OTHER -> "none"

\* A wrapper around `inner`, at a path that resolves to `resolved`.
LowerWrapper(wrapper, resolved, inner) ==
  CASE wrapper = "map of i32" -> Failed("invalid-map-key")
    [] wrapper = "generic" -> Failed("unresolved-type")
    [] wrapper \in {"of utc", "of local"} ->
         IF resolved # External(<<Chrono, DateTime>>) THEN Failed("unresolved-type")
         ELSE IF wrapper = "of utc" THEN Lowered("external", resolved.at, <<>>)
         ELSE Failed("invalid-datetime")
    [] OTHER -> IF wrapper = "box" \/ inner.ty = NoType THEN inner
                ELSE [inner EXCEPT !.ty.wraps = <<wrapper>> \o @]

\* A named type.  An alias is reached here only when it has been gone through before.
LowerItem(at, item) ==
  CASE item.kind = "alias" -> Failed("alias-cycle")
    [] ApiItemKind(item) # "none" ->
         [Lowered(ApiItemKind(item), at, item.name) EXCEPT !.queue = <<Item(at, item.name)>>]
    [] OTHER -> Failed("missing-api-derive")

IsPrimitive(path) == Len(path) = 1 /\ path[1] \in Primitives

\* A link is a type as it is written in a module, `via` the alias it was written for.
Resolved(tab, link) == ResolvePath(tab, link.m, link.ty.path)

LowerPath(tab, link) ==
  LET resolved == Resolved(tab, link)
  IN IF IsPrimitive(link.ty.path)
     THEN [Lowered("primitive", <<>>, link.ty.path[1]) EXCEPT
             !.diags = IF link.ty.path[1] = U64 THEN {Warn("imprecise-int")} ELSE {}]
     ELSE CASE resolved.e = "external" -> Lowered("external", resolved.at, <<>>)
            [] resolved.e = "item" ->
                 LowerItem(resolved.at, FindItem(tab, resolved.at, resolved.name))
            [] OTHER -> IF link.ty.path = StdString THEN Lowered("primitive", <<>>, StringType)
                        ELSE Failed("unresolved-type")

ForAlias(r, item) == [via |-> r, m |-> r.at, ty |-> item.variants[1].fields[1].ty]

\* What comes after the last of some links.
FollowAlias(tab, links) ==
  LET r == Resolved(tab, Last(links))
      item == FindItem(tab, r.at, r.name)
  IN IF \/ IsPrimitive(Last(links).ty.path) \/ r.e # "item"
        \/ item.kind # "alias" \/ r \in {links[i].via : i \in DOMAIN links}
     THEN links ELSE Append(links, ForAlias(r, item))

Aliases(tab) ==
  UNION {{Item(m, i.name) : i \in {x \in Range(tab[m].items) : x.kind = "alias"}} : m \in DOMAIN tab}

\* A type and the aliases it goes through, none of them twice.
Links(tab, m, ty) ==
  LET within[n \in Nat] == IF n = 0 THEN <<[via |-> Unknown, m |-> m, ty |-> ty]>>
                                    ELSE FollowAlias(tab, within[n - 1])
  IN within[Cardinality(Aliases(tab))]

\* The wrappers of a link, each with what the path they are around resolves to.
Layers(tab, link) ==
  [i \in DOMAIN link.ty.wraps |-> [wrapper |-> link.ty.wraps[i], resolved |-> Resolved(tab, link)]]

\* Layers around what was lowered within them.
Around(layers, innermost) ==
  LET within[n \in 0..Len(layers)] ==
        IF n = 0 THEN innermost
        ELSE LET outer == layers[Len(layers) + 1 - n]
             IN LowerWrapper(outer.wrapper, outer.resolved, within[n - 1])
  IN within[Len(layers)]

\* A type is lowered from the inside out: the last of its links, then all that is around it.
TypeOf(tab, m, ty) ==
  LET links == Links(tab, m, ty)
  IN Around(FlattenSeq([i \in DOMAIN links |-> Layers(tab, links[i])]), LowerPath(tab, Last(links)))

\* Path and query parameters are strings in the URL.
Scalar(r) ==
  IF r.ty = NoType \/ (r.ty.wraps = <<>> /\ r.ty.kind \in {"primitive", "external"}
                         /\ r.ty.at # <<SerdeJson, Value>>) THEN r
  ELSE [ty |-> NoType, queue |-> r.queue, diags |-> r.diags \cup {Err("invalid-param-type")}]

LowerScalar(tab, m, ty) == Scalar(TypeOf(tab, m, ty))

(***************************************************************************)
(* Declarations.  A declaration is entered before it is lowered, and stays *)
(* the empty placeholder where it is refused.                              *)
(***************************************************************************)
Placeholder(id) == [id |-> id, shape |-> "struct", variants |-> <<>>]
Refused(id) == [decl |-> Placeholder(id), queue |-> <<>>, diags |-> {Err("invalid-api-item")}]

LowerField(tab, m, f) ==
  LET shape == FieldWireShape(f.ty, f.attrs)
  IN IF ~(FromAttrs(f.attrs) /\ ValidField(f.attrs) /\ shape.ok) THEN Failed("invalid-api-item")
     ELSE TypeOf(tab, m, shape.inner)

\* Of a declaration's parts, from the results of lowering what is in them.
FieldsOf(fields, rule, rs) ==
  LET field(i) == [name |-> fields[i].name, ty |-> rs[i].ty,
                   wire |-> WireName(fields[i].name, fields[i].attrs, rule),
                   optionality |-> FieldWireShape(fields[i].ty, fields[i].attrs).optionality]
  IN [fields |-> Those([i \in DOMAIN fields |-> field(i)], LAMBDA f : f.ty # NoType),
      queue |-> Queued(rs), diags |-> Reported(rs)]

VariantOf(v, all, r) ==
  [variant |-> <<[name |-> v.name, wire |-> WireName(v.name, v.attrs, all), fields |-> r.fields]>>,
   queue |-> r.queue, diags |-> r.diags]

EnumOf(id, rs) ==
  [decl |-> [id |-> id, shape |-> id.ns,
             variants |-> FlattenSeq([i \in DOMAIN rs |-> rs[i].variant])],
   queue |-> Queued(rs), diags |-> Reported(rs)]

NewtypeOf(id, r) ==
  LET field == [name |-> NoName, wire |-> NoName, ty |-> r.ty, optionality |-> "required"]
  IN [decl |-> IF r.ty = NoType THEN Placeholder(id)
               ELSE [id |-> id, shape |-> "newtype",
                     variants |-> <<[name |-> NoName, wire |-> NoName, fields |-> <<field>>]>>],
      queue |-> r.queue, diags |-> r.diags]

StructOf(id, r) ==
  [decl |-> [id |-> id, shape |-> "struct",
             variants |-> <<[name |-> NoName, wire |-> NoName, fields |-> r.fields]>>],
   queue |-> r.queue, diags |-> r.diags]

LowerFields(tab, m, fields, rule) ==
  FieldsOf(fields, rule, Mapped(LAMBDA f : LowerField(tab, m, f), fields))

LowerVariant(tab, m, v, attrs, is_error) ==
  IF \/ ~(FromAttrs(v.attrs) /\ ValidVariant(v.attrs)) \/ v.shape = "tuple"
     \/ is_error /\ ~v.status
  THEN [variant |-> <<>>, queue |-> <<>>, diags |-> {Err("invalid-api-item")}]
  ELSE VariantOf(v, attrs.all, LowerFields(tab, m, v.fields, FieldRule(v.attrs, attrs)))

LowerEnum(tab, m, item, id) ==
  IF ~ValidEnum(item.attrs) THEN Refused(id)
  ELSE EnumOf(id, Mapped(LAMBDA v : LowerVariant(tab, m, v, item.attrs, id.ns = "error"),
                         item.variants))

LowerNewtype(tab, m, field, id) == NewtypeOf(id, TypeOf(tab, m, field.ty))

LowerStruct(tab, m, item, id) ==
  LET fields == item.variants[1].fields
      transparent == "transparent" \in item.attrs.flags
      refused == CASE item.kind = "tuple" -> TRUE
                   [] item.kind = "newtype" -> ~ValidNewtype(item.attrs)
                   [] OTHER -> \/ ~ValidStruct(item.attrs)
                               \/ transparent /\ ~(/\ Len(fields) = 1
                                                   /\ ValidTransparentField(fields[1].attrs))
  IN IF refused THEN Refused(id)
     ELSE IF item.kind = "newtype" \/ transparent THEN LowerNewtype(tab, m, fields[1], id)
     ELSE StructOf(id, LowerFields(tab, m, fields, item.attrs.all))

LowerDecl(tab, m, item) ==
  LET id == Id(ApiItemKind(item), m, item.name)
  IN IF item.generic \/ ~FromAttrs(item.attrs) THEN Refused(id)
     ELSE IF item.kind \in {"enum", "error"} THEN LowerEnum(tab, m, item, id)
     ELSE LowerStruct(tab, m, item, id)

\* What is known once r has been lowered, and what is left to lower.
Entered(id, r, known) ==
  [types |-> [x \in DOMAIN known \cup {id} |-> IF x \in DOMAIN known THEN known[x] ELSE r.decl],
   queue |-> r.queue, diags |-> r.diags]

\* Mutant: a declaration is lowered at every reference to it.
LowerEachTime(key) ==
  LET item == FindItem(modules, key.at, key.name)
  IN Entered(Id(ApiItemKind(item), key.at, key.name), LowerDecl(modules, key.at, item), types)

\* A struct that derives ApiError is passed over in silence.
LowerNamedDecl(key) ==
  LET item == FindItem(modules, key.at, key.name)
      id == Id(ApiItemKind(item), key.at, key.name)
  IN IF item.kind = "error struct" \/ id \in DOMAIN types
     THEN [types |-> types, queue |-> <<>>, diags |-> {}]
     ELSE Entered(id, LowerDecl(modules, key.at, item), types)

(***************************************************************************)
(* Endpoints.  `analyze_endpoint` (typeweld-syntax/endpoint.rs) is shared  *)
(* with the #[api] macro.                                                  *)
(***************************************************************************)
Kinds(ps) == [i \in DOMAIN ps |-> ps[i].kind]
Bodies == {"body", "binary"}

RouteParams(route) == {s.name : s \in {x \in Range(route) : x.param}}

ValidParams(e) ==
  /\ \A p \in Range(e.params) : p.kind \in {"path", "query"} \cup Bodies
  /\ Len(Those(e.params, LAMBDA p : p.kind = "query")) <= 1
  /\ Len(Those(e.params, LAMBDA p : p.kind \in Bodies)) <= 1

ValidRouteParams(e) ==
  LET paths == Those(e.params, LAMBDA p : p.kind = "path")
  IN /\ \A n \in RouteParams(e.route) : Len(Those(paths, LAMBDA p : p.name = n)) = 1
     /\ \A p \in Range(paths) : p.name \in RouteParams(e.route)

AnalyzeEndpoint(e) ==
  /\ e.async \/ e.method = "sse"
  /\ ~e.generic
  /\ ValidParams(e)
  /\ ValidRouteParams(e)
  /\ e.ret.kind \in {"none", "json", "created", "sse", "binary"}
  /\ e.err.kind \in {"none", "type"}
  /\ (Range(Kinds(e.params)) \cap Bodies # {}) => e.method \in {"post", "put", "patch"}
  /\ (e.ret.kind = "sse") = (e.method = "sse")
  /\ ~("binary" \in Range(Kinds(e.params)) /\ e.ret.kind = "binary")

HttpMethod(m) == IF m = "sse" THEN "get" ELSE m

\* The first static segment of the route names the module.
DefaultTsModule(route) ==
  LET static == Those(route, LAMBDA s : ~s.param /\ s # Slash)
  IN IF static = <<>> THEN Snake(<<"api">>) ELSE ToCamelCase(Head(static).name)

ItemOnly(r) == IF r.e = "item" THEN r ELSE Unknown

ResolveNamed(tab, m, ty) ==
  IF ty.wraps # <<>> THEN Unknown ELSE ItemOnly(ResolvePath(tab, m, ty.path))

NoParams(code) == [params |-> <<>>, queue |-> <<>>, diags |-> {Err(code)}]

ParamOf(name, required, r) ==
  [params |-> IF r.ty = NoType THEN <<>> ELSE <<[name |-> name, ty |-> r.ty, required |-> required]>>,
   queue |-> r.queue, diags |-> r.diags]

\* The fields of a Query<T> struct are the parameters.  The struct is not enqueued.
LowerQueryField(tab, m, f, rule) ==
  LET shape == FieldWireShape(f.ty, f.attrs)
  IN IF ~(FromAttrs(f.attrs) /\ shape.ok) THEN NoParams("invalid-api-item")
     ELSE ParamOf(WireName(f.name, f.attrs, rule), shape.optionality = "required",
                  LowerScalar(tab, m, shape.inner))

QueryOf(rs) ==
  [params |-> FlattenSeq([i \in DOMAIN rs |-> rs[i].params]),
   queue |-> Queued(rs), diags |-> Reported(rs)]

LowerQueryItem(tab, m, item) ==
  IF item.kind \notin {"struct", "plain", "error struct"} THEN NoParams("invalid-query-type")
  ELSE IF ~FromAttrs(item.attrs) THEN NoParams("invalid-api-item")
  ELSE QueryOf(Mapped(LAMBDA f : LowerQueryField(tab, m, f, item.attrs.all),
                      item.variants[1].fields))

LowerQueryStruct(tab, at) ==
  IF at = Unknown THEN NoParams("unresolved-type")
  ELSE LowerQueryItem(tab, at.at, FindItem(tab, at.at, at.name))

LowerErrorRef(tab, at) ==
  IF at = Unknown THEN Failed("unresolved-type")
  ELSE IF ApiItemKind(FindItem(tab, at.at, at.name)) # "error" THEN Failed("invalid-error-type")
  ELSE [Lowered("error", at.at, at.name) EXCEPT !.queue = <<at>>]

Nothing == [ty |-> NoType, queue |-> <<>>, diags |-> {}]

LowerParam(tab, m, p) ==
  CASE p.kind = "query" -> LowerQueryStruct(tab, ResolveNamed(tab, m, p.ty))
    [] p.kind = "path" -> ParamOf(p.name, TRUE, LowerScalar(tab, m, p.ty))
    [] p.kind = "body" -> TypeOf(tab, m, p.ty)
    [] OTHER -> Nothing

\* Of e, from the results of lowering its parameters, its answer and its error.
EndpointOf(m, e, rs, success, error) ==
  LET of(kind) == FlattenSeq([i \in DOMAIN rs |-> IF e.params[i].kind = kind THEN rs[i].params
                                                   ELSE <<>>])
      bodies == {i \in DOMAIN rs : e.params[i].kind = "body" /\ rs[i].ty # NoType}
      binary == "binary" \in Range(Kinds(e.params))
      all == Append(Append(rs, success), error)
  IN [endpoint |->
        <<[at |-> m, rust_name |-> e.name, ts_name |-> ToCamelCase(e.name),
           ts_module |-> DefaultTsModule(e.route), route |-> e.route, method |-> HttpMethod(e.method),
           path_params |-> of("path"), query_params |-> of("query"),
           body |-> IF binary THEN "binary" ELSE IF bodies # {} THEN "json" ELSE "none",
           body_ty |-> IF bodies = {} THEN NoType ELSE rs[CHOOSE i \in bodies : TRUE].ty,
           transport |-> IF binary THEN "upload"
                         ELSE CASE e.ret.kind = "sse" -> "sse"
                                [] e.ret.kind = "binary" -> "download"
                                [] OTHER -> "unary",
           success_ty |-> success.ty, error |-> error.ty,
           mounts |-> 0, allow_unused |-> e.allow_unused]>>,
      queue |-> Queued(all), diags |-> Reported(all)]

LowerEndpoint(tab, m, e) ==
  IF ~e.attr_ok \/ ~AnalyzeEndpoint(e)
  THEN [endpoint |-> <<>>, queue |-> <<>>, diags |-> {Err("invalid-api-item")}]
  ELSE EndpointOf(m, e, Mapped(LAMBDA p : LowerParam(tab, m, p), e.params),
                  IF e.ret.kind \in {"json", "created", "sse"} THEN TypeOf(tab, m, e.ret.ty)
                  ELSE Nothing,
                  IF e.err.kind = "type" THEN LowerErrorRef(tab, ResolveNamed(tab, m, e.err.ty))
                  ELSE Nothing)

(***************************************************************************)
(* Routers (extract/router.rs).  A router has calls [op, path, prefix] in  *)
(* the order of its text, and a merge has the prefix "".  "endpoint other" *)
(* stands for an argument that is not a path, "nest opaque" for a prefix   *)
(* that is not a literal, "merge opaque" for a router that is not called   *)
(* by its path; the path is then the router that is really joined.         *)
(***************************************************************************)
ResolveFnPath(tab, m, path) == ItemOnly(ResolvePath(tab, m, path))

RouterOf(key, calls) ==
  LET mounted == Those(calls, LAMBDA c : c.op = "endpoint" /\ c.to # Unknown)
      joined == Those(calls, LAMBDA c : c.op \in {"nest", "merge"} /\ c.to # Unknown)
  IN [key |-> key,
      mounts |-> Mapped(LAMBDA c : c.to, mounted),
      children |-> Mapped(LAMBDA c : [prefix |-> c.prefix, key |-> c.to], joined),
      diags |-> UNION {CASE c.op = "endpoint other" -> {Err("invalid-router-call")}
                         [] c.op = "endpoint" /\ c.to = Unknown -> {Err("invalid-router-call")}
                         [] c.op \in {"nest opaque", "merge opaque"} -> {Warn("opaque-router-call")}
                         [] OTHER -> {} : c \in Range(calls)}]

AnalyzeRouter(tab, m, router) ==
  RouterOf(Item(m, router.name),
           Mapped(LAMBDA c : [op |-> c.op, prefix |-> c.prefix, to |-> ResolveFnPath(tab, m, c.path)],
                  router.calls))

Routers(tab) ==
  UNION {{AnalyzeRouter(tab, m, i) : i \in {x \in Range(tab[m].items) : x.kind = "router"}} :
         m \in DOMAIN tab}

\* The routers of a package that a router nests or merges.
Known(routers, r) == Those(r.children, LAMBDA c : \E x \in routers : x.key = c.key)
Child(routers, c) == CHOOSE x \in routers : x.key = c.key

\* A path without the slashes at its end.
Trimmed(path) ==
  LET named == {i \in DOMAIN path : path[i] # Slash}
  IN IF named = {} THEN <<>> ELSE SubSeq(path, 1, Max(named))

\* A prefix that is written without its first slash is given one, and no slash at the end is kept.
JoinPrefix(outer, inner) ==
  LET joined == Trimmed(outer) \o Trimmed(inner)
  IN IF joined = <<>> THEN <<Slash>> ELSE joined

\* Mutant: a nested router is met where its parent is.
PrefixesDropped(routers, root) ==
  LET collect[r \in routers, prefix \in Seq(Segments), stack \in SUBSET {x.key : x \in routers}] ==
        IF r.key \in stack THEN <<>>
        ELSE Mapped(LAMBDA x : [endpoint |-> x, prefix |-> prefix], r.mounts)
             \o FlattenSeq(Mapped(LAMBDA c : collect[Child(routers, c), prefix, stack \cup {r.key}],
                                  Known(routers, r)))
  IN collect[root, <<>>, {}]

\* The routes below a router, each with the endpoint it was met at.  A router on the stack is a cycle.
CollectMounts(routers, root) ==
  LET collect[r \in routers, prefix \in Seq(Segments), stack \in SUBSET {x.key : x \in routers}] ==
        IF r.key \in stack THEN <<>>
        ELSE Mapped(LAMBDA x : [endpoint |-> x, prefix |-> prefix], r.mounts)
             \o FlattenSeq(Mapped(LAMBDA c : collect[Child(routers, c), JoinPrefix(prefix, c.prefix),
                                                     stack \cup {r.key}],
                                  Known(routers, r)))
  IN collect[root, <<>>, {}]

Roots(routers) ==
  {r \in routers : ~\E x \in routers : \E c \in Range(x.children) : c.key = r.key}

Mounted(routers) ==
  LET roots == SetToSeq(Roots(routers))
  IN FlattenSeq(Mapped(LAMBDA r : CollectMounts(routers, r), roots))

ApplyMounts(e, mounted) ==
  LET mounts == Those(mounted, LAMBDA x : x.endpoint = Item(e.at, e.rust_name))
      routes == {JoinPrefix(x.prefix, e.route) : x \in Range(mounts)}
  IN CASE routes = {} -> [endpoint |-> e, diags |-> {Warn("unmounted-endpoint")}]
       [] OTHER -> [endpoint |-> [e EXCEPT !.route = CHOOSE r \in routes : TRUE,
                                           !.mounts = Len(mounts)],
                    diags |-> IF Cardinality(routes) > 1 THEN {Warn("ambiguous-mount")} ELSE {}]

(***************************************************************************)
(* The contract: what the endpoints reach, and whether its names clash.    *)
(***************************************************************************)
IdOf(ty) == IF ty.kind \in {"type", "error"} THEN {Id(ty.kind, ty.at, ty.name)} ELSE {}

DeclRefs(d) == UNION {UNION {IdOf(f.ty) : f \in Range(v.fields)} : v \in Range(d.variants)}

EndpointRefs(e) ==
  IdOf(e.body_ty) \cup IdOf(e.success_ty) \cup IdOf(e.error)
  \cup UNION {IdOf(p.ty) : p \in Range(e.path_params \o e.query_params)}

\* Mutant: what the declarations refer to is left out.
DirectIds(eps, known) == UNION {EndpointRefs(e) : e \in eps}

ReachableIds(eps, known) ==
  LET grow[n \in Nat] ==
        IF n = 0 THEN UNION {EndpointRefs(e) : e \in eps}
        ELSE grow[n - 1] \cup UNION {DeclRefs(known[id]) : id \in grow[n - 1] \cap DOMAIN known}
  IN grow[Cardinality(DOMAIN known)]

NsDecls(ds, ns) == {d \in ds : d.id.ns = ns}
Clash(ds, Name(_)) == \E d, x \in ds : d # x /\ Name(d) = Name(x)
TsName(d) == d.id.name

\* Mutant: tags are compared with one another only.
CollisionsOfKind(eps, ds) ==
  LET es == NsDecls(ds, "error")
      tags == UNION {{[of |-> d.id, at |-> i, wire |-> d.variants[i].wire] :
                        i \in DOMAIN d.variants} : d \in es}
      accessor(e) == <<e.ts_module, e.ts_name>>
      tag(t) == t.wire
  IN IF \/ Clash(NsDecls(ds, "type"), TsName) \/ Clash(es, TsName) \/ Clash(tags, tag)
        \/ Clash(eps, accessor)
        \/ \E t \in NsDecls(ds, "type"), e \in es : TsName(t) = TsName(e)
     THEN {Err("name-collision")} ELSE {}

NameCollisions(eps, ds) ==
  LET ts == NsDecls(ds, "type")
      es == NsDecls(ds, "error")
      tags == UNION {{[of |-> d.id, at |-> i, wire |-> d.variants[i].wire] :
                        i \in DOMAIN d.variants} : d \in es}
      accessor(e) == <<e.ts_module, e.ts_name>>
      tag(t) == t.wire
  IN IF \/ Clash(ts, TsName) \/ Clash(es, TsName) \/ Clash(tags, tag) \/ Clash(eps, accessor)
        \/ \E t \in ts, e \in es : TsName(t) = TsName(e)
        \/ \E t \in tags, d \in ds : t.wire = TsName(d)
     THEN {Err("name-collision")} ELSE {}

(***************************************************************************)
(* extract.                                                                *)
(***************************************************************************)
NoContract == [endpoints |-> {}, types |-> {}, errors |-> {}]

Init ==
  /\ src \in Programs
  /\ phase = "start"
  /\ modules = <<>>
  /\ decls = <<>> /\ unvisited = {} /\ queue = <<>>
  /\ types = <<>> /\ endpoints = {} /\ diags = {}
  /\ contract = NoContract /\ package = <<>>

Walk ==
  /\ phase = "start"
  /\ IF src.target \in src.members
     THEN /\ phase' = "decls"
          /\ modules' = ModuleMap(src)
          /\ decls' = SetToSeq(UNION {{Item(m, i.name) : i \in {x \in Range(src.mods[m].items) :
                                                                 ApiItemKind(x) # "none"}} :
                                      m \in Walked(src)})
          /\ unvisited' = Walked(src)
          /\ diags' = WalkDiagnostics(src)
     ELSE /\ phase' = "refused"
          /\ diags' = {Err("unknown-package")}
          /\ UNCHANGED <<modules, decls, unvisited>>
  /\ UNCHANGED <<src, queue, types, endpoints, contract, package>>

Add(r, rest) ==
  /\ types' = r.types
  /\ queue' = rest \o r.queue
  /\ diags' = diags \cup r.diags

\* Every declaration is validated, then what they refer to, before the first endpoint.
LowerAllDecls ==
  /\ phase = "decls"
  /\ decls # <<>>
  /\ Add(LowerNamedDecl(Head(decls)), queue)
  /\ decls' = Tail(decls)
  /\ UNCHANGED <<src, phase, modules, unvisited, endpoints, contract, package>>

DrainTypeQueue ==
  /\ \/ phase = "decls" /\ decls = <<>>
     \/ phase = "endpoints" /\ unvisited = {}
  /\ queue # <<>>
  /\ Add(LowerNamedDecl(Head(queue)), Tail(queue))
  /\ UNCHANGED <<src, phase, modules, decls, unvisited, endpoints, contract, package>>

DeclsLowered ==
  /\ phase = "decls" /\ decls = <<>> /\ queue = <<>>
  /\ phase' = "endpoints"
  /\ UNCHANGED <<src, modules, decls, unvisited, queue, types, endpoints, diags, contract, package>>

AddEndpoints(rs) ==
  /\ endpoints' = endpoints \cup UNION {Range(rs[i].endpoint) : i \in DOMAIN rs}
  /\ queue' = queue \o Queued(rs)
  /\ diags' = diags \cup Reported(rs)

LowerEndpoints(m) ==
  /\ phase = "endpoints"
  /\ m \in unvisited
  /\ unvisited' = unvisited \ {m}
  /\ AddEndpoints(Mapped(LAMBDA e : LowerEndpoint(modules, m, e),
                         Those(modules[m].items, LAMBDA i : i.kind = "endpoint")))
  /\ UNCHANGED <<src, phase, modules, decls, types, contract, package>>

Extract ==
  /\ phase = "endpoints" /\ unvisited = {} /\ queue = <<>>
  /\ LET routers == Routers(modules)
         mounted == Mounted(routers)
         eps == {ApplyMounts(e, mounted).endpoint : e \in endpoints}
         reached == {types[id] : id \in ReachableIds(eps, types) \cap DOMAIN types}
     IN /\ contract' = [endpoints |-> eps, types |-> NsDecls(reached, "type"),
                        errors |-> NsDecls(reached, "error")]
        /\ diags' = diags \cup (UNION {r.diags : r \in routers})
                          \cup (UNION {ApplyMounts(e, mounted).diags : e \in endpoints})
                          \cup NameCollisions(eps, reached)
        /\ endpoints' = eps
  /\ phase' = "extracted"
  /\ UNCHANGED <<src, modules, decls, unvisited, queue, types, package>>

(***************************************************************************)
(* Properties.                                                             *)
(***************************************************************************)
Finished == phase \in {"refused", "skipped", "written"}
SourceItem(at, name) == FindItem(modules, at, name)
Of(e) == SourceItem(e.at, e.rust_name)

Meant(b, m, path) == Means(src, b, m, path, "type") \cup Means(src, b, m, path, "value")

\* The imports compile; no glob reaches a name its module may not see, no name means two things in
\* one module, and no module is named like a crate.
Clear(b) ==
  /\ \A m \in DOMAIN modules : \A u \in Range(src.mods[m].uses) : Meant(b, m, u.path) # {}
  /\ \A m \in DOMAIN modules : \A g \in Range(src.mods[m].globs) : \A x \in b :
       Mod(x.m) \in Means(src, b, m, g.path, "type") => VisibleFrom(x.v, m)
  /\ \A x, y \in b : x.m = y.m /\ x.n = y.n => x.to = y.to
  /\ \A x \in b : x.n \notin src.members

Agrees ==
  LET b == Scopes(src)
  IN Clear(b) => \A m \in DOMAIN modules, path \in Paths :
       Cardinality(Meant(b, m, path)) = 1 => ResolvePath(modules, m, path) \in Meant(b, m, path)

GlobsOfParents(m) == {g \in Range(src.mods[m].globs) : Last(g.path) = Super}

\* A path that means one thing to rustc is resolved to that thing, whatever the re-exports, the
\* globs and the modules in between (resolve.rs:5 promises a diagnostic "rather than a guess").
\* A glob of a parent module itself is left out: see GlobsResolve.
ResolvesAsRustc ==
  phase = "extracted" /\ (\A m \in DOMAIN modules : GlobsOfParents(m) = {}) => Agrees

\* The same with every glob, as docs/architecture.md:7 has it: symbol tables are built from
\* imports "including renames, re-export chains, and globs of workspace modules".
GlobsResolve == phase = "extracted" => Agrees

\* What a lowered endpoint and a lowered declaration keep of their items: everything.
EndpointWhole(e) ==
  LET item == Of(e)
      given == Range(Kinds(item.params))
  IN /\ Len(e.path_params) = Len(Those(item.params, LAMBDA p : p.kind = "path"))
     /\ (e.body # "none") = (given \cap Bodies # {})
     /\ (e.body_ty # NoType) = ("body" \in given)
     /\ (e.success_ty # NoType) = (item.ret.kind \in {"json", "created", "sse"})
     /\ (e.error # NoType) = (item.err.kind = "type")

DeclWhole(d) ==
  LET given == SourceItem(d.id.at, d.id.name).variants
  IN /\ Len(d.variants) = Len(given)
     /\ \A i \in DOMAIN given : Len(d.variants[i].fields) = Len(given[i].fields)

TypesIn(e) ==
  {e.body_ty, e.success_ty, e.error} \cup {p.ty : p \in Range(e.path_params) \cup Range(e.query_params)}
FieldTypesIn(d) == {f.ty : f \in UNION {Range(v.fields) : v \in Range(d.variants)}}
Mentioned(tys) ==
  {Id(ty.kind, ty.at, ty.name) : ty \in {t \in tys : t.kind \in {"type", "error"}}}

\* An extraction without errors has dropped nothing in silence: every endpoint of the walked
\* modules is in the contract, with every parameter, variant and field, and the declarations are
\* the smallest set that holds what endpoints and declarations refer to.  The exception is a
\* struct that derives ApiError, which is referred to and never lowered (lower_named_decl).
ContractExact ==
  phase = "extracted" /\ ~HasErrors =>
    LET ds == contract.types \cup contract.errors
        ids(s) == {d.id : d \in s}
        structs == {id \in Mentioned((UNION {TypesIn(e) : e \in contract.endpoints})
                                        \cup UNION {FieldTypesIn(d) : d \in ds}) :
                      SourceItem(id.at, id.name).kind = "error struct"}
        holds(s) ==
          /\ \A e \in contract.endpoints : Mentioned(TypesIn(e)) \ structs \subseteq ids(s)
          /\ \A d \in s : Mentioned(FieldTypesIn(d)) \ structs \subseteq ids(s)
    IN /\ \A m \in DOMAIN modules : \A i \in Range(src.mods[m].items) :
            i.kind = "endpoint" =>
              \E e \in contract.endpoints : e.at = m /\ e.rust_name = i.name
       /\ \A e \in contract.endpoints : EndpointWhole(e)
       /\ \A d \in ds : DeclWhole(d)
       /\ holds(ds)
       /\ \A s \in SUBSET ds : holds(s) => s = ds

(***************************************************************************)
(* What axum serves, from the leaves up and from the calls of the text,    *)
(* the opaque ones too.  A router that no other one joins is served by the *)
(* program.  Axum keeps the slash at the end of a route, writes none twice *)
(* and refuses the prefixes "" and "/".                                    *)
(***************************************************************************)
Opaque(c) == c.op \in {"nest opaque", "merge opaque"}

RouterCalls ==
  LET calls(m, i) == {[op |-> c.op, prefix |-> c.prefix, to |-> ResolveFnPath(modules, m, c.path)] :
                        c \in Range(i.calls)}
  IN UNION {{[key |-> Item(m, i.name), calls |-> calls(m, i)] :
               i \in {x \in Range(modules[m].items) : x.kind = "router"}} : m \in DOMAIN modules}

Joins(fns, f) ==
  UNION {{[call |-> c, fn |-> x] : x \in {y \in fns : y.key = c.to}} :
         c \in {x \in f.calls : x.op \in {"nest", "merge"} \/ Opaque(x)}}

NestedAt(c, path) ==
  IF c.op # "nest" THEN path
  ELSE IF Last(c.prefix) = Slash THEN Front(c.prefix) \o path
  ELSE IF path = <<Slash>> THEN c.prefix ELSE c.prefix \o path

\* Where an endpoint is served.  Below an opaque call, the path is not the whole one.
ServedAt(fns, e) ==
  LET own(f) == \E c \in f.calls : c.op = "endpoint" /\ c.to = Item(e.at, e.rust_name)
      below[n \in Nat] ==
        [f \in fns |->
           {x \in {[path |-> Of(e).route, opaque |-> FALSE]} : own(f)}
           \cup (IF n = 0 THEN {} ELSE
                 UNION {{[path |-> NestedAt(j.call, s.path), opaque |-> s.opaque \/ Opaque(j.call)] :
                           s \in below[n - 1][j.fn]} : j \in Joins(fns, f)})]
      tops == {f \in fns : \A x \in fns : \A j \in Joins(fns, x) : j.fn # f}
  IN UNION {below[Cardinality(fns)][f] : f \in tops}

Acyclic(fns) ==
  LET under[n \in Nat] ==
        [f \in fns |->
           LET next == {j.fn : j \in Joins(fns, f)}
           IN IF n = 0 THEN {} ELSE next \cup UNION {under[n - 1][x] : x \in next}]
  IN \A f \in fns : f \notin under[Cardinality(fns)][f]

\* The client calls an endpoint at a route where axum serves it, save for a slash at the end of that
\* route, which the client leaves out (join_prefix); and it is told of an endpoint that is served at
\* several routes, and of one that is served at none: through any nesting, merging and sharing of
\* routers that does not go in a circle.  An endpoint below an opaque call may be reported anywhere:
\* of that call there is a warning.
RoutesServed ==
  phase = "extracted" =>
    LET fns == RouterCalls
        paths(e) == {s.path : s \in ServedAt(fns, e)}
        clear == {e \in contract.endpoints : \A s \in ServedAt(fns, e) : ~s.opaque}
    IN Acyclic(fns) =>
         /\ \A e \in clear :
              IF paths(e) = {} THEN e.route = Of(e).route
              ELSE \E path \in paths(e) : e.route \in {path, Trimmed(path)}
         /\ clear # contract.endpoints => Warn("opaque-router-call") \in diags
         /\ clear = contract.endpoints =>
              /\ (Warn("unmounted-endpoint") \in diags) = (\E e \in clear : paths(e) = {})
              /\ (Warn("ambiguous-mount") \in diags)
                   = (\E e \in clear : Cardinality({Trimmed(path) : path \in paths(e)}) > 1)
=============================================================================
