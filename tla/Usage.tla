-------------------------------- MODULE Usage --------------------------------
(***************************************************************************)
(* The usage scanner (usage.rs) over TypeScript that imports a generated   *)
(* package, the lint for unused endpoints (unused_endpoint_lints of the    *)
(* command line), and what TypeScript itself makes of the same imports.    *)
(*                                                                         *)
(* A use is one import and one chain of members on it: [spec, form, path,  *)
(* position].  Under `named` the first name of the path is imported from   *)
(* the module the specifier names, under `namespace` all of the module is, *)
(* under `tag` the path is a tag given to catchTag or catchTags.           *)
(***************************************************************************)
EXTENDS Generation

Root == [scope |-> "root", module |-> NoName]
Schemas == [scope |-> "schemas", module |-> NoName]
Errors == [scope |-> "errors", module |-> NoName]
Module(m) == [scope |-> "module", module |-> m]

EndpointModules(c) == {e.ts_module : e \in c.endpoints}

(***************************************************************************)
(* The symbol table: names inserted one after another, the last one wins.  *)
(***************************************************************************)
Insert(scope, name, id, kind) == [scope |-> scope, name |-> name, id |-> id, kind |-> kind]

Insertions(c) ==
  LET eps == SetToSeq(c.endpoints)
      ts == SetToSeq(c.types)
      es == SetToSeq(c.errors)
      of_endpoint(e) ==
        FlattenSeq([i \in 1..2 |->
          LET scope == IF i = 1 THEN Module(e.ts_module) ELSE Root
          IN <<Insert(scope, e.ts_name, EndpointId(e), "endpoint"),
               Insert(scope, RouteName(e), EndpointId(e), "route")>>])
      twice(scope, name, id, kind) ==
        <<Insert(scope, name, id, kind), Insert(Root, name, id, kind)>>
      of_error(d) ==
        twice(Errors, TsName(d), d.id, "error")
        \o FlattenSeq([i \in DOMAIN d.variants |->
             twice(Errors, d.variants[i].wire, VariantId(d, d.variants[i]), "variant")])
  IN FlattenSeq([i \in DOMAIN eps |-> of_endpoint(eps[i])])
     \o FlattenSeq([i \in DOMAIN ts |-> twice(Schemas, TsName(ts[i]), ts[i].id, "type")])
     \o FlattenSeq([i \in DOMAIN es |-> of_error(es[i])])

Lookup(c, scope, name) ==
  LET hits == SelectSeq(Insertions(c), LAMBDA x : x.scope = scope /\ x.name = name)
  IN IF hits = <<>> THEN {} ELSE {Last(hits)}

(***************************************************************************)
(* The scanner.  A binding is a symbol, a namespace, or none.              *)
(***************************************************************************)
ScopeForSpecifier(c, spec) ==
  IF spec.scope = "module" /\ spec.module \notin EndpointModules(c) THEN {} ELSE {spec}

Symbol(target) == [binds |-> "symbol", target |-> target]
Namespace(scope) == [binds |-> "namespace", scope |-> scope]

ResolveNamedImport(c, scope, name) ==
  LET targets == Lookup(c, scope, name)
  IN IF targets # {} THEN {Symbol(t) : t \in targets}
     ELSE IF scope = Root /\ name \in EndpointModules(c) THEN {Namespace(Module(name))}
     ELSE {}

\* Mutant: only calls count.
CallsOnly(kind, position) == IF position = "call" THEN "strong" ELSE "weak"

Strength(kind, position) ==
  IF kind = "route" THEN "strong"
  ELSE IF position = "call" THEN "strong" ELSE "weak"

Reference(target, position) ==
  [id |-> target.id, kind |-> target.kind, strength |-> Strength(target.kind, position)]

\* Members of a namespace: each name is looked up, and one of the root's may be a module.
RECURSIVE Members(_, _, _, _)
Members(c, scope, path, position) ==
  IF path = <<>> THEN {}
  ELSE {Reference(t, position) : t \in Lookup(c, scope, Head(path))}
       \cup (IF scope = Root /\ Head(path) \in EndpointModules(c)
             THEN Members(c, Module(Head(path)), Tail(path), position) ELSE {})

Scan(c, u) ==
  LET scopes == ScopeForSpecifier(c, u.spec)
      bindings == UNION {ResolveNamedImport(c, s, Head(u.path)) : s \in scopes}
      through(b) == IF b.binds = "symbol"
                    THEN {Reference(b.target, u.position), Reference(b.target, "import")}
                    ELSE Members(c, b.scope, Tail(u.path), u.position)
      tags == {x \in Range(Insertions(c)) : x.kind = "variant" /\ x.name = Head(u.path)}
  IN CASE u.form = "namespace" -> UNION {Members(c, s, u.path, u.position) : s \in scopes}
       [] u.form = "tag" -> {[id |-> x.id, kind |-> "tag", strength |-> "strong"] : x \in tags}
       [] OTHER -> UNION {through(b) : b \in bindings}

StronglyUsedEndpoints(refs) ==
  {r.id : r \in {x \in refs : x.strength = "strong" /\ x.kind \in {"endpoint", "route"}}}

UnusedEndpointLints(c, uses) ==
  LET used == StronglyUsedEndpoints(UNION {Scan(c, u) : u \in uses})
  IN {e \in c.endpoints : ~e.allow_unused /\ EndpointId(e) \notin used}

(***************************************************************************)
(* TypeScript: the entries a use denotes, through the package's index.     *)
(***************************************************************************)
ExportsOf(p, scope) ==
  CASE scope.scope = "schemas" -> Range(p.schemas.entries)
    [] scope.scope = "errors" -> Range(p.errors.entries)
    [] scope.scope = "module" -> IF scope.module \in DOMAIN p.modules
                                 THEN Range(p.modules[scope.module].entries) ELSE {}
    [] OTHER -> Range(p.schemas.entries) \cup Range(p.errors.entries) \cup Range(p.client.entries)

Denotes(p, u) ==
  LET members(scope, path) ==
        CASE Len(path) = 1 -> {x \in ExportsOf(p, scope) : x.name = path[1]}
          [] Len(path) = 2 /\ scope = Root /\ path[1] \in DOMAIN p.modules ->
               {x \in ExportsOf(p, Module(path[1])) : x.name = path[2]}
          [] OTHER -> {}
  IN IF u.form = "tag"
     THEN {x \in ExportsOf(p, Errors) : x.name = u.path[1] /\ x.of.ns = "variant"}
     ELSE members(u.spec, u.path)

(***************************************************************************)
(* Properties.                                                             *)
(***************************************************************************)
\* The uses of a package: every export of every module of it, by every way to get at it, and the
\* errors caught by their tags.
Uses(p) ==
  LET names(scope) == {x.name : x \in ExportsOf(p, scope)}
      named == DOMAIN p.modules
      positions == {"call", "mention", "type"}
      use(spec, form, path) == {[spec |-> spec, form |-> form, path |-> path, position |-> pos] :
                                  pos \in positions}
      direct == UNION {UNION {use(s, form, <<n>>) : form \in {"named", "namespace"}, n \in names(s)} :
                         s \in {Root, Schemas, Errors} \cup {Module(m) : m \in named}}
      through == UNION {UNION {use(Root, form, <<m, n>>) : form \in {"named", "namespace"},
                                                           n \in names(Module(m))} : m \in named}
      tags == UNION {use(Errors, "tag", <<x.name>>) :
                       x \in {y \in ExportsOf(p, Errors) : y.of.ns = "variant"}}
  IN direct \cup through \cup tags

\* A module that has the name of an accessor hides behind it when it is imported by name.
NoHomonym(c) == \A e \in c.endpoints : \A m \in EndpointModules(c) : m \notin {e.ts_name, RouteName(e)}
NamesApart(p) ==
  \A s \in {Root} \cup {Module(m) : m \in DOMAIN p.modules} : \A x, y \in ExportsOf(p, s) :
    x.name = y.name => x.of = y.of

\* The scanner, which only looks at syntax, finds at a use the symbol TypeScript finds there, so an
\* endpoint is reported unused exactly when nothing calls it or reads its route.
UsageAgrees ==
  phase = "written" /\ NoHomonym(contract) /\ NamesApart(package) =>
    \A u \in Uses(package) :
      LET meant == {x \in Denotes(package, u) : x.role \in {"symbol", "route"}}
          uses(e) == \E x \in meant : /\ x.of = EndpointId(e)
                                      /\ u.position = "call" \/ x.role = "route"
      IN /\ {r.id : r \in Scan(contract, u)} = {x.of : x \in meant}
         /\ UnusedEndpointLints(contract, {u}) =
              {e \in contract.endpoints : ~e.allow_unused /\ ~uses(e)}
=============================================================================
