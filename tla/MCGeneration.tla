---------------------------- MODULE MCGeneration ----------------------------
(***************************************************************************)
(* Workspaces for TLC, in families: each varies what one group of          *)
(* properties is about and keeps the rest plain.                           *)
(***************************************************************************)
EXTENDS Usage

App == Snake(<<"app">>)
Lib == Snake(<<"lib">>)
A == Snake(<<"a">>)
B == Snake(<<"b">>)
User == Pascal(<<"user">>)
Item1 == Pascal(<<"item">>)
Fault == Pascal(<<"fault">>)
Missing == Pascal(<<"missing">>)
Id1 == Snake(<<"id">>)
UserId == Snake(<<"user", "id">>)

(***************************************************************************)
(* Items.                                                                  *)
(***************************************************************************)
Ty(path) == [wraps |-> <<>>, path |-> path]
Wrapped(w, path) == [wraps |-> w, path |-> path]
Text == Ty(<<StringType>>)

Field(name, ty) == [name |-> name, attrs |-> NoAttrs, ty |-> ty]
Variant(name, fields) ==
  [name |-> name, attrs |-> NoAttrs, status |-> TRUE,
   shape |-> IF fields = <<>> THEN "unit" ELSE "named", fields |-> fields]

DeclItem(kind, name, attrs, variants) ==
  [name |-> name, kind |-> kind, pub |-> TRUE, generic |-> FALSE, attrs |-> attrs,
   variants |-> variants]
Struct(name, fields) == DeclItem("struct", name, NoAttrs, <<Variant(NoName, fields)>>)
Newtype(name, ty) == DeclItem("newtype", name, NoAttrs, <<Variant(NoName, <<Field(NoName, ty)>>)>>)
Alias(name, ty) == DeclItem("alias", name, NoAttrs, <<Variant(NoName, <<Field(NoName, ty)>>)>>)
Enum(name, variants) == DeclItem("enum", name, Tagged, variants)
ErrorEnum(name, variants) == DeclItem("error", name, Tagged, variants)

Json(ty) == [kind |-> "json", ty |-> ty]
Plain(kind) == [kind |-> kind, ty |-> Text]
Segment(word) == [param |-> FALSE, name |-> Snake(<<word>>)]
Hole(name) == [param |-> TRUE, name |-> name]
Param(kind, name, ty) == [kind |-> kind, name |-> name, ty |-> ty]

EndpointItem(name, word, ret) ==
  [name |-> name, kind |-> "endpoint", pub |-> TRUE, attr_ok |-> TRUE, method |-> "get",
   route |-> <<Segment(word)>>, allow_unused |-> FALSE, async |-> TRUE, generic |-> FALSE,
   params |-> <<>>, ret |-> ret, err |-> Plain("none")]
GetUser == Snake(<<"get", "user">>)

Router(name, calls) == [name |-> name, kind |-> "router", pub |-> TRUE, calls |-> calls]
Call(op, name, prefix) == [op |-> op, path |-> <<name>>, prefix |-> prefix]

ModuleOf(items) == [file |-> "inline", items |-> items, uses |-> <<>>, globs |-> <<>>]
Use(name, path, pub) == [name |-> name, path |-> path, pub |-> pub]
Glob(path, pub) == [path |-> path, pub |-> pub]

Workspace(mods) ==
  [target |-> App, members |-> {App, Lib}, deps |-> (App :> {Lib}) @@ (Lib :> {}), mods |-> mods]
OneModule(items) == Workspace(<<App>> :> ModuleOf(items))

(***************************************************************************)
(* Scoping: a type that may be declared, imported, re-exported or globbed  *)
(* in three modules and a second crate.                                    *)
(***************************************************************************)
UserItem(pub) == <<[Struct(User, <<>>) EXCEPT !.pub = pub]>>
Named3(app, a, b) == (<<App>> :> app) @@ (<<App, A>> :> a) @@ (<<App, B>> :> b)

Scoping ==
  LET use(path, pub) == <<Use(User, path, pub)>>
      app_roots == {[items |-> UserItem(TRUE), uses |-> <<>>]}
                   \cup {[items |-> <<>>, uses |-> u] :
                           u \in {<<>>, use(<<A, User>>, FALSE), use(<<Self, B, User>>, TRUE)}}
      app_globs == {<<>>, <<Glob(<<A>>, FALSE)>>, <<Glob(<<Crate, A>>, FALSE), Glob(<<B>>, TRUE)>>}
      as == {[items |-> i, uses |-> <<>>] : i \in {<<>>, UserItem(TRUE), UserItem(FALSE)}}
            \cup {[items |-> <<>>, uses |-> use(p, TRUE)] :
                    p \in {<<Super, B, User>>, <<Super, User>>, <<Lib, User>>}}
      a_globs == {<<>>, <<Glob(<<Super>>, FALSE)>>, <<Glob(<<Super, B>>, TRUE)>>}
      bs == {<<>>, UserItem(TRUE)}
      b_globs == {<<>>, <<Glob(<<Super, A>>, TRUE)>>, <<Glob(<<Lib>>, TRUE)>>}
      of(part, globs) == [file |-> "inline", items |-> part.items, uses |-> part.uses, globs |-> globs]
      get == EndpointItem(GetUser, "users", Json(Ty(<<User>>)))
  IN {Workspace((<<Lib>> :> ModuleOf(UserItem(TRUE)))
                @@ Named3(of([app EXCEPT !.items = @ \o <<get>>], ag), of(a, gg),
                          of([items |-> b, uses |-> <<>>], bg))) :
        app \in app_roots, ag \in app_globs, a \in as, gg \in a_globs, b \in bs, bg \in b_globs}

AskedPaths ==
  {<<User>>, <<A, User>>, <<Crate, B, User>>, <<Super, User>>, <<Self, User>>, <<Lib, User>>,
   <<Super, A, User>>, <<Super, Super, User>>}

\* Modules that are missing, not parsable or only for tests, and packages out of reach.
Walking ==
  {[Workspace((<<Lib>> :> ModuleOf(UserItem(TRUE)))
              @@ Named3([ModuleOf(<<>>) EXCEPT !.file = f],
                        [ModuleOf(UserItem(TRUE)) EXCEPT !.file = g], ModuleOf(<<>>)))
      EXCEPT !.target = t, !.deps = (App :> d) @@ (Lib :> {App})] :
     f \in {"found", "missing"}, g \in {"inline", "missing", "unparsable", "test"},
     t \in {App, Lib, A}, d \in {{}, {Lib}}}

(***************************************************************************)
(* Lowering: two types that refer to one another, an error, an endpoint.   *)
(***************************************************************************)
Lowering ==
  LET to == {Ty(<<User>>), Ty(<<Item1>>), Wrapped(<<"list">>, <<Item1>>),
             Wrapped(<<"option", "box">>, <<User>>), Wrapped(<<"map">>, <<StringType>>),
             Ty(<<Missing>>)}
      firsts == {Struct(User, <<Field(Id1, Text), Field(Item1, ty)>>) : ty \in to}
      seconds == {Struct(Item1, <<Field(Id1, Ty(<<U64>>))>>), Enum(Item1, <<>>),
                  Newtype(Item1, Wrapped(<<"list">>, <<User>>)), Alias(Item1, Ty(<<Item1>>)),
                  Alias(Item1, Wrapped(<<"option">>, <<User>>)),
                  Enum(Item1, <<Variant(User, <<>>), Variant(Fault, <<Field(Id1, Text)>>)>>),
                  ErrorEnum(Item1, <<Variant(Missing, <<>>)>>),
                  DeclItem("error struct", Item1, NoAttrs, <<Variant(NoName, <<>>)>>),
                  DeclItem("plain", Item1, NoAttrs, <<Variant(NoName, <<Field(Id1, Text)>>)>>)}
      faults == {ErrorEnum(Fault, <<Variant(Missing, <<Field(Id1, Ty(<<User>>))>>)>>),
                 ErrorEnum(Fault, <<>>)}
      gets == {[EndpointItem(GetUser, "users", r) EXCEPT !.method = x.method, !.params = x.params,
                                                        !.err = e] :
                 r \in {Plain("none"), Json(Ty(<<Item1>>)), [Json(Ty(<<User>>)) EXCEPT !.kind = "sse"]},
                 e \in {Plain("none"), [kind |-> "type", ty |-> Ty(<<Fault>>)],
                        [kind |-> "type", ty |-> Ty(<<Item1>>)]},
                 x \in {[method |-> "get", params |-> <<>>], [method |-> "sse", params |-> <<>>],
                        [method |-> "post", params |-> <<Param("body", Id1, Wrapped(<<"list">>, <<User>>))>>]}}
  IN {OneModule(<<f, s, x, g>>) : f \in firsts, s \in seconds, x \in faults, g \in gets}

\* Signatures, one thing at a time.
Signatures ==
  LET get == [EndpointItem(GetUser, "users", Json(Text)) EXCEPT !.method = "post"]
      tys == {Text, Wrapped(<<"option">>, <<StringType>>), Ty(<<Chrono, DateTime>>),
                Ty(<<SerdeJson, Value>>), Wrapped(<<"of utc">>, <<Chrono, DateTime>>),
                Wrapped(<<"of local">>, <<Chrono, DateTime>>), Wrapped(<<"map of i32">>, <<StringType>>),
                Wrapped(<<"generic">>, <<User>>), Ty(StdString), Ty(<<User>>), Ty(<<Item1>>)}
      params == {<<Param(k, Id1, ty)>> : k \in {"path", "query", "body", "binary", "extension"},
                                         ty \in tys}
                \cup {<<Param("body", Id1, Text), Param("binary", Item1, Text)>>}
      routes == {<<Segment("users")>>, <<Segment("users"), Hole(Id1)>>, <<Hole(Id1)>>}
      query == [Struct(User, <<Field(Id1, Text), Field(Item1, Wrapped(<<"option">>, <<U64>>))>>)
                  EXCEPT !.kind = "plain"]
      other == Enum(Item1, <<Variant(User, <<>>), Variant(Fault, <<>>)>>)
  IN {OneModule(<<query, other, [get EXCEPT !.params = p, !.route = r, !.ret.kind = k]>>) :
        p \in params, r \in routes, k \in {"json", "binary"}}
     \cup {OneModule(<<g>>) : g \in {[get EXCEPT !.async = FALSE], [get EXCEPT !.generic = TRUE],
                                     [get EXCEPT !.attr_ok = FALSE], [get EXCEPT !.method = "sse"]}}

(***************************************************************************)
(* Names, in two modules: what may clash in the package.                   *)
(***************************************************************************)
Names ==
  LET kinds(n) == {Struct(n, <<>>), Enum(n, <<Variant(Fault, <<>>)>>),
                   ErrorEnum(n, <<Variant(Missing, <<>>), Variant(Fault, <<>>)>>),
                   [ErrorEnum(n, <<Variant(Fault, <<>>)>>) EXCEPT !.attrs.all = "kebab-case"],
                   [ErrorEnum(n, <<Variant(Fault \o Fault, <<>>)>>) EXCEPT !.attrs.all = "kebab-case"]}
      uses(n, item) == IF item.kind = "error" THEN [Plain("type") EXCEPT !.ty = Ty(<<n>>)]
                                              ELSE Plain("none")
      gives(n, item) == IF item.kind = "error" THEN Plain("none") ELSE Json(Ty(<<n>>))
      with(get, n, item) == [get EXCEPT !.ret = gives(n, item), !.err = uses(n, item)]
      gets == {EndpointItem(n, w, Plain("none")) :
                 n \in {GetUser, Snake(<<"getter">>), Snake(<<"get", "user", "route">>), Snake(<<"users">>)},
                 w \in {"users", "items"}}
      first == EndpointItem(GetUser, "users", Plain("none"))
  IN {Workspace(Named3(ModuleOf(<<>>), ModuleOf(<<x, with(first, User, x)>>),
                       ModuleOf(<<y, with([g EXCEPT !.allow_unused = (g.name = GetUser)], y.name, y)>>))) :
        x \in kinds(User), y \in kinds(User) \cup kinds(Fault), g \in gets}

(***************************************************************************)
(* Routers: shared, nested, merged, opaque, in a circle, with and without  *)
(* slashes at the end.                                                     *)
(***************************************************************************)
Routing ==
  LET r(i) == Snake(<<"r", ToString(i)>>)
      some(calls) == {[i \in 1..Cardinality(s) |-> calls[CHOOSE k \in s : Cardinality({j \in s : j <= k}) = i]] :
                        s \in SUBSET DOMAIN calls}
      mount == Call("endpoint", GetUser, <<>>)
      v(word) == <<Segment(word)>>
      get == EndpointItem(GetUser, "users", Plain("none"))
  IN {OneModule(<<[get EXCEPT !.route = route], Router(r(1), x), Router(r(2), y), Router(r(3), z)>>) :
        route \in {v("users"), Append(v("users"), Slash), <<Slash>>},
        x \in some(<<Call("nest", r(2), v("v1")), Call("merge", r(3), <<>>),
                     Call("nest", r(2), Append(v("v2"), Slash))>>),
        y \in UNION {some(<<mount, Call("nest", r(3), v("w")), Call(op, r(3), <<>>)>>) :
                       op \in {"nest opaque", "merge opaque"}},
        z \in some(<<mount, Call("merge", r(1), <<>>), Call("endpoint", Missing, <<>>)>>)}

(***************************************************************************)
(* The wire: names, rules and presence.                                    *)
(***************************************************************************)
WireOf(fields, variants) ==
  LET get == EndpointItem(GetUser, "users", Json(Ty(<<User>>)))
      maybe == Alias(Item1, Wrapped(<<"option">>, <<StringType>>))
      presences == {[Field(Id1, ty) EXCEPT !.attrs.flags = fl, !.attrs.rename = rn] :
                      ty \in {Text, Wrapped(<<"option">>, <<StringType>>), Ty(<<Item1>>),
                              Wrapped(<<"box", "option">>, <<StringType>>),
                              Wrapped(<<"option">>, <<Item1>>)},
                      fl \in SUBSET {"skip if none", "default", "unsupported"},
                      rn \in {NoName, Snake(<<"given">>)}}
      one(f, attrs) == [Struct(User, <<f>>) EXCEPT !.attrs = attrs]
      many(v, attrs) == [Enum(User, <<v>>) EXCEPT !.attrs = attrs]
      rule(r) == [NoAttrs EXCEPT !.all = r]
  IN {OneModule(<<i, maybe, get>>) : i \in
        {one(f, NoAttrs) : f \in presences}
        \cup {one(Field(n, Text), rule(r)) : n \in fields, r \in Rules}
        \cup {one([Field(Id1, Text) EXCEPT !.attrs.rename = UserId], rule(r)) : r \in Rules}
        \cup {many([Variant(User, <<>>) EXCEPT !.attrs.rename = UserId], [Tagged EXCEPT !.all = r]) :
                r \in Rules}
        \cup {one(Field(Id1, Text), [NoAttrs EXCEPT !.flags = fl]) :
                fl \in {{"transparent"}, {"deny unknown"}, {"tag"}, {"default"}, {"unsupported"}}}
        \cup {many([Variant(n, <<Field(f, Text)>>) EXCEPT !.attrs.all = own],
                   [Tagged EXCEPT !.all = r, !.fields = fr]) :
                n \in variants, f \in fields, r \in Rules,
                own \in {"none", "camelCase"}, fr \in {"none", "kebab-case"}}
        \cup {many([Variant(User, <<>>) EXCEPT !.shape = sh, !.attrs = at], con) :
                sh \in {"unit", "tuple"}, at \in {NoAttrs, [NoAttrs EXCEPT !.flags = {"default"}]},
                con \in {NoAttrs, Tagged}}
        \cup {[one(Field(Id1, Text), NoAttrs) EXCEPT !.generic = TRUE],
              [one(Field(Id1, Text), NoAttrs) EXCEPT !.kind = "tuple"],
              [Newtype(User, Text) EXCEPT !.attrs.all = "camelCase"]}}

TrailingUnderscore == <<Low("type"), Underscore>>
UserLeft == Pascal(<<"user", "left">>)

Wiring == WireOf({Id1, UserId}, {User, UserLeft})
Spelling == WireOf({TrailingUnderscore, RawType, UserId}, {User, UserLeft})

AllPrograms == Scoping \cup Walking \cup Lowering \cup Signatures \cup Names \cup Routing \cup Wiring
=============================================================================
