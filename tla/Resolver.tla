------------------------------ MODULE Resolver ------------------------------
(***************************************************************************)
(* Name resolution of the extractor (extract/resolve.rs) over the modules  *)
(* that the walk finds (extract/modules.rs), and what rustc means by the   *)
(* same paths.  A module is named by its key, the sequence of names from   *)
(* its crate.                                                              *)
(***************************************************************************)
EXTENDS Wire

CONSTANT MaxDepth \* MAX_RESOLUTION_DEPTH

ASSUME DepthAssumption == MaxDepth \in Nat

Crate == <<<<"key", "crate">>>>
Self  == <<<<"key", "self">>>>
Super == <<<<"key", "super">>>>

Chrono == Snake(<<"chrono">>)
DateTime == Pascal(<<"date", "time">>)
SerdeJson == Snake(<<"serde", "json">>)
Value == Pascal(<<"value">>)
ExternalCrates == {Chrono, SerdeJson}
KnownExternal == {<<Chrono, DateTime>>, <<SerdeJson, Value>>}

Unknown == [e |-> "unknown", at |-> <<>>, name |-> <<>>]
Mod(k) == [e |-> "module", at |-> k, name |-> <<>>]
Item(k, n) == [e |-> "item", at |-> k, name |-> n]
External(path) == [e |-> "external", at |-> path, name |-> <<>>]
ExternalCrate(c) == [e |-> "crate", at |-> <<c>>, name |-> <<>>]

(***************************************************************************)
(* The walk.  src.mods has a source per declared module: where its text is *)
(* (`file`), its items in order, its uses and its globs.                   *)
(***************************************************************************)
ReachablePackages(src) ==
  LET grow[n \in Nat] ==
        IF n = 0 THEN {src.target} \cap src.members
        ELSE LET s == grow[n - 1]
             IN s \cup ((UNION {src.deps[c] : c \in s}) \cap src.members)
  IN grow[Cardinality(src.members)]

Declared(src, k) ==
  /\ k \in DOMAIN src.mods
  /\ src.mods[k].file # "test"

Walked(src) ==
  {k \in DOMAIN src.mods :
     /\ k[1] \in ReachablePackages(src)
     /\ \A i \in 1..Len(k) : LET p == SubSeq(k, 1, i) IN
          Declared(src, p) /\ src.mods[p].file \in {"inline", "found"}}

ModuleData(src, k) ==
  LET m == src.mods[k]
      named == {m.uses[i].name : i \in DOMAIN m.uses}
      last(n) == CHOOSE i \in DOMAIN m.uses :
                   /\ m.uses[i].name = n
                   /\ \A j \in DOMAIN m.uses : m.uses[j].name = n => j <= i
  IN [items |-> m.items,
      mods  |-> {Last(c) : c \in {d \in DOMAIN src.mods : Len(d) = Len(k) + 1 /\ IsPrefix(k, d)
                                                          /\ Declared(src, d)}},
      uses  |-> [n \in named |-> m.uses[last(n)].path],
      globs |-> [i \in DOMAIN m.globs |-> m.globs[i].path]]

ModuleMap(src) == [k \in Walked(src) |-> ModuleData(src, k)]

\* A module whose file is not there is a warning, unless it is a crate's root.
WalkDiagnostics(src) ==
  {[code |-> "walk", error |-> Len(k) = 1 \/ src.mods[k].file = "unparsable"] :
     k \in {d \in DOMAIN src.mods :
              /\ src.mods[d].file \in {"missing", "unparsable"}
              /\ d[1] \in ReachablePackages(src)
              /\ Len(d) > 1 => Front(d) \in Walked(src)}}

(***************************************************************************)
(* The resolver.                                                           *)
(***************************************************************************)
DeclaresItem(data, n) == \E i \in DOMAIN data.items : data.items[i].name = n

Crates(tab) == {k[1] : k \in DOMAIN tab}

InExternal(c, rest) ==
  IF <<c>> \o rest \in KnownExternal THEN External(<<c>> \o rest) ELSE Unknown

\* The next answer is sought only when there is no hit.
OrElse(hit, next) == IF hit # Unknown THEN hit ELSE next

(***************************************************************************)
(* A question to the resolver is a path as seen from a module, a path      *)
(* below a module, or a name in a module.  Each operator says what it      *)
(* answers by what it asks in turn: ask[q] is the answer one call deeper.  *)
(***************************************************************************)
Identifier == Seq(STRING \X STRING)
Path == Seq(Identifier)
Key == Path \ {<<>>}
Questions ==
  [of : {"path", "below"}, m : Key, segs : Path] \cup [of : {"name"}, m : Key, segs : Path \ {<<>>}]

PathFrom(m, segs) == [of |-> "path", m |-> m, segs |-> segs]
Below(m, segs) == [of |-> "below", m |-> m, segs |-> segs]
NameIn(m, n) == [of |-> "name", m |-> m, segs |-> <<n>>]

\* What follows a name that was found.
Follow(ask, found, rest) ==
  CASE found.e = "module" -> ask[Below(found.at, rest)]
    [] found.e \in {"item", "external"} /\ rest = <<>> -> found
    [] found.e = "crate" -> InExternal(found.at[1], rest)
    [] OTHER -> Unknown

PathInner(tab, ask, m, segs) ==
  IF segs = <<>> THEN Unknown
  ELSE LET first == Head(segs)
           rest == Tail(segs)
       IN IF first = Super THEN IF Len(m) < 2 THEN Unknown ELSE ask[PathFrom(Front(m), rest)]
          ELSE IF first \in {Self, Crate} THEN ask[Below(IF first = Self THEN m ELSE <<m[1]>>, rest)]
          ELSE IF segs \in KnownExternal THEN External(segs)
          ELSE IF rest = <<>> THEN ask[NameIn(m, first)]
          ELSE IF first \in Crates(tab) THEN ask[Below(<<first>>, rest)]
          ELSE Follow(ask, ask[NameIn(m, first)], rest)

FromModule(ask, m, segs) ==
  IF segs = <<>> THEN Mod(m)
  ELSE LET first == Head(segs)
       IN CASE first = Super -> IF Len(m) < 2 THEN Unknown ELSE ask[Below(Front(m), Tail(segs))]
            [] first = Self -> ask[Below(m, Tail(segs))]
            [] OTHER -> Follow(ask, ask[NameIn(m, first)], Tail(segs))

\* What a glob yields, and the first of several globs that yields anything.
InGlob(ask, m, glob, n) ==
  LET target == ask[PathFrom(m, glob)]
  IN IF target.e = "module" THEN ask[NameIn(target.at, n)] ELSE Unknown

FromGlobs(ask, m, globs, n) ==
  LET last[k \in 0..Len(globs)] ==
        IF k = 0 THEN Unknown
        ELSE OrElse(InGlob(ask, m, globs[Len(globs) + 1 - k], n), last[k - 1])
  IN last[Len(globs)]

\* Mutant: globs come before imports.
GlobsFirst(tab, ask, m, n) ==
  IF m \notin DOMAIN tab THEN Unknown
  ELSE IF n \in tab[m].mods THEN Mod(Append(m, n))
  ELSE IF DeclaresItem(tab[m], n) THEN Item(m, n)
  ELSE OrElse(FromGlobs(ask, m, tab[m].globs, n),
              IF n \in DOMAIN tab[m].uses THEN ask[PathFrom(m, tab[m].uses[n])]
              ELSE IF n \in Crates(tab) THEN Mod(<<n>>)
              ELSE Unknown)

\* Declarations, then imports, then globs, then crates.
ResolveName(tab, ask, m, n) ==
  IF m \notin DOMAIN tab THEN Unknown
  ELSE IF n \in tab[m].mods THEN Mod(Append(m, n))
  ELSE IF DeclaresItem(tab[m], n) THEN Item(m, n)
  ELSE IF n \in DOMAIN tab[m].uses THEN ask[PathFrom(m, tab[m].uses[n])]
  ELSE OrElse(FromGlobs(ask, m, tab[m].globs, n),
              IF n \in ExternalCrates THEN ExternalCrate(n)
              ELSE IF n \in Crates(tab) THEN Mod(<<n>>)
              ELSE Unknown)

Answer(tab, ask, q) ==
  CASE q.of = "path" -> PathInner(tab, ask, q.m, q.segs)
    [] q.of = "below" -> FromModule(ask, q.m, q.segs)
    [] OTHER -> ResolveName(tab, ask, q.m, q.segs[1])

\* The answers within n calls, one in another: beyond MaxDepth nothing is found.
ResolvePath(tab, m, segs) ==
  LET within[n \in Nat] ==
        [q \in Questions |-> IF n = 0 THEN Unknown ELSE Answer(tab, within[n - 1], q)]
  IN within[MaxDepth + 1][PathFrom(m, segs)]

(***************************************************************************)
(* What rustc means: bindings [m, n, ns, to, v], name n of namespace ns in *)
(* module m stands for `to`, and may be named from the modules below v.    *)
(* Globs import only what the importing module may name, and yield to what *)
(* is declared or imported by name.                                        *)
(***************************************************************************)
VisibleFrom(v, m) == IsPrefix(v, m)
Reach(pub, m) == IF pub THEN <<>> ELSE m
Narrower(v, w) == IF Len(v) < Len(w) THEN w ELSE v

NamespaceOf(item) == IF item.kind \in {"fn", "endpoint", "router"} THEN "value" ELSE "type"

Declarations(src) ==
  LET own(m) == {[m |-> m, n |-> i.name, ns |-> NamespaceOf(i), to |-> Item(m, i.name),
                  v |-> Reach(i.pub, m)] : i \in Range(src.mods[m].items)}
  IN UNION {own(m) : m \in Walked(src)}
     \cup {[m |-> Front(k), n |-> Last(k), ns |-> "type", to |-> Mod(k), v |-> <<>>] :
             k \in {w \in Walked(src) : Len(w) > 1}}

\* What a path written in module m stands for, in a namespace.
Means(src, b, m, path, ns) ==
  LET step(at, n, sp) ==
        {x.to : x \in {y \in b : y.m = at /\ y.n = n /\ y.ns = sp /\ VisibleFrom(y.v, m)}}
      first == Head(path)
      in_scope(n, sp) ==
        IF step(m, n, sp) # {} THEN step(m, n, sp)
        ELSE IF sp = "type" /\ n \in src.deps[m[1]] THEN {Mod(<<n>>)} ELSE {}
      start == CASE first = Crate -> {Mod(<<m[1]>>)}
                 [] first = Self -> {Mod(m)}
                 [] first = Super -> IF Len(m) < 2 THEN {} ELSE {Mod(Front(m))}
                 [] OTHER -> in_scope(first, IF Len(path) = 1 THEN ns ELSE "type")
      go[i \in 1..Len(path)] ==
        IF i = 1 THEN start
        ELSE UNION {IF path[i] = Super THEN IF Len(t.at) < 2 THEN {} ELSE {Mod(Front(t.at))}
                    ELSE step(t.at, path[i], IF i = Len(path) THEN ns ELSE "type") :
                    t \in {x \in go[i - 1] : x.e = "module"}}
  IN go[Len(path)]

\* A `use` of a name hides a glob's, whether or not it leads anywhere yet, so that scopes only grow.
Scopes(src) ==
  LET decls == Declarations(src)
      by_name(b, m) ==
        UNION {{[m |-> m, n |-> u.name, ns |-> ns, to |-> t, v |-> Reach(u.pub, m)] :
                  t \in Means(src, b, m, u.path, ns)} :
               u \in Range(src.mods[m].uses), ns \in {"type", "value"}}
      hidden(m, y) == \/ \E u \in Range(src.mods[m].uses) : u.name = y.n
                      \/ \E z \in decls : z.m = m /\ z.n = y.n /\ z.ns = y.ns
      by_glob(b, m) ==
        UNION {{[m |-> m, n |-> x.n, ns |-> x.ns, to |-> x.to,
                 v |-> Narrower(Reach(g.pub, m), x.v)] :
                  x \in {y \in b : /\ Mod(y.m) \in Means(src, b, m, g.path, "type")
                                   /\ y.m # m /\ VisibleFrom(y.v, m) /\ ~hidden(m, y)}} :
               g \in Range(src.mods[m].globs)}
      grow[n \in Nat] ==
        IF n = 0 THEN decls
        ELSE LET b == grow[n - 1]
             IN b \cup UNION {by_name(b, m) \cup by_glob(b, m) : m \in Walked(src)}
  IN grow[2 * Cardinality(Walked(src))]
=============================================================================
