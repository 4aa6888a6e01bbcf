-------------------------------- MODULE Wire --------------------------------
(***************************************************************************)
(* Identifiers and what becomes of them on the wire: the case rules        *)
(* (rename.rs), the accepted serde attributes and the presence of a field  *)
(* (serde_attrs.rs), beside what serde itself does with the same source.   *)
(*                                                                         *)
(* An identifier is a sequence of tokens: words in lower case, capitalised *)
(* or in upper case, and separators.  user_id is two low words around a    *)
(* separator, UserId two capitalised words.                                *)
(***************************************************************************)
EXTENDS Naturals, Sequences, FiniteSets, SequencesExt

Low(w) == <<"low", w>>
Cap(w) == <<"cap", w>>
Up(w)  == <<"up", w>>
Underscore == <<"sep", "_">>
Dash       == <<"sep", "-">>

\* What Op makes of the elements of a sequence, one after another.
Mapped(Op(_), s) == [i \in DOMAIN s |-> Op(s[i])]

\* Those elements of a sequence that pass a test.
Those(s, Test(_)) == FlattenSeq([i \in DOMAIN s |-> IF Test(s[i]) THEN <<s[i]>> ELSE <<>>])

Join(tokens, sep) ==
  IF tokens = <<>> THEN <<>>
  ELSE [i \in 1..(2 * Len(tokens) - 1) |-> IF i % 2 = 1 THEN tokens[(i + 1) \div 2] ELSE sep]

Each(words, Case(_)) == [i \in DOMAIN words |-> Case(words[i])]

SplitWords(name) ==
  LET words == Those(name, LAMBDA t : t[1] # "sep")
  IN [i \in DOMAIN words |-> words[i][2]]

Pascal(words) == Each(words, Cap)
Snake(words) == Join(Each(words, Low), Underscore)
Camel(words) == IF words = <<>> THEN <<>> ELSE <<Low(Head(words))>> \o Pascal(Tail(words))
ToCamelCase(name) == Camel(SplitWords(name))

Rules == {"none", "camelCase", "PascalCase", "snake_case", "kebab-case", "SCREAMING_SNAKE_CASE"}

ApplyRenameRule(name, rule) ==
  LET words == SplitWords(name)
  IN CASE rule = "camelCase" -> Camel(words)
       [] rule = "PascalCase" -> Pascal(words)
       [] rule = "snake_case" -> Snake(words)
       [] rule = "kebab-case" -> Join(Each(words, Low), Dash)
       [] rule = "SCREAMING_SNAKE_CASE" -> Join(Each(words, Up), Underscore)
       [] OTHER -> name

(***************************************************************************)
(* Serde attributes: a set of flags ("unsupported" stands for everything   *)
(* from_attrs refuses, "other tag" for a tag that is not _tag), a name     *)
(* given (or none, the empty one) and two rules.                           *)
(***************************************************************************)
NoName == <<>>
NoAttrs == [flags |-> {}, rename |-> NoName, all |-> "none", fields |-> "none"]
Tagged == [NoAttrs EXCEPT !.flags = {"tag"}]

FromAttrs(a) == "unsupported" \notin a.flags
Without(a, flags) == a.flags \cap flags = {}

ValidStruct(a) == Without(a, {"tag", "other tag", "default"}) /\ a.fields = "none"
ValidNewtype(a) ==
  /\ Without(a, {"tag", "other tag", "default", "deny unknown"})
  /\ a.all = "none" /\ a.fields = "none"
ValidEnum(a) ==
  /\ Without(a, {"transparent", "default", "deny unknown", "other tag"})
  /\ "tag" \in a.flags
ValidVariant(a) ==
  /\ Without(a, {"tag", "other tag", "default", "transparent", "deny unknown"})
  /\ a.fields = "none"
ValidField(a) ==
  /\ Without(a, {"tag", "other tag", "transparent", "deny unknown"})
  /\ a.all = "none" /\ a.fields = "none"
ValidTransparentField(a) == a = NoAttrs

\* A type is a path in wrappers, the outermost first.
IsOption(ty) == ty.wraps # <<>> /\ Head(ty.wraps) = "option"

FieldWireShape(ty, a) ==
  LET skips == "skip if none" \in a.flags
      may_miss == skips \/ "default" \in a.flags
  IN [ok |-> skips => IsOption(ty),
      inner |-> IF IsOption(ty) THEN [ty EXCEPT !.wraps = Tail(@)] ELSE ty,
      optionality |-> IF IsOption(ty) THEN IF may_miss THEN "optional nullable" ELSE "nullable"
                      ELSE IF may_miss THEN "optional" ELSE "required"]

\* Mutant: a rule is applied to the name given as well.
RuleOverGiven(name, a, rule) ==
  ApplyRenameRule(IF a.rename # NoName THEN a.rename ELSE name, rule)

WireName(name, a, rule) == IF a.rename # NoName THEN a.rename ELSE ApplyRenameRule(name, rule)

FieldRule(variant, container) == IF variant.all # "none" THEN variant.all ELSE container.fields

(***************************************************************************)
(* Serde.  A raw identifier is named without its r#, a field is taken to   *)
(* be in snake_case and a variant in PascalCase.                           *)
(***************************************************************************)
RawType == <<Low("r#type")>>
Unraw(name) == IF name = RawType THEN <<Low("type")>> ELSE name

\* Plain names, of which rustc's lints accept more: type_, r#type, a variant in capitals.
UsualField(name) == name = Snake(SplitWords(name)) /\ name # RawType
UsualVariant(name) == name = Pascal(SplitWords(name))

Recase(name, Case(_), sep) ==
  [i \in DOMAIN name |-> IF name[i][1] = "sep" THEN sep ELSE Case(name[i][2])]

SerdeField(name, rule) ==
  CASE rule \in {"none", "snake_case"} -> Unraw(name)
    [] rule = "camelCase" -> Camel(SplitWords(Unraw(name)))
    [] rule = "PascalCase" -> Pascal(SplitWords(Unraw(name)))
    [] rule = "kebab-case" -> Recase(Unraw(name), Low, Dash)
    [] OTHER -> Recase(Unraw(name), Up, Underscore)

SerdeVariant(name, rule) ==
  LET cut == FlattenSeq([i \in DOMAIN name |-> IF i > 1 /\ name[i][1] = "cap"
                                                THEN <<Underscore, name[i]>> ELSE <<name[i]>>])
  IN CASE rule \in {"none", "PascalCase"} -> name
       [] rule = "camelCase" -> <<Low(name[1][2])>> \o Tail(name)
       [] rule = "snake_case" -> Recase(cut, Low, Underscore)
       [] rule = "kebab-case" -> Recase(cut, Low, Dash)
       [] OTHER -> Recase(cut, Up, Underscore)

SerdeName(a, named) == IF a.rename # NoName THEN a.rename ELSE named

\* What a field may look like in JSON: serde's output, serde's input, and a schema's type.
\* `nullable` tells whether its Rust type is an option, through aliases too.
Emits(nullable, a) ==
  {"value"} \cup (IF ~nullable THEN {} ELSE IF "skip if none" \in a.flags THEN {"absent"} ELSE {"null"})
Takes(nullable, a) ==
  {"value"} \cup (IF nullable THEN {"absent", "null"} ELSE {})
            \cup (IF "default" \in a.flags THEN {"absent"} ELSE {})
Allows(optionality, inner) ==
  {"value"} \cup (IF optionality \in {"optional", "optional nullable"} THEN {"absent"} ELSE {})
            \cup (IF optionality \in {"nullable", "optional nullable"} \/ IsOption(inner)
                    THEN {"null"} ELSE {})
=============================================================================
