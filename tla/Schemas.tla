------------------------------- MODULE Schemas -------------------------------
(***************************************************************************)
(* The shapes data is held to (fastbrowse-core: output_schema.rs,          *)
(* validation.rs, schema.rs).  A caller's JSON Schema becomes a model that *)
(* validates what a run returns; the same model, as the type tree `Ty`, is *)
(* what language models are asked to fill and what their replies are       *)
(* checked against; and for decoders that leave optional objects empty a   *)
(* schema is sent flattened and its reply folded back.                     *)
(*                                                                         *)
(* A name is the sequence of its characters, or of its parts where they    *)
(* are joined with "__".  A schema is a record of the keywords it has.     *)
(***************************************************************************)
EXTENDS Integers, Sequences, FiniteSets, SequencesExt, FiniteSetsExt, Functions, TLC

----------------------------------------------------------------------------
(* JSON values.  Numbers are counted in halves; `float` says how they are   *)
(* written.                                                                 *)

Null          == [t |-> "null"]
Text(s)       == [t |-> "string", s |-> s]
Num(n, float) == [t |-> "number", n |-> n, float |-> float]
Flag(b)       == [t |-> "boolean", b |-> b]
List(a)       == [t |-> "array", a |-> a]
Obj(o)        == [t |-> "object", o |-> o]
Invalid       == [t |-> "invalid"]

\* `has_type`: 3.0 is an integer, and true is none.
HasType(v, type) ==
  \/ type = v.t
  \/ type = "integer" /\ v.t = "number" /\ v.n % 2 = 0

\* `same`: equality as JSON has it, at any depth.
RECURSIVE Same(_, _)
Same(l, r) ==
  /\ l.t = r.t
  /\ CASE l.t = "number" -> l.n = r.n
       [] l.t = "array"  -> Len(l.a) = Len(r.a) /\ \A i \in DOMAIN l.a : Same(l.a[i], r.a[i])
       [] l.t = "object" -> DOMAIN l.o = DOMAIN r.o /\ \A k \in DOMAIN l.o : Same(l.o[k], r.o[k])
       [] OTHER -> l = r

\* `within`.
Within(s, v) ==
  /\ "minimum" \in DOMAIN s => v.n >= s.minimum
  /\ "maximum" \in DOMAIN s => v.n <= s.maximum
  /\ "exclusiveMinimum" \in DOMAIN s => v.n > s.exclusiveMinimum
  /\ "exclusiveMaximum" \in DOMAIN s => v.n < s.exclusiveMaximum

----------------------------------------------------------------------------
(* A schema as a model: `output_model`.                                     *)

Refusal  == [o |-> "refused"]
Bounds   == {"minimum", "maximum", "exclusiveMinimum", "exclusiveMaximum"}
Notes    == {"description", "title", "default", "defs"}
ForObjects == {"properties", "required", "additionalProperties"}
Anywhere == Bounds \cup ForObjects \cup {"type", "items", "enum", "const", "anyOf", "ref",
                                         "description", "title", "default"}
Types(s) == IF "type" \in DOMAIN s THEN s.type ELSE <<>>

\* `annotation` and `alone`: only keywords the model enforces, none that the one
\* deciding the value alone would leave unread, and each beside the type it is for.
Taken(s, root) ==
  LET Beside(keywords, types) == keywords \cap DOMAIN s = {} \/ types \cap Range(Types(s)) # {} IN
  /\ DOMAIN s \subseteq Anywhere \cup (IF root THEN {"defs"} ELSE {})
  /\ \A k \in {"ref", "anyOf"} \cap DOMAIN s : DOMAIN s \subseteq Notes \cup {k}
  /\ \A k \in {"enum", "const"} \cap DOMAIN s : DOMAIN s \subseteq Notes \cup {"type", "enum", "const"}
  /\ Beside(ForObjects, {"object"}) /\ Beside({"items"}, {"array"}) /\ Beside(Bounds, {"integer", "number"})

\* `union`: unions flattened, one member alone, null last.
UnionOf(members) ==
  LET flat == FlattenSeq([i \in DOMAIN members |->
                            IF members[i].o = "union" THEN members[i].of ELSE <<members[i]>>])
      null == [o |-> "null"] IN
  IF \E i \in DOMAIN members : members[i].o = "refused" THEN Refusal
  ELSE IF Len(flat) = 1 THEN flat[1]
  ELSE [o |-> "union", of |-> IF null \in Range(flat)
                              THEN Append(SelectSeq(flat, LAMBDA m : m # null), null) ELSE flat]

\* `closed`: the values enum, const and type leave together.
ClosedSet(s) ==
  LET listed == IF "enum" \in DOMAIN s THEN s.enum ELSE <<s.const>>
      left == SelectSeq(listed, LAMBDA v : /\ "const" \in DOMAIN s => Same(v, s.const)
                                           /\ "type" \in DOMAIN s => \E i \in DOMAIN s.type : HasType(v, s.type[i])) IN
  IF left = <<>> THEN Refusal
  ELSE [o |-> "one_of", allowed |-> left,
        literal |-> \A i \in DOMAIN left : left[i].t \notin {"array", "object"}
                                           /\ (left[i].t = "number" => ~left[i].float)]

\* `usable` and the nearest name that is.
Usable(name) == "-" \notin Range(name) /\ name[1] # "_"
Nearest(name) == [i \in DOMAIN name |-> IF name[i] = "-" THEN "_" ELSE name[i]]
Padded(name, taken) ==
  LET Pad(n) == name \o [i \in 1..n |-> "_"] IN
  Pad(Min({n \in 0..Cardinality(taken) : Pad(n) \notin taken /\ Usable(Pad(n))}))
\* `field_names`: a property keeps its name where that works, and no other field
\* takes the name of a property.
FieldNames(properties) ==
  LET Give(given, key) ==
        given @@ key :> IF Usable(key) THEN key ELSE Padded(Nearest(key), properties \cup Range(given))
  IN FoldLeft(Give, <<>>, SetToSeq(properties))

RECURSIVE Annotation(_, _, _, _)
\* `object`.
ObjectOf(s, defs, resolving) ==
  LET properties == IF "properties" \in DOMAIN s THEN s.properties ELSE <<>>
      required   == IF "required" \in DOMAIN s THEN s.required ELSE {}
      extra      == IF "additionalProperties" \in DOMAIN s THEN s.additionalProperties ELSE "true"
      names      == FieldNames(DOMAIN properties)
      types      == [k \in DOMAIN properties |-> Annotation(properties[k], FALSE, defs, resolving)] IN
  IF ~(required \subseteq DOMAIN properties) \/ extra \notin {"true", "false", "empty"}
       \/ \E k \in DOMAIN types : types[k].o = "refused"
  THEN Refusal
  ELSE [o |-> "object", closed |-> extra = "false",
        fields |-> [k \in DOMAIN types |-> [name |-> names[k], required |-> k \in required, ty |-> types[k]]]]

\* `typed`.
TypedOf(type, s, defs, resolving) ==
  CASE type \in {"integer", "number"} -> [o |-> type, bounds |-> Restrict(s, Bounds \cap DOMAIN s)]
    [] type = "object" -> ObjectOf(s, defs, resolving)
    [] type = "array" ->
         LET item == IF "items" \in DOMAIN s THEN Annotation(s.items, FALSE, defs, resolving) ELSE [o |-> "any"] IN
         IF item.o = "refused" THEN Refusal ELSE [o |-> "list", of |-> item]
    [] OTHER -> [o |-> type]

\* `annotation`, `reference`, `definition` (a definition met while it is being
\* read refers to itself) and `nullable`.
Annotation(s, root, defs, resolving) ==
  IF ~Taken(s, root) THEN Refusal
  ELSE IF "ref" \in DOMAIN s
  THEN IF s.ref \in DOMAIN defs /\ s.ref \notin resolving
       THEN Annotation(defs[s.ref], FALSE, defs, resolving \cup {s.ref}) ELSE Refusal
  ELSE IF "anyOf" \in DOMAIN s
  THEN LET nulls == {i \in DOMAIN s.anyOf : s.anyOf[i] = [type |-> <<"null">>]} IN
       IF Len(s.anyOf) # 2 \/ nulls = {} THEN Refusal
       ELSE UnionOf(<<Annotation(s.anyOf[3 - Min(nulls)], FALSE, defs, resolving), [o |-> "null"]>>)
  ELSE IF {"enum", "const"} \cap DOMAIN s # {} THEN ClosedSet(s)
  ELSE IF Types(s) = <<>> THEN [o |-> "any"]
  ELSE UnionOf([i \in DOMAIN s.type |-> TypedOf(s.type[i], s, defs, resolving)])

\* `Conversion::model`: definitions nothing refers to are read as well.
OutputModel(s) ==
  LET defs == IF "defs" \in DOMAIN s THEN s.defs ELSE <<>>
      top  == Annotation(s, TRUE, defs, {}) IN
  IF top.o # "object" \/ \E d \in DOMAIN defs : Annotation(defs[d], FALSE, defs, {d}).o = "refused"
  THEN Refusal ELSE top

----------------------------------------------------------------------------
(* What the model takes: `OutputType::validate`.                            *)

RECURSIVE Validate(_, _)
\* The member that takes the value most exactly, the first of equals.
ValidateUnion(members, v) ==
  LET takes == {i \in DOMAIN members : Validate(members[i], v) # Invalid}
      Exact(i) == members[i].o # "number" \/ (v.t = "number" /\ v.float)
      best == {i \in takes : Exact(i)} IN
  IF takes = {} THEN Invalid ELSE Validate(members[Min(IF best # {} THEN best ELSE takes)], v)

\* By property name, or by the field's own; an absent one stays absent.
ValidateObject(object, v) ==
  LET Given(k) == IF k \in DOMAIN v.o THEN k ELSE object.fields[k].name
      present  == {k \in DOMAIN object.fields : Given(k) \in DOMAIN v.o}
      dumped   == [k \in present |-> Validate(object.fields[k].ty, v.o[Given(k)])]
      named    == DOMAIN object.fields \cup {object.fields[k].name : k \in DOMAIN object.fields} IN
  IF \/ \E k \in DOMAIN object.fields \ present : object.fields[k].required
     \/ \E k \in present : dumped[k] = Invalid
     \/ object.closed /\ ~(DOMAIN v.o \subseteq named)
  THEN Invalid ELSE Obj(dumped)

Validate(ty, v) ==
  CASE ty.o \in {"string", "boolean", "null"} -> IF v.t = ty.o THEN v ELSE Invalid
    [] ty.o = "any" -> v
    [] ty.o = "integer" -> IF HasType(v, "integer") /\ Within(ty.bounds, v) THEN Num(v.n, FALSE) ELSE Invalid
    [] ty.o = "number" -> IF v.t = "number" /\ Within(ty.bounds, v) THEN Num(v.n, TRUE) ELSE Invalid
    [] ty.o = "list" ->
         IF v.t # "array" THEN Invalid
         ELSE LET items == [i \in DOMAIN v.a |-> Validate(ty.of, v.a[i])] IN
              IF Invalid \in Range(items) THEN Invalid ELSE List(items)
    [] ty.o = "object" -> IF v.t # "object" THEN Invalid ELSE ValidateObject(ty, v)
    [] ty.o = "union" -> ValidateUnion(ty.of, v)
    [] ty.o = "one_of" ->
         LET same == {i \in DOMAIN ty.allowed : Same(v, ty.allowed[i])} IN
         IF same = {} THEN Invalid ELSE IF ty.literal THEN ty.allowed[Min(same)] ELSE v

----------------------------------------------------------------------------
(* What language models are shown: the type tree, and pydantic's lax check. *)

RECURSIVE TyOf(_)
\* `OutputType::ty` and `ObjectType::ty`.  Bounds are not shown, and a field
\* that may be absent defaults to null.
TyOf(ty) ==
  CASE ty.o = "list" -> [y |-> "list", of |-> TyOf(ty.of)]
    [] ty.o = "object" -> [y |-> "model", forbid_extra |-> ty.closed,
                           fields |-> [k \in DOMAIN ty.fields |->
                                         [ty |-> TyOf(ty.fields[k].ty), required |-> ty.fields[k].required]]]
    [] ty.o = "union" ->
         LET others == SelectSeq(ty.of, LAMBDA m : m.o # "null")
             inner  == IF Len(others) = 1 THEN TyOf(others[1])
                       ELSE [y |-> "union", of |-> [i \in DOMAIN others |-> TyOf(others[i])]] IN
         IF Len(others) < Len(ty.of) THEN [y |-> "optional", of |-> inner] ELSE inner
    [] ty.o = "one_of" -> IF ty.literal THEN [y |-> "literal", values |-> ty.allowed] ELSE [y |-> "any"]
    [] OTHER -> [y |-> ty.o]

\* `lax`: what strings read as, and which words are bools.
Words == "1" :> TRUE @@ "yes" :> TRUE @@ "0" :> FALSE @@ "no" :> FALSE
LaxInt(v) ==
  CASE v.t = "boolean" -> Num(IF v.b THEN 2 ELSE 0, FALSE)
    [] v.t = "number" -> IF v.n % 2 = 0 THEN Num(v.n, FALSE) ELSE Invalid
    [] v.t = "string" -> IF v.s = "1" THEN Num(2, FALSE) ELSE Invalid
    [] OTHER -> Invalid
LaxFloat(v) ==
  CASE v.t = "boolean" -> Num(IF v.b THEN 2 ELSE 0, TRUE)
    [] v.t = "number" -> Num(v.n, TRUE)
    [] v.t = "string" -> IF v.s = "1" THEN Num(2, TRUE) ELSE Invalid
    [] OTHER -> Invalid
LaxBool(v) ==
  CASE v.t = "boolean" -> v
    [] v.t = "number" -> IF v.n \in {0, 2} THEN Flag(v.n = 2) ELSE Invalid
    [] v.t = "string" -> IF v.s \in DOMAIN Words THEN Flag(Words[v.s]) ELSE Invalid
    [] OTHER -> Invalid

\* `exact`: the value already has the branch's type.
ExactTy(ty, v) ==
  \/ ty.y \in {"string", "boolean", "null"} /\ v.t = ty.y
  \/ ty.y \in {"integer", "number"} /\ v.t = "number" /\ v.float = (ty.y = "number")
  \/ ty.y = "model" /\ v.t = "object"
  \/ ty.y = "list" /\ v.t = "array"

RECURSIVE Check(_, _)
\* `Validator::model`: a missing field takes its default.
CheckModel(model, v) ==
  LET checked == [k \in DOMAIN model.fields |->
                    IF k \in DOMAIN v.o THEN Check(model.fields[k].ty, v.o[k])
                    ELSE IF model.fields[k].required THEN Invalid ELSE Null] IN
  IF Invalid \in Range(checked) \/ (model.forbid_extra /\ ~(DOMAIN v.o \subseteq DOMAIN model.fields))
  THEN Invalid ELSE Obj(checked)

\* `Validator::union`: a branch the value already is, then the first that takes it.
CheckUnion(options, v) ==
  LET takes == {i \in DOMAIN options : Check(options[i], v) # Invalid}
      first == {i \in DOMAIN options : ExactTy(options[i], v)} IN
  IF takes = {} THEN Invalid
  ELSE IF first # {} /\ Min(first) \in takes THEN Check(options[Min(first)], v) ELSE Check(options[Min(takes)], v)

Check(ty, v) ==
  CASE ty.y \in {"string", "null"} -> IF v.t = ty.y THEN v ELSE Invalid
    [] ty.y = "integer" -> LaxInt(v)
    [] ty.y = "number" -> LaxFloat(v)
    [] ty.y = "boolean" -> LaxBool(v)
    [] ty.y = "any" -> v
    [] ty.y = "list" ->
         IF v.t # "array" THEN Invalid
         ELSE LET items == [i \in DOMAIN v.a |-> Check(ty.of, v.a[i])] IN
              IF Invalid \in Range(items) THEN Invalid ELSE List(items)
    [] ty.y = "model" -> IF v.t # "object" THEN Invalid ELSE CheckModel(ty, v)
    [] ty.y = "optional" -> IF v = Null THEN Null ELSE Check(ty.of, v)
    [] ty.y = "union" -> CheckUnion(ty.of, v)
    [] ty.y = "literal" -> IF \E i \in DOMAIN ty.values : Same(ty.values[i], v) THEN v ELSE Invalid

----------------------------------------------------------------------------
(* Optional objects flattened and folded back: `flat_optional_objects` and  *)
(* `nest_flat_objects`.  A node is a leaf, an array, an object or an        *)
(* optional object.                                                         *)

Inner(node) == IF node.k = "optional" THEN node.of ELSE node
HoldsObject(node) == node.k \in {"object", "optional"}

\* `leaves`: the paths below an optional object, through the objects in it.
RECURSIVE Leaves(_, _)
Leaves(prefix, object) ==
  LET names == SetToSeq(DOMAIN object.props)
      Below(name) == IF HoldsObject(object.props[name])
                     THEN Leaves(Append(prefix, name), Inner(object.props[name]))
                     ELSE <<Append(prefix, name)>> IN
  FlattenSeq([i \in DOMAIN names |-> Below(names[i])])

FlatPaths(props) ==
  LET names == SetToSeq({n \in DOMAIN props : props[n].k = "optional"}) IN
  FlattenSeq([i \in DOMAIN names |-> Leaves(<<names[i]>>, props[names[i]].of)])
Suffixed(base, used) ==
  IF base \notin used THEN base
  ELSE LET Nth(n) == Append(base, ToString(n)) IN
       Nth(Min({n \in 1..Cardinality(used) + 1 : Nth(n) \notin used}))
Aliased(props, reserved) ==
  LET Give(given, path) ==
        Append(given, [path |-> path, alias |-> Suffixed(FlattenSeq(path), reserved \cup {f.alias : f \in Range(given)})])
  IN FoldLeft(Give, <<>>, FlatPaths(props))

\* `flat_fields`.
FlatFields(props) == Range(Aliased(props, DOMAIN props))

\* External: the reply a decoder gives to the flattened schema when it means v.
RECURSIVE FlatReply(_, _)
RECURSIVE LeafOf(_, _, _)
LeafOf(object, v, path) ==
  LET child == object.props[path[1]] IN
  IF v = Null THEN Null
  ELSE IF Len(path) = 1 THEN FlatReply(child, v.o[path[1]])
  ELSE LeafOf(Inner(child), v.o[path[1]], Tail(path))
FlatReply(node, v) ==
  CASE node.k = "array" -> List([i \in DOMAIN v.a |-> FlatReply(node.item, v.a[i])])
    [] node.k = "object" ->
         LET flat == FlatFields(node.props)
             plain == {n \in DOMAIN node.props : node.props[n].k # "optional"} IN
         Obj([n \in plain \cup {f.alias : f \in flat} |->
                IF n \in plain THEN FlatReply(node.props[n], v.o[n])
                ELSE LET f == CHOOSE f \in flat : f.alias = n IN
                     LeafOf(node.props[f.path[1]].of, v.o[f.path[1]], Tail(f.path))])
    [] OTHER -> v

RECURSIVE AllNull(_)
AllNull(v) == v = Null \/ (v.t = "object" /\ \A k \in DOMAIN v.o : AllNull(v.o[k]))

\* `complete`.
Complete(v, object) ==
  \A name \in object.required :
    \/ object.props[name].k = "optional" \/ (object.props[name].k = "leaf" /\ object.props[name].null)
    \/ name \in DOMAIN v.o /\ v.o[name] # Null

\* `insert_flat_value`.
RECURSIVE Insert(_, _, _)
Insert(o, path, v) ==
  IF Len(path) = 1 THEN path[1] :> v @@ o
  ELSE path[1] :> Obj(Insert(IF path[1] \in DOMAIN o THEN o[path[1]].o ELSE <<>>, Tail(path), v)) @@ o

\* `nest`: an optional object whose leaves are all null, or that lacks one it
\* requires, is null.
RECURSIVE Nest(_, _, _)
Nest(node, v, inFlat) ==
  CASE v.t = "array" /\ node.k = "array" -> List([i \in DOMAIN v.a |-> Nest(node.item, v.a[i], FALSE)])
    [] v.t = "object" /\ HoldsObject(node) ->
         LET props == Inner(node).props
             flat  == FlatFields(props)
             kept  == Restrict(v.o, {k \in DOMAIN v.o : \A f \in flat : f.alias # k})
             answered == SetToSeq({f \in flat : f.alias \in DOMAIN v.o})
             expanded == FoldLeft(LAMBDA o, f : Insert(o, f.path, v.o[f.alias]), kept, answered)
             Flattened(k) == inFlat \/ \E f \in flat : f.path[1] = k
             Folded(k) == LET nested == Nest(props[k], expanded[k], Flattened(k)) IN
                          IF props[k].k = "optional" \/ (Flattened(k) /\ props[k].k = "object")
                          THEN IF AllNull(nested) \/ ~Complete(nested, Inner(props[k])) THEN Null ELSE nested
                          ELSE nested IN
         Obj([k \in DOMAIN expanded |-> IF k \in DOMAIN props THEN Folded(k) ELSE expanded[k]])
    [] OTHER -> v

----------------------------------------------------------------------------
(* Properties.                                                              *)

\* What JSON Schema itself says of a value.
RECURSIVE Satisfies(_, _, _)
Satisfies(s, v, defs) ==
  /\ "ref" \in DOMAIN s => Satisfies(defs[s.ref], v, defs)
  /\ "anyOf" \in DOMAIN s => \E i \in DOMAIN s.anyOf : Satisfies(s.anyOf[i], v, defs)
  /\ "type" \in DOMAIN s => \E i \in DOMAIN s.type : HasType(v, s.type[i])
  /\ "enum" \in DOMAIN s => \E i \in DOMAIN s.enum : Same(v, s.enum[i])
  /\ "const" \in DOMAIN s => Same(v, s.const)
  /\ v.t = "number" => Within(s, v)
  /\ "items" \in DOMAIN s /\ v.t = "array" => \A i \in DOMAIN v.a : Satisfies(s.items, v.a[i], defs)
  /\ v.t = "object" =>
       /\ "required" \in DOMAIN s => s.required \subseteq DOMAIN v.o
       /\ "properties" \in DOMAIN s =>
            \A k \in DOMAIN s.properties \cap DOMAIN v.o : Satisfies(s.properties[k], v.o[k], defs)
       /\ "additionalProperties" \in DOMAIN s /\ s.additionalProperties = "false" =>
            DOMAIN v.o \subseteq DOMAIN (IF "properties" \in DOMAIN s THEN s.properties ELSE <<>>)

\* "a constraint the caller wrote is never dropped in silence": for a schema that
\* was taken, what a run returns satisfies it, and a value that satisfies it is
\* neither refused nor shut out by the schema shown to language models.
SchemaKept(s, v) ==
  LET model == OutputModel(s)
      defs  == IF "defs" \in DOMAIN s THEN s.defs ELSE <<>> IN
  model # Refusal =>
    LET dumped == Validate(model, v) IN
    /\ dumped # Invalid => Satisfies(s, dumped, defs)
    /\ Satisfies(s, v, defs) => dumped # Invalid /\ Check(TyOf(model), v) # Invalid

\* No object below an optional one is empty of anything but nulls.
RECURSIVE Told(_, _, _)
Told(node, v, inside) ==
  CASE v.t = "array" -> \A i \in DOMAIN v.a : Told(node.item, v.a[i], FALSE)
    [] v.t = "object" -> /\ inside => ~AllNull(v)
                         /\ \A k \in DOMAIN v.o : Told(Inner(node).props[k], v.o[k],
                                                       inside \/ Inner(node).props[k].k = "optional")
    [] OTHER -> TRUE
\* A flattened reply folds back into the value it means: no leaf takes a
\* sibling's place, however literal names and joined ones collide.
RoundTrips(node, v) == Told(node, v, FALSE) => Nest(node, FlatReply(node, v), FALSE) = v
=============================================================================
