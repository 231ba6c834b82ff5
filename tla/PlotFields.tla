----------------------------- MODULE PlotFields -----------------------------
(***************************************************************************)
(* What of a deployment's payloads can be plotted: the walk over a JSON      *)
(* schema that offers fields, the path in which a field is written down, and *)
(* what a Grafana panel with that path selects from a logged payload.        *)
(*                                                                         *)
(* A schema is a record with the keys of the JSON object that the code looks *)
(* at.  A text is the sequence of its characters, but for letters, of which  *)
(* an element may hold several: what matters is ".", "[" and "]".            *)
(*                                                                         *)
(* Definitions named Bug... are not part of the specification: each is the   *)
(* definition below it with a plausible programming error.                   *)
(***************************************************************************)
EXTENDS Naturals, Sequences, SequencesExt, TLC

CONSTANTS
    Defs,           \* the schemas a $ref can refer to, by name
    MaxItems        \* bound: items of the arrays in payloads

\* schema.get(key)
Has(s, key) == key \in DOMAIN s

-----------------------------------------------------------------------------
(* Normal forms of schemas.                                                *)

IsNullSchema(s) == Has(s, "type") /\ s.type = {"null"}

\* _resolve_ref: the keys beside $ref win.  A $ref to nowhere is left alone.
ResolveRef(s) ==
    IF Has(s, "ref") /\ s.ref \in DOMAIN Defs
    THEN LET node == Defs[s.ref]
             own  == DOMAIN s \ {"ref"}
         IN [k \in own \union DOMAIN node |-> IF k \in own THEN s[k] ELSE node[k]]
    ELSE s

\* A type that is a list is a set of more than one name here, and "null" one of them.
OneType(s) ==
    IF Has(s, "type") /\ \E t \in s.type : s.type \ {"null"} = {t}
    THEN [s EXCEPT !.type = s.type \ {"null"}]
    ELSE s

BranchKeys == <<"anyOf", "oneOf">>

RECURSIVE Normalize(_)
Normalize(schema) ==
    LET s == OneType(ResolveRef(schema))
        real(key)   == SelectSeq(s[key], LAMBDA b : ~IsNullSchema(b))
        single(key) == Has(s, key) /\ Len(real(key)) = 1
    IN IF single("anyOf") THEN Normalize(real("anyOf")[1])
       ELSE IF single("oneOf") THEN Normalize(real("oneOf")[1])
       ELSE s

\* _schema_type: the type, or what the values of an enum have in common.
SchemaType(s) ==
    IF Has(s, "type") /\ \E t \in s.type : s.type = {t} THEN CHOOSE t \in s.type : TRUE
    ELSE IF Has(s, "enum") /\ s.enum \ {"null"} = {"boolean"} THEN "boolean"
    ELSE IF Has(s, "enum") /\ s.enum \ {"null"} = {"string"} THEN "string"
    ELSE "none"

Numeric(t)     == t \in {"number", "integer"}
Categorical(t) == t \in {"string", "boolean"}

\* _fixed_array_length, 0 for None.
FixedLength(s) ==
    IF Has(s, "prefixItems") /\ s.prefixItems # <<>> THEN Len(s.prefixItems)
    ELSE IF Has(s, "minItems") /\ Has(s, "maxItems") /\ s.minItems = s.maxItems THEN s.minItems
    ELSE 0

-----------------------------------------------------------------------------
(* _extract_schema_fields.  A field is its path and the type of its values; *)
(* of two with one path, the later one counts.                              *)

PathTo(prefix, name) == IF prefix = <<>> THEN name ELSE prefix \o <<".">> \o name
Each(prefix)         == prefix \o <<"[", "*", "]">>
Nth(prefix, i)       == prefix \o <<"[", ToString(i), "]">>

Field(path, type) == [path |-> path, type |-> type]

\* The type of a field over the elements of an array.
ScalarsIn(t) == IF t = "boolean" THEN "boolean_array" ELSE "category_array"

RECURSIVE Fields(_, _)

\* Every element of an array of arrays indexed with the rows of the outer one.
BugArrayFields(s, prefix) ==
    IF ~Has(s, "items") THEN <<>>
    ELSE LET t == SchemaType(Normalize(s.items)) IN
         IF Numeric(t) THEN <<Field(prefix, "number_array")>>
         ELSE IF Categorical(t) THEN <<Field(prefix, ScalarsIn(t))>>
         ELSE Fields(s.items, prefix)

\* _extract_array_fields
ArrayFields(s, prefix) ==
    IF ~Has(s, "items")
    THEN IF Has(s, "prefixItems")
         THEN FlattenSeq([i \in DOMAIN s.prefixItems |->
                            Fields(s.prefixItems[i], Nth(prefix, i - 1))])
         ELSE <<>>
    ELSE LET items  == Normalize(s.items)
             t      == SchemaType(items)
             nested == Normalize(IF Has(items, "items") THEN items.items ELSE [k \in {} |-> 0])
             nt     == SchemaType(nested)
         IN CASE Numeric(t)     -> <<Field(Each(prefix), "number_array")>>
              [] Categorical(t) -> <<Field(Each(prefix), ScalarsIn(t))>>
              [] t = "array" /\ Numeric(nt) ->
                   <<Field(Each(Each(prefix)), "number_matrix")>>
                   \o [i \in 1..FixedLength(items) |->
                         Field(Nth(Each(prefix), i - 1), "number_matrix_index")]
              [] t = "array" /\ Categorical(nt) -> <<Field(Each(Each(prefix)), ScalarsIn(nt))>>
              [] OTHER -> Fields(items, Each(prefix))

\* _extract_branch_fields
BranchFields(s, key, prefix) ==
    FlattenSeq([i \in DOMAIN s[key] |->
                  IF IsNullSchema(s[key][i]) THEN <<>> ELSE Fields(s[key][i], prefix)])

\* properties is a sequence of <<name, schema>>, as the JSON object keeps its order.
Fields(schema, prefix) ==
    LET s == Normalize(schema)
        t == SchemaType(s)
    IN IF Has(s, "anyOf") THEN BranchFields(s, "anyOf", prefix)
       ELSE IF Has(s, "oneOf") THEN BranchFields(s, "oneOf", prefix)
       ELSE IF prefix # <<>> /\ Numeric(t) THEN <<Field(prefix, "number")>>
       ELSE IF prefix # <<>> /\ Categorical(t)
            THEN <<Field(prefix, IF t = "boolean" THEN "boolean" ELSE "category")>>
       ELSE IF prefix # <<>> /\ t = "array" THEN ArrayFields(s, prefix)
       ELSE IF Has(s, "properties")
            THEN FlattenSeq([i \in DOMAIN s.properties |->
                               Fields(s.properties[i][2], PathTo(prefix, s.properties[i][1]))])
       ELSE <<>>

\* _extract_plot_fields, for one of the two schemas.
PlotFields(schema) ==
    LET all == Fields(schema, <<>>)
    IN {all[i] : i \in {j \in DOMAIN all : \A k \in (j + 1)..Len(all) : all[k].path # all[j].path}}

PlotTypes(type) ==
    CASE type \in {"number", "number_array", "number_matrix_index"} -> {"time_series", "distribution"}
      [] type = "number_matrix" -> {"distribution"}
      [] OTHER -> {"distribution", "category_time_series"}

-----------------------------------------------------------------------------
(* Panels: the path parsed again, and what the query selects.               *)

\* _jsonpath_literal: split at ".", and each part at its selectors.  A property step is the
\* name and a selector is "*" or digits; anything else raises, and has no value here.
RECURSIVE Selectors(_)
Selectors(part) ==
    IF part = <<>> THEN <<>>
    ELSE <<[selector |-> part[2]]>> \o Selectors(SubSeq(part, 4, Len(part)))

Steps(part) ==
    LET opens == {i \in DOMAIN part : part[i] = "["}
        cut   == IF opens = {} THEN Len(part) + 1
                 ELSE CHOOSE i \in opens : \A j \in opens : i <= j
        name  == SubSeq(part, 1, cut - 1)
    IN (IF name = <<>> THEN <<>> ELSE <<[property |-> name]>>)
       \o Selectors(SubSeq(part, cut, Len(part)))

RECURSIVE JsonPath(_)
JsonPath(path) ==
    LET dots == {i \in DOMAIN path : path[i] = "."}
        cut  == IF dots = {} THEN Len(path) + 1 ELSE CHOOSE i \in dots : \A j \in dots : i <= j
    IN IF path = <<>> THEN <<>>
       ELSE Steps(SubSeq(path, 1, cut - 1)) \o JsonPath(SubSeq(path, cut + 1, Len(path)))

\* jsonpath in lax mode: a property of an array is that of its elements, a selector treats
\* another value as an array of one, and what is not there is left out.
Follow(value, step) ==
    IF "property" \in DOMAIN step
    THEN LET objects == IF value.kind = "array" THEN value.items ELSE <<value>>
             having  == SelectSeq(objects, LAMBDA o : o.kind = "object"
                                                      /\ step.property \in DOMAIN o.members)
         IN [i \in DOMAIN having |-> having[i].members[step.property]]
    ELSE LET items == IF value.kind = "array" THEN value.items ELSE <<value>>
         IN IF step.selector = "*" THEN items
            ELSE FlattenSeq([i \in DOMAIN items |->
                               IF ToString(i - 1) = step.selector THEN <<items[i]>> ELSE <<>>])

RECURSIVE Select(_, _)
Select(value, steps) ==
    IF steps = <<>> THEN <<value>>
    ELSE LET found == Follow(value, Head(steps))
         IN FlattenSeq([i \in DOMAIN found |-> Select(found[i], Tail(steps))])

\* The query of a panel leaves out nulls and, for a series over time or the distribution of a
\* numeric field, what does not look like a number.
NumericTypes == {"number", "number_array", "number_matrix", "number_matrix_index"}

OnlyNumbers(plot) ==
    \/ plot.type = "time_series"
    \/ plot.type = "distribution" /\ plot.field.type \in NumericTypes

Shown(plot, payload) ==
    LET found == ToSet(Select(payload, JsonPath(plot.field.path)))
    IN {v \in found : v.kind # "null" /\ (OnlyNumbers(plot) => v.kind = "number")}

-----------------------------------------------------------------------------
(* Payloads that a schema allows, as the gateway's validator has it.         *)

Scalar(kind) == [kind |-> kind]

\* All choices of one element of each of a sequence of sets.
RECURSIVE Combinations(_)
Combinations(sets) ==
    IF sets = <<>> THEN {<<>>}
    ELSE {<<x>> \o rest : x \in Head(sets), rest \in Combinations(Tail(sets))}

RECURSIVE Payloads(_)
PayloadsOf(t, s) ==
    CASE Numeric(t) -> {Scalar("number")}
      [] t = "array" ->
           LET sizes == {n \in 0..MaxItems :
                           /\ Has(s, "minItems") => n >= s.minItems
                           /\ Has(s, "maxItems") => n <= s.maxItems}
               item(i) == IF Has(s, "prefixItems") /\ i <= Len(s.prefixItems)
                          THEN Payloads(s.prefixItems[i])
                          ELSE IF Has(s, "items") THEN Payloads(s.items) ELSE {}
           IN {[kind |-> "array", items |-> x] :
                 x \in UNION {Combinations([i \in 1..n |-> item(i)]) : n \in sizes}}
      [] t = "object" ->
           LET props == IF Has(s, "properties") THEN s.properties ELSE <<>>
               \* a property is left out or has a value
               opt(i) == {<<>>} \union {<<v>> : v \in Payloads(props[i][2])}
           IN {[kind |-> "object",
                members |-> [n \in {props[i][1] : i \in {j \in DOMAIN props : x[j] # <<>>}} |->
                               x[CHOOSE i \in DOMAIN props : props[i][1] = n][1]]] :
                 x \in Combinations([i \in DOMAIN props |-> opt(i)])}
      [] OTHER -> {Scalar(t)}

Payloads(schema) ==
    LET s == ResolveRef(schema) IN
    IF Has(s, "anyOf") THEN UNION {Payloads(s.anyOf[i]) : i \in DOMAIN s.anyOf}
    ELSE IF Has(s, "oneOf") THEN UNION {Payloads(s.oneOf[i]) : i \in DOMAIN s.oneOf}
    ELSE IF Has(s, "type") THEN UNION {PayloadsOf(t, s) : t \in s.type}
    ELSE IF Has(s, "enum") THEN {Scalar(k) : k \in s.enum}
    ELSE {}

-----------------------------------------------------------------------------
Promised(type) ==
    CASE type \in NumericTypes -> {"number"}
      [] type \in {"boolean", "boolean_array"} -> {"boolean"}
      [] OTHER -> {"string"}

\* The panel shows values of its field's type and no others, whatever is sent, and there are
\* payloads of which it shows some.
Readable(plot, payloads) ==
    /\ \A p \in payloads : \A v \in Shown(plot, p) : v.kind \in Promised(plot.field.type)
    /\ \E p \in payloads : Shown(plot, p) # {}
=============================================================================
