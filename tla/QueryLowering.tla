--------------------------- MODULE QueryLowering ---------------------------
(***************************************************************************)
(* Lowering one query to the typed relational IR                           *)
(* (crates/pure-analyzer-analysis: relational.rs, lowering.rs,             *)
(* column_selectors.rs).  Two queries are written one link at a time, and  *)
(* each link is lowered as lower_relation_nodes meets it; the first link   *)
(* the lowering cannot support makes the query opaque for good.            *)
(*                                                                         *)
(* A text is the sequence of its links.  A link is "all", "paren" (a query *)
(* in parentheses), "nav" (.name) or an arrow call.  A scalar text is a    *)
(* tree of "var", "nav", "lit" and "eq" nodes; parentheses inside one are  *)
(* transparent to the lowering and left out.  A multiplicity is            *)
(* <<lower, upper>>; an origin is the number of the link it points at, the *)
(* part of IrOrigin that the guards of the normalizer compare.  Candidate  *)
(* keys and totality stay unknown: no lowering call proves either.         *)
(***************************************************************************)
EXTENDS Resolver

CONSTANTS QueryGraphs,   \* the model graphs a query may be read against
          QueryClasses,  \* the class paths a query may start from
          NavNames,      \* property names written after a relation
          FilterBodies, MapBodies,  \* scalar texts over the parameter "x"
          ColumnSpecs,   \* project: sequences of [alias, body]
          Selections,    \* distinct: sequences of column names
          SortLists,     \* sort: sequences of [name, direction]
          JoinCalls,     \* join: [right, body] over the parameters "l" and "r"
          MaxLinks       \* links written over both queries

VARIABLES catalog,   \* the model graph
          texts,     \* side -> the links written so far
          lowered    \* side -> what QueryLowerer holds: a RelationState or a reason

queryVars == <<catalog, texts, lowered>>

Sides == {"left", "right"}

-----------------------------------------------------------------------------
(* The IR *)

ExactlyOne == <<1, 1>>

UnknownFacts == [set |-> FALSE, origin |-> 0]

\* Knowledge::Proven(RowSemantics::Set).
SetFacts(origin) == [set |-> TRUE, origin |-> origin]

\* RelationFacts::matches: the values without the origin that proved them.
FactsMatch(f, g) == f.set = g.set

Column(id, name, type, mult, null, origin) ==
  [id |-> id, name |-> name, type |-> type, mult |-> mult, null |-> null, origin |-> origin]

\* RelationSchema::column; identities are unique in a schema.
PositionIn(schema, id) == CHOOSE i \in DOMAIN schema : schema[i].id = id

NamesUnique(schema) == \A i, j \in DOMAIN schema : schema[i].name = schema[j].name => i = j

\* column_scalar: a read of a bound column.
ColumnRead(column) ==
  [op |-> "column", type |-> column.type, mult |-> column.mult, null |-> column.null,
   id |-> column.id]

\* validate_boolean.
IsBoolean(s) == s.type = "Boolean" /\ s.mult = ExactlyOne /\ s.null = "never"

RECURSIVE ValidScalar(_, _), ReferencesColumn(_, _)

\* validate_scalar and validate_literal over the columns of the inputs.  That a
\* navigation's origins name its class and its member holds by construction.
ValidScalar(s, schema) ==
  CASE s.op = "column" -> \E i \in DOMAIN schema :
                            schema[i].id = s.id /\ ColumnRead(schema[i]) = s
    [] s.op = "literal" -> s.mult = ExactlyOne /\ s.null = "never"
    [] s.op = "navigation" -> /\ ValidScalar(s.input, schema)
                              /\ s.type = s.member.target /\ s.null = "unknown"
    [] s.op = "equal" -> /\ ValidScalar(s.left, schema) /\ ValidScalar(s.right, schema)
                         /\ s.left.type = s.right.type /\ IsBoolean(s)
    [] s.op = "not" -> ValidScalar(s.input, schema) /\ IsBoolean(s.input) /\ IsBoolean(s)

ReferencesColumn(s, id) ==
  CASE s.op = "column" -> s.id = id
    [] s.op = "literal" -> FALSE
    [] s.op \in {"navigation", "not"} -> ReferencesColumn(s.input, id)
    [] s.op = "equal" -> ReferencesColumn(s.left, id) \/ ReferencesColumn(s.right, id)

\* compose_navigation_multiplicity, of two to-one multiplicities.
ComposeMultiplicity(receiver, member) == <<receiver[1] * member[1], receiver[2] * member[2]>>

-----------------------------------------------------------------------------
(* Scalars.  A lowered value is "scalar" (with what it is locally), "row"  *)
(* (a relation row, of which only a column may be read) or "fail".         *)

Failed(reason) == [tag |-> "fail", reason |-> reason]

LoweredScalar(expr, local) == [tag |-> "scalar", expr |-> expr, local |-> local]

NavigationReason(tag) == IF tag \in {"missing", "wrong arity"} THEN "unresolved" ELSE "incomplete"

\* predicate_reason and operator_reason.
PredicateReason(reason) == IF reason = "unmodeled" THEN "predicate" ELSE reason
OperatorReason(reason) == IF reason = "predicate" THEN "unmodeled" ELSE reason

\* lower_navigation with ResolvedNavigation::from_chain: one hop to a property
\* or an association end that holds at most one value.
NavigationFrom(input, step) ==
  IF step.tag # "found" THEN Failed(NavigationReason(step.tag))
  ELSE IF step.target.kind \notin {"property", "end"} \/ step.target.mult[2] > 1
    THEN Failed("unmodeled")
  ELSE LoweredScalar(
         [op |-> "navigation", type |-> step.target.target,
          mult |-> ComposeMultiplicity(input.expr.mult, step.target.mult),
          null |-> "unknown", input |-> input.expr, member |-> step.target],
         [step.value EXCEPT !.mult = ComposeMultiplicity(input.expr.mult, step.target.mult)])

LowerNavigation(g, input, name) ==
  NavigationFrom(input, ResolveStep(g, [input.local EXCEPT !.mult = input.expr.mult], name, 0))

\* lower_relation_column: the column of the row that has the name.
ColumnAt(columns, step) ==
  IF step.tag # "found" THEN Failed(NavigationReason(step.tag))
  ELSE LoweredScalar(ColumnRead(columns[step.target].column), columns[step.target].local)

LowerRelationColumn(g, columns, name) ==
  LET row == [i \in DOMAIN columns |-> [name |-> columns[i].column.name,
                                        type |-> columns[i].column.type,
                                        mult |-> columns[i].column.mult]] IN
  ColumnAt(columns, ResolveStep(g, LocalValue("row", row, ExactlyOne), name, 0))

\* A name read from a lowered value.
LowerRead(g, input, name) ==
  CASE input.tag = "fail" -> input
    [] input.tag = "row" -> LowerRelationColumn(g, input.columns, name)
    [] input.tag = "scalar" -> LowerNavigation(g, input, name)

\* The equality, and its negation for !=.
Comparison(left, right, negated) ==
  LET equal == [op |-> "equal", type |-> "Boolean", mult |-> ExactlyOne, null |-> "never",
                left |-> left, right |-> right] IN
  IF negated
    THEN [op |-> "not", type |-> "Boolean", mult |-> ExactlyOne, null |-> "never", input |-> equal]
    ELSE equal

\* lower_binary: two scalars of one type that each hold exactly one value.
LowerEquality(left, right, negated) ==
  IF left.tag = "fail" THEN left
  ELSE IF left.tag = "row" THEN Failed("predicate")
  ELSE IF right.tag = "fail" THEN right
  ELSE IF right.tag = "row" THEN Failed("predicate")
  ELSE IF left.expr.type # right.expr.type \/ left.expr.mult # ExactlyOne
            \/ right.expr.mult # ExactlyOne
    THEN Failed("predicate")
  ELSE LoweredScalar(Comparison(left.expr, right.expr, negated),
                     LocalValue("scalar", "Boolean", ExactlyOne))

RECURSIVE LowerScalar(_, _, _)

\* lower_value_nodes: "binds" maps each parameter to the element it stands for.
\* lower_variable, lower_literal, lower_binary, lower_navigation.
LowerScalar(g, text, binds) ==
  CASE text.k = "var" ->
         IF text.v \notin DOMAIN binds THEN Failed("unresolved")
         ELSE IF binds[text.v].tag = "row" THEN binds[text.v]
         ELSE LoweredScalar(ColumnRead(binds[text.v].column), binds[text.v].local)
    [] text.k = "lit" ->
         LoweredScalar([op |-> "literal", type |-> text.type, mult |-> ExactlyOne,
                        null |-> "never", literal |-> text.value],
                       LocalValue("scalar", text.type, ExactlyOne))
    [] text.k = "nav" -> LowerRead(g, LowerScalar(g, text.input, binds), text.name)
    [] text.k = "eq" -> LowerEquality(LowerScalar(g, text.left, binds),
                                      LowerScalar(g, text.right, binds), text.negated)

\* lower_scalar_nodes: a bare row is no scalar.
AsScalar(value) == IF value.tag = "row" THEN Failed("predicate") ELSE value

LowerBody(g, text, binds) == AsScalar(LowerScalar(g, text, binds))

-----------------------------------------------------------------------------
(* Relations: RelationState, its element being a bound column, a bound row *)
(* or nothing.                                                             *)

NoElement == [tag |-> "none"]
BoundColumn(column, local) == [tag |-> "column", column |-> column, local |-> local]
BoundRow(columns) == [tag |-> "row", columns |-> columns]

\* What the lowerer holds after a link: the relation, its element, the next
\* column identity and the number of links lowered.
Supported(expr, element, next, span) ==
  [tag |-> "ok", expr |-> expr, element |-> element, next |-> next, span |-> span]

Opaque(reason) == [tag |-> "opaque", reason |-> reason]

Nothing(next, span) == [tag |-> "empty", next |-> next, span |-> span]

\* lower_all.
LowerAll(g, st, class) ==
  IF ~IsClass(g, class) THEN Opaque("unresolved")
  ELSE LET column == Column(st.next, class, class, ExactlyOne, "unknown", st.span) IN
       Supported([op |-> "scan", schema |-> <<column>>, facts |-> UnknownFacts,
                  origin |-> st.span, class |-> class],
                 BoundColumn(column, LocalValue("class", class, ExactlyOne)),
                 st.next + 1, st.span + 1)

\* lower_filter: the predicate must be a Boolean [1] that is never null.
FilterBy(st, predicate) ==
  IF predicate.tag = "fail" THEN Opaque(PredicateReason(predicate.reason))
  ELSE IF ~ValidScalar(predicate.expr, st.expr.schema) \/ ~IsBoolean(predicate.expr)
    THEN Opaque("predicate")
  ELSE Supported([op |-> "filter", schema |-> st.expr.schema, facts |-> st.expr.facts,
                  origin |-> st.span, input |-> st.expr, predicate |-> predicate.expr],
                 st.element, st.next, st.span + 1)

LowerFilter(g, st, body) ==
  IF st.element.tag = "none" THEN Opaque("unmodeled")
  ELSE FilterBy(st, LowerBody(g, body, [v \in {"x"} |-> st.element]))

\* A projection and the Legend construct it came from ("scalar" or "relation").
Project(st, schema, facts, expressions, kind) ==
  [op |-> "project", schema |-> schema, facts |-> facts, origin |-> st.span, input |-> st.expr,
   projections |-> expressions, kind |-> kind]

\* The facts of the input carried over to the projection.
ProjectKeepsFacts(st, name, scalar) ==
  LET column == Column(st.next, name, scalar.expr.type, scalar.expr.mult, scalar.expr.null,
                       st.span) IN
  Supported(Project(st, <<column>>, st.expr.facts, <<scalar.expr>>, "scalar"),
            BoundColumn(column, scalar.local), st.next + 1, st.span + 1)

\* project: one fresh column over the input.
ProjectOne(st, name, scalar) ==
  LET column == Column(st.next, name, scalar.expr.type, scalar.expr.mult, scalar.expr.null,
                       st.span) IN
  Supported(Project(st, <<column>>, UnknownFacts, <<scalar.expr>>, "scalar"),
            BoundColumn(column, scalar.local), st.next + 1, st.span + 1)

\* lower_map.
MapTo(st, scalar) ==
  IF scalar.tag = "fail" THEN Opaque(OperatorReason(scalar.reason))
  ELSE ProjectOne(st, "value", scalar)

LowerMap(g, st, body) ==
  IF st.element.tag = "none" THEN Opaque("unmodeled")
  ELSE MapTo(st, LowerBody(g, body, [v \in {"x"} |-> st.element]))

\* project_navigation.
NavigateTo(st, name, scalar) ==
  IF scalar.tag = "fail" THEN Opaque(scalar.reason) ELSE ProjectOne(st, name, scalar)

ProjectNavigation(g, st, name) ==
  IF st.element.tag # "column" THEN Opaque("unmodeled")
  ELSE NavigateTo(st, name, LowerNavigation(g, LoweredScalar(ColumnRead(st.element.column),
                                                             st.element.local), name))

\* lower_relation_project: fresh columns under unique aliases, bound as a row;
\* the first column that cannot be lowered is the reason.
ProjectColumns(st, aliases, scalars) ==
  LET failing == {i \in DOMAIN scalars : scalars[i].tag = "fail"}
      columns == [i \in DOMAIN scalars |->
                    Column(st.next + i - 1, aliases[i], scalars[i].expr.type,
                           scalars[i].expr.mult, scalars[i].expr.null, st.span)] IN
  IF failing # {} THEN Opaque(OperatorReason(scalars[Least(failing)].reason))
  ELSE Supported(Project(st, columns, UnknownFacts, [i \in DOMAIN scalars |-> scalars[i].expr],
                         "relation"),
                 BoundRow([i \in DOMAIN scalars |-> [column |-> columns[i],
                                                     local |-> scalars[i].local]]),
                 st.next + Len(scalars), st.span + 1)

LowerProject(g, st, specs) ==
  IF st.element.tag # "column" \/ specs = <<>>
       \/ \E i, j \in DOMAIN specs : i # j /\ specs[i].alias = specs[j].alias
    THEN Opaque("unmodeled")
  ELSE ProjectColumns(st, [i \in DOMAIN specs |-> specs[i].alias],
                      [i \in DOMAIN specs |-> LowerBody(g, specs[i].body,
                                                        [v \in {"x"} |-> st.element])])

\* lower_bare_distinct: the one operator that proves a fact.
LowerDistinct(st) ==
  IF st.element.tag = "none" THEN Opaque("unmodeled")
  ELSE Supported([op |-> "distinct", schema |-> st.expr.schema, facts |-> SetFacts(st.span),
                  origin |-> st.span, input |-> st.expr],
                 st.element, st.next, st.span + 1)

\* resolve_relation_column_selectors: why a list of names does not select, or
\* "none"; the first offending selector decides.
SelectorFault(schema, names) ==
  LET Matches(i) == {c \in DOMAIN schema : schema[c].name = names[i]}
      Repeated(i) == \E j \in 1..(i - 1) : names[j] = names[i]
      bad == {i \in DOMAIN names : Repeated(i) \/ \A c \in Matches(i) : \E d \in Matches(i) : d # c} IN
  IF names = <<>> THEN "unmodeled"
  ELSE IF bad = {} THEN "none"
  ELSE IF Repeated(Least(bad)) THEN "unmodeled" ELSE "unresolved"

\* The selected identities, in the order of the selectors.
Selected(schema, names) ==
  [i \in DOMAIN names |-> schema[CHOOSE c \in DOMAIN schema : schema[c].name = names[i]].id]

\* selected_bound_element.
SelectedElement(element, ids) ==
  CASE element.tag = "none" -> NoElement
    [] element.tag = "column" ->
         IF \E i \in DOMAIN ids : ids[i] = element.column.id THEN element ELSE NoElement
    [] element.tag = "row" ->
         BoundRow([i \in DOMAIN ids |->
                     element.columns[CHOOSE c \in DOMAIN element.columns :
                                       element.columns[c].column.id = ids[i]]])

\* lower_selected_distinct.
LowerDistinctOn(st, names) ==
  IF SelectorFault(st.expr.schema, names) # "none"
    THEN Opaque(SelectorFault(st.expr.schema, names))
  ELSE LET ids == Selected(st.expr.schema, names) IN
    Supported([op |-> "distinct on",
               schema |-> [i \in DOMAIN ids |-> st.expr.schema[PositionIn(st.expr.schema, ids[i])]],
               facts |-> UnknownFacts, origin |-> st.span, input |-> st.expr, columns |-> ids],
              SelectedElement(st.element, ids), st.next, st.span + 1)

\* One resolved key of a sort.
SortKey(schema, key) ==
  [column |-> Selected(schema, <<key.name>>)[1], direction |-> key.direction]

\* lower_sort with validate_sort: each key names one column, and no two the same.
LowerSort(st, keys) ==
  LET faults == {i \in DOMAIN keys : SelectorFault(st.expr.schema, <<keys[i].name>>) # "none"} IN
  IF faults # {}
    THEN Opaque(SelectorFault(st.expr.schema,
                              <<keys[Least(faults)].name>>))
  ELSE IF keys = <<>> \/ \E i, j \in DOMAIN keys : i # j /\ keys[i].name = keys[j].name
    THEN Opaque("unmodeled")
  ELSE Supported([op |-> "sort", schema |-> st.expr.schema, facts |-> st.expr.facts,
                  origin |-> st.span, input |-> st.expr,
                  keys |-> [i \in DOMAIN keys |-> SortKey(st.expr.schema, keys[i])]],
                 st.element, st.next, st.span + 1)

\* lower_join once its right side is lowered: both sides bound to one column,
\* and a predicate that reads both.
JoinOn(st, right, predicate) ==
  LET schema == st.expr.schema \o right.expr.schema IN
  IF predicate.tag = "fail" THEN Opaque(PredicateReason(predicate.reason))
  ELSE IF ~ReferencesColumn(predicate.expr, st.element.column.id)
            \/ ~ReferencesColumn(predicate.expr, right.element.column.id)
            \/ ~ValidScalar(predicate.expr, schema) \/ ~IsBoolean(predicate.expr)
    THEN Opaque("predicate")
  ELSE Supported([op |-> "join", schema |-> schema, facts |-> UnknownFacts, origin |-> right.span,
                  left |-> st.expr, right |-> right.expr, condition |-> predicate.expr],
                 NoElement, right.next, right.span + 1)

JoinOf(g, st, right, body) ==
  IF right.tag = "opaque" THEN right
  ELSE IF right.element.tag # "column" THEN Opaque("unmodeled")
  ELSE JoinOn(st, right, LowerBody(g, body, [v \in {"l", "r"} |->
                                               IF v = "l" THEN st.element ELSE right.element]))

RECURSIVE LowerNodes(_, _, _)

\* lower_join: join_arguments takes the right side only as a single node.
LowerJoin(g, st, call) ==
  IF st.element.tag # "column" \/ Len(call.right) # 1 THEN Opaque("unmodeled")
  ELSE JoinOf(g, st, LowerNodes(g, Nothing(st.next, st.span), call.right), call.body)

\* One node of lower_relation_nodes, with lower_arrow.
LowerNode(g, st, link) ==
  IF (link.op \in {"all", "paren"}) # (st.tag = "empty") THEN Opaque("unmodeled")
  ELSE CASE link.op = "all" -> LowerAll(g, st, link.class)
         [] link.op = "paren" -> LowerNodes(g, st, link.nodes)
         [] link.op = "nav" -> ProjectNavigation(g, st, link.name)
         [] link.op = "filter" -> LowerFilter(g, st, link.body)
         [] link.op = "map" -> LowerMap(g, st, link.body)
         [] link.op = "project" -> LowerProject(g, st, link.specs)
         [] link.op = "distinct" -> LowerDistinct(st)
         [] link.op = "distinct on" -> LowerDistinctOn(st, link.names)
         [] link.op = "sort" -> LowerSort(st, link.keys)
         [] link.op = "join" -> LowerJoin(g, st, link)

\* lower_relation_nodes: left to right, the first failure is the outcome; a
\* text without a relation is unmodeled.
LowerNodes(g, st, nodes) ==
  IF st.tag = "opaque" THEN st
  ELSE IF nodes = <<>> THEN IF st.tag = "empty" THEN Opaque("unmodeled") ELSE st
  ELSE LowerNodes(g, LowerNode(g, st, Head(nodes)), Tail(nodes))

-----------------------------------------------------------------------------
(* The queries being written *)

QueryInit ==
  /\ catalog \in QueryGraphs
  /\ texts = [s \in Sides |-> <<>>]
  /\ lowered = [s \in Sides |-> Nothing(0, 1)]

\* Whether a query may get its first link, or one more.  The right query is
\* written after the left one.
Room == Len(texts["left"]) + Len(texts["right"]) < MaxLinks

MayStart(side) == texts[side] = <<>> /\ Room /\ (side = "right" => texts["left"] # <<>>)

MayGrow(side) == lowered[side].tag = "ok" /\ Room /\ (side = "left" => texts["right"] = <<>>)

\* The next link of a query and what it lowers to, as LowerNode decides it.
Write(side, link, after) ==
  /\ texts' = [texts EXCEPT ![side] = Append(@, link)]
  /\ lowered' = [lowered EXCEPT ![side] = after]
  /\ UNCHANGED catalog

WriteAll(side) ==
  /\ MayStart(side)
  /\ \E class \in QueryClasses : Write(side, [op |-> "all", class |-> class],
                                       LowerAll(catalog, lowered[side], class))

WriteNavigation(side) ==
  /\ MayGrow(side)
  /\ \E name \in NavNames : Write(side, [op |-> "nav", name |-> name],
                                  ProjectNavigation(catalog, lowered[side], name))

WriteFilter(side) ==
  /\ MayGrow(side)
  /\ \E body \in FilterBodies : Write(side, [op |-> "filter", body |-> body],
                                      LowerFilter(catalog, lowered[side], body))

WriteMap(side) ==
  /\ MayGrow(side)
  /\ \E body \in MapBodies : Write(side, [op |-> "map", body |-> body],
                                   LowerMap(catalog, lowered[side], body))

WriteProject(side) ==
  /\ MayGrow(side)
  /\ \E specs \in ColumnSpecs : Write(side, [op |-> "project", specs |-> specs],
                                      LowerProject(catalog, lowered[side], specs))

WriteDistinct(side) ==
  /\ MayGrow(side)
  /\ \/ Write(side, [op |-> "distinct"], LowerDistinct(lowered[side]))
     \/ \E names \in Selections : Write(side, [op |-> "distinct on", names |-> names],
                                        LowerDistinctOn(lowered[side], names))

WriteSort(side) ==
  /\ MayGrow(side)
  /\ \E keys \in SortLists : Write(side, [op |-> "sort", keys |-> keys],
                                   LowerSort(lowered[side], keys))

WriteJoin(side) ==
  /\ MayGrow(side)
  /\ \E call \in JoinCalls : Write(side, [op |-> "join"] @@ call,
                                   LowerJoin(catalog, lowered[side], call))

QueryNext == \E side \in Sides :
  WriteAll(side) \/ WriteNavigation(side) \/ WriteFilter(side) \/ WriteMap(side)
    \/ WriteProject(side) \/ WriteDistinct(side) \/ WriteSort(side) \/ WriteJoin(side)

=============================================================================
