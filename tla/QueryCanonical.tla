--------------------------- MODULE QueryCanonical ---------------------------
(***************************************************************************)
(* Canonical Pure for a normal form (crates/pure-analyzer-analysis:        *)
(* canonical.rs), and what the whole relational core promises: lowering,   *)
(* normal form, verdict and canonical text against the meaning of the      *)
(* query as its author wrote it.                                           *)
(***************************************************************************)
EXTENDS QueryNormalForm, SequencesExt

CONSTANTS Databases,    \* small databases: [extent: class -> objects, attr: object -> name -> value]
          ValueOrder,   \* every value, in the order sort uses
          Unemittable   \* names is_emittable_identifier refuses

-----------------------------------------------------------------------------
(* The emitter.  An emission is refused, or [ok, links, binding].  The     *)
(* depth limit of enter cannot bind here: a normal form is no deeper than  *)
(* the query that fitted the normalizer's equal limit.                     *)

Refused == [ok |-> FALSE]

Emission(links, binding) == [ok |-> TRUE, links |-> links, binding |-> binding]

BinderText(v) == [k |-> "var", v |-> v]

\* references_for_binding: how each column is read through a binder.
HasReferences(binding, schema) ==
  \/ binding = "column" /\ Len(schema) = 1
  \/ /\ binding = "row" /\ NamesUnique(schema)
     /\ \A i \in DOMAIN schema : schema[i].name \notin Unemittable

References(binding, schema, binder) ==
  [id \in {schema[i].id : i \in DOMAIN schema} |->
     IF binding = "column" THEN BinderText(binder)
     ELSE [k |-> "nav", input |-> BinderText(binder), name |-> schema[PositionIn(schema, id)].name]]

RECURSIVE CanEmitScalar(_, _), EmitScalar(_, _), Emit(_)

\* Emitter::scalar: whether it returns text, and the text.
CanEmitScalar(s, refs) ==
  CASE s.op = "column" -> s.id \in DOMAIN refs
    [] s.op = "literal" -> TRUE
    [] s.op = "navigation" -> s.member.name \notin Unemittable /\ CanEmitScalar(s.input, refs)
    [] s.op = "equal" -> CanEmitScalar(s.left, refs) /\ CanEmitScalar(s.right, refs)
    [] s.op = "not" -> s.input.op = "equal" /\ CanEmitScalar(s.input, refs)

EmitScalar(s, refs) ==
  CASE s.op = "column" -> refs[s.id]
    [] s.op = "literal" -> [k |-> "lit", type |-> s.type, value |-> s.literal]
    [] s.op = "navigation" -> [k |-> "nav", input |-> EmitScalar(s.input, refs),
                               name |-> s.member.name]
    [] s.op = "equal" -> [k |-> "eq", left |-> EmitScalar(s.left, refs),
                          right |-> EmitScalar(s.right, refs), negated |-> FALSE]
    [] s.op = "not" -> [k |-> "eq", left |-> EmitScalar(s.input.left, refs),
                        right |-> EmitScalar(s.input.right, refs), negated |-> TRUE]

\* filter: the binding and the facts are those of the input.
EmitFilter(e, input) ==
  IF ~FactsMatch(e.facts, e.input.facts) \/ ~HasReferences(input.binding, e.input.schema)
    THEN Refused
  ELSE LET refs == References(input.binding, e.input.schema, "x") IN
    IF ~CanEmitScalar(e.predicate, refs) THEN Refused
    ELSE Emission(Append(input.links, [op |-> "filter", body |-> EmitScalar(e.predicate, refs)]),
                  input.binding)

\* project: a scalar projection is a map, a relation projection a project.
EmitProject(e, input) ==
  IF \/ e.facts.set \/ ~HasReferences(input.binding, e.input.schema)
     \/ e.kind = "scalar" /\ (Len(e.projections) # 1 \/ input.binding = "none")
     \/ e.kind = "relation" /\ (input.binding # "column" \/ ~NamesUnique(e.schema))
    THEN Refused
  ELSE LET refs == References(input.binding, e.input.schema, "x")
           Body(i) == EmitScalar(e.projections[i], refs) IN
    IF \E i \in DOMAIN e.projections : ~CanEmitScalar(e.projections[i], refs) THEN Refused
    ELSE IF e.kind = "scalar"
      THEN Emission(Append(input.links, [op |-> "map", body |-> Body(1)]), "column")
    ELSE Emission(Append(input.links,
                         [op |-> "project",
                          specs |-> [i \in DOMAIN e.projections |->
                                       [alias |-> e.schema[i].name, body |-> Body(i)]]]),
                  "row")

\* join: the right side is written as its links stand, without parentheses.
EmitJoin(e, left, right) ==
  IF e.facts.set \/ left.binding # "column" \/ right.binding # "column" THEN Refused
  ELSE LET refs == References("column", e.left.schema, "l")
                     @@ References("column", e.right.schema, "r") IN
    IF ~CanEmitScalar(e.condition, refs) THEN Refused
    ELSE Emission(Append(left.links, [op |-> "join", right |-> right.links,
                                      body |-> EmitScalar(e.condition, refs)]),
                  "none")

\* distinct.
EmitDistinct(e, input) ==
  IF input.binding = "none" \/ ~e.facts.set THEN Refused
  ELSE Emission(Append(input.links, [op |-> "distinct"]), input.binding)

NameOf(schema, id) == schema[PositionIn(schema, id)].name

\* distinct_on: a class extent has no columns to select from.
EmitDistinctOn(e, input) ==
  IF input.binding = "column" \/ e.facts.set \/ ~NamesUnique(e.input.schema) THEN Refused
  ELSE Emission(Append(input.links,
                       [op |-> "distinct on",
                        names |-> [i \in DOMAIN e.columns |-> NameOf(e.input.schema, e.columns[i])]]),
                input.binding)

\* The direction is left to its default.
EmitKeyAscending(schema, key) == [name |-> NameOf(schema, key.column), direction |-> "ascending"]

EmitKey(schema, key) == [name |-> NameOf(schema, key.column), direction |-> key.direction]

\* sort.
EmitSort(e, input) ==
  IF input.binding = "column" \/ ~FactsMatch(e.facts, e.input.facts) \/ ~NamesUnique(e.input.schema)
    THEN Refused
  ELSE Emission(Append(input.links,
                       [op |-> "sort",
                        keys |-> [i \in DOMAIN e.keys |-> EmitKey(e.input.schema, e.keys[i])]]),
                input.binding)

\* emit_canonical_normal_form: Emitter::relation_at_depth, scan included.
Emit(e) ==
  IF e.op = "scan"
    THEN IF e.facts.set \/ e.class \in Unemittable THEN Refused
         ELSE Emission(<<[op |-> "all", class |-> e.class]>>, "column")
  ELSE IF e.op = "join"
    THEN LET left == Emit(e.left)
             right == Emit(e.right) IN
         IF ~left.ok \/ ~right.ok THEN Refused ELSE EmitJoin(e, left, right)
  ELSE LET input == Emit(e.input) IN
       IF ~input.ok THEN Refused
       ELSE CASE e.op = "filter" -> EmitFilter(e, input)
              [] e.op = "project" -> EmitProject(e, input)
              [] e.op = "distinct" -> EmitDistinct(e, input)
              [] e.op = "distinct on" -> EmitDistinctOn(e, input)
              [] e.op = "sort" -> EmitSort(e, input)

-----------------------------------------------------------------------------
(* What a query text means on a database, from the text alone: columns are *)
(* known by their names, a row is a sequence of [name, value].             *)

Attribute(db, value, name) == IF value = "null" THEN "null" ELSE db.attr[value][name]

Truth(b) == IF b THEN "true" ELSE "false"

Cell(name, value) == [name |-> name, value |-> value]

Named(row, name) == row[CHOOSE i \in DOMAIN row : row[i].name = name].value

RECURSIVE TextValue(_, _, _), Meaning(_, _)

\* A parameter stands for the one value of a row or, after project, for the row.
TextValue(text, env, db) ==
  CASE text.k = "var" -> env[text.v].row[1].value
    [] text.k = "lit" -> text.value
    [] text.k = "nav" ->
         IF text.input.k = "var" /\ env[text.input.v].bound = "row"
           THEN Named(env[text.input.v].row, text.name)
           ELSE Attribute(db, TextValue(text.input, env, db), text.name)
    [] text.k = "eq" ->
         Truth((TextValue(text.left, env, db) = TextValue(text.right, env, db)) # text.negated)

AppendNew(seen, row) == IF \E i \in DOMAIN seen : seen[i] = row THEN seen ELSE Append(seen, row)

Dedupe(rows) == FoldLeft(AppendNew, <<>>, rows)

OrderOf(value) == CHOOSE i \in DOMAIN ValueOrder : ValueOrder[i] = value

\* Whether row a comes before row b; "keys" are [position, direction].
SortsBefore(keys, a, b) ==
  \E k \in DOMAIN keys :
    /\ \A j \in 1..(k - 1) : a[keys[j].position] = b[keys[j].position]
    /\ IF keys[k].direction = "ascending"
         THEN OrderOf(a[keys[k].position]) < OrderOf(b[keys[k].position])
         ELSE OrderOf(b[keys[k].position]) < OrderOf(a[keys[k].position])

Values(row) == [i \in DOMAIN row |-> row[i].value]

\* Stable.  "values" are the rows' values.
SortedRows(rows, values, keys) ==
  LET Before(i, j) == SortsBefore(keys, values[i], values[j])
                        \/ (~SortsBefore(keys, values[j], values[i]) /\ i < j) IN
  [n \in DOMAIN rows |-> rows[CHOOSE i \in DOMAIN rows :
                                Cardinality({j \in DOMAIN rows : Before(j, i)}) = n - 1]]

\* All pairs of a left and a right row, the left one varying slowest.
Pairs(left, right) ==
  [n \in 1..(Len(left) * Len(right)) |->
     <<left[((n - 1) \div Len(right)) + 1], right[((n - 1) % Len(right)) + 1]>>]

Env(row, bound) == [row |-> row, bound |-> bound]

\* One link applied to what the links before it mean.
LinkMeaning(link, before, db) ==
  LET rows == before.rows
      X(row) == [v \in {"x"} |-> Env(row, before.bound)]
      Result(rs, bound) == [rows |-> rs, bound |-> bound] IN
  CASE link.op = "nav" ->
         Result([i \in DOMAIN rows |-> <<Cell(link.name, Attribute(db, rows[i][1].value, link.name))>>],
                "value")
    [] link.op = "filter" ->
         Result(SelectSeq(rows, LAMBDA r : TextValue(link.body, X(r), db) = "true"), before.bound)
    [] link.op = "map" ->
         Result([i \in DOMAIN rows |-> <<Cell("value", TextValue(link.body, X(rows[i]), db))>>],
                "value")
    [] link.op = "project" ->
         Result([i \in DOMAIN rows |->
                   [c \in DOMAIN link.specs |->
                      Cell(link.specs[c].alias, TextValue(link.specs[c].body, X(rows[i]), db))]],
                "row")
    [] link.op = "distinct" -> Result(Dedupe(rows), before.bound)
    [] link.op = "distinct on" ->
         Result(Dedupe([i \in DOMAIN rows |->
                          [c \in DOMAIN link.names |->
                             Cell(link.names[c], Named(rows[i], link.names[c]))]]), before.bound)
    [] link.op = "sort" ->
         Result(IF rows = <<>> THEN rows
                ELSE SortedRows(rows, [i \in DOMAIN rows |-> Values(rows[i])],
                       [k \in DOMAIN link.keys |->
                          [position |-> CHOOSE c \in DOMAIN rows[1] :
                                          rows[1][c].name = link.keys[k].name,
                           direction |-> link.keys[k].direction]]), before.bound)
    [] link.op = "join" ->
         LET pairs == Pairs(rows, Meaning(link.right, db).rows)
             matching == SelectSeq(pairs, LAMBDA p :
                           TextValue(link.body, [v \in {"l", "r"} |->
                             Env(IF v = "l" THEN p[1] ELSE p[2], "value")], db) = "true") IN
         Result([i \in DOMAIN matching |-> matching[i][1] \o matching[i][2]], "none")

Meaning(links, db) ==
  LET last == links[Len(links)] IN
  CASE last.op = "all" ->
         [rows |-> [i \in DOMAIN db.extent[last.class] |->
                      <<Cell(last.class, db.extent[last.class][i])>>],
          bound |-> "value"]
    [] last.op = "paren" -> Meaning(last.nodes, db)
    [] OTHER -> LinkMeaning(last, Meaning(Front(links), db), db)

-----------------------------------------------------------------------------
(* What an IR expression means on a database: columns are identities.      *)

RECURSIVE ScalarValue(_, _, _, _), Rows(_, _)

ScalarValue(s, schema, row, db) ==
  CASE s.op = "column" -> row[PositionIn(schema, s.id)]
    [] s.op = "literal" -> s.literal
    [] s.op = "navigation" -> Attribute(db, ScalarValue(s.input, schema, row, db), s.member.name)
    [] s.op = "equal" -> Truth(ScalarValue(s.left, schema, row, db)
                                 = ScalarValue(s.right, schema, row, db))
    [] s.op = "not" -> Truth(ScalarValue(s.input, schema, row, db) = "false")

Rows(e, db) ==
  IF e.op = "scan" THEN [i \in DOMAIN db.extent[e.class] |-> <<db.extent[e.class][i]>>]
  ELSE IF e.op = "join"
    THEN LET joined == [i \in DOMAIN Pairs(Rows(e.left, db), Rows(e.right, db)) |->
                          Pairs(Rows(e.left, db), Rows(e.right, db))[i][1]
                            \o Pairs(Rows(e.left, db), Rows(e.right, db))[i][2]] IN
         SelectSeq(joined, LAMBDA r :
           ScalarValue(e.condition, e.left.schema \o e.right.schema, r, db) = "true")
  ELSE LET rows == Rows(e.input, db) IN
    CASE e.op = "filter" ->
           SelectSeq(rows, LAMBDA r : ScalarValue(e.predicate, e.input.schema, r, db) = "true")
      [] e.op = "project" ->
           [i \in DOMAIN rows |-> [c \in DOMAIN e.projections |->
              ScalarValue(e.projections[c], e.input.schema, rows[i], db)]]
      [] e.op = "distinct" -> Dedupe(rows)
      [] e.op = "distinct on" ->
           Dedupe([i \in DOMAIN rows |-> [c \in DOMAIN e.columns |->
                     rows[i][PositionIn(e.input.schema, e.columns[c])]]])
      [] e.op = "sort" ->
           SortedRows(rows, rows, [k \in DOMAIN e.keys |->
              [position |-> PositionIn(e.input.schema, e.keys[k].column),
               direction |-> e.keys[k].direction]])

\* Rows of values under the names of a schema.
UnderNames(schema, rows) ==
  [i \in DOMAIN rows |-> [c \in DOMAIN schema |-> Cell(schema[c].name, rows[i][c])]]

-----------------------------------------------------------------------------
(* Properties *)

Lowers(side) == lowered[side].tag = "ok"

\* LoweredMeansText: a query the lowering supports means, in the IR and in its
\* normal form, what its text means on every database, row for row, under the
\* same column names: column identities, bound elements and rewrites never make
\* it read another column, lose a row or lose an order.  Where it carries a
\* proven Set no two rows are equal, whatever was applied after the distinct
\* that proved it.
LoweredMeansText ==
  \A side \in Sides : Lowers(side) =>
    \A e \in {lowered[side].expr} : \A normal \in {Rewrite(e)} :
      /\ normal.schema = e.schema
      /\ \A db \in Databases : \A meant \in {Meaning(texts[side], db).rows} :
           /\ UnderNames(e.schema, Rows(e, db)) = meant
           /\ UnderNames(normal.schema, Rows(normal, db)) = meant
           /\ e.facts.set \/ normal.facts.set =>
                \A i, j \in DOMAIN meant : meant[i] = meant[j] => i = j

ValuesOf(rows) == [i \in DOMAIN rows |-> Values(rows[i])]

\* What running a query shows: the values of a collection, whose one column has
\* a name in the IR only, or the rows of a relation under their column names.
IsCollection(links, db) == Meaning(links, db).bound = "value"

Shown(links, db) ==
  IF IsCollection(links, db)
    THEN [i \in DOMAIN Meaning(links, db).rows |->
            <<Cell("", Meaning(links, db).rows[i][1].value)>>]
    ELSE Meaning(links, db).rows

\* Collections that the IR names differently: A.all().name is a column "name",
\* A.all()->map(x | $x.name) a column "value".
NamedApart ==
  /\ \A side \in Sides : \A db \in Databases : IsCollection(texts[side], db)
  /\ lowered["left"].expr.schema[1].name # lowered["right"].expr.schema[1].name

\* VerdictIsSound: what compare_lowered_queries commits to is so.  "equivalent"
\* is said only of queries that mean the same rows on every database;
\* "different" only of queries that some database shows apart, or of the
\* collections that differ in the name of their column in the IR, for which
\* the verdict may be wrong (CanonicalRoundTrips is about those); and the
\* verdict does not depend on which query is first.
VerdictIsSound ==
  Lowers("left") /\ Lowers("right") =>
    \A verdict \in {Verdict(lowered["left"], lowered["right"])} :
      /\ verdict = Verdict(lowered["right"], lowered["left"])
      /\ verdict = "equivalent" => \A db \in Databases :
           Meaning(texts["left"], db).rows = Meaning(texts["right"], db).rows
      /\ verdict = "different" =>
           \/ \E db \in Databases : Shown(texts["left"], db) # Shown(texts["right"], db)
           \/ NamedApart

\* The canonical text of a query, and what reading it back gives.
Canonical(side) == Emit(Rewrite(lowered[side].expr))

ReadBack(emitted) == LowerNodes(catalog, Nothing(0, 1), emitted.links)

HasCanonical(side) ==
  Lowers(side) /\ Normalizes(lowered[side].expr) /\ Canonical(side).ok

\* CanonicalKeepsMeaning: canonical text that can be read back holds the same
\* values as the query it was emitted for, row for row, on every database.
CanonicalKeepsMeaning ==
  \A side \in Sides : HasCanonical(side) =>
    \A emitted \in {Canonical(side)} : \A back \in {ReadBack(emitted)} :
      back.tag = "ok" => \A db \in Databases :
        ValuesOf(Meaning(emitted.links, db).rows) = ValuesOf(Meaning(texts[side], db).rows)

\* CanonicalRoundTrips: canonical text lowers again and compares equivalent to
\* the query it was emitted for, as the documentation of
\* emit_canonical_normal_form and the repository's injectivity suite state it.
CanonicalRoundTrips ==
  \A side \in Sides : HasCanonical(side) =>
    \A back \in {ReadBack(Canonical(side))} :
      back.tag = "ok" /\ Verdict(lowered[side], back) = "equivalent"

=============================================================================
