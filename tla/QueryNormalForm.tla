-------------------------- MODULE QueryNormalForm --------------------------
(***************************************************************************)
(* Normalization and comparison of lowered queries                         *)
(* (crates/pure-analyzer-analysis: normalizer.rs, comparison.rs).  The     *)
(* normalizer applies three rewrites bottom up under a step budget and a   *)
(* depth limit; equal keys of two normal forms mean equivalent queries,    *)
(* different output schemas mean different ones, and all else is left      *)
(* undecided.                                                              *)
(***************************************************************************)
EXTENDS QueryLowering

CONSTANTS MaxNormalizationSteps,   \* NormalizationBudget::max_steps (4096 by default)
          MaxRelationalDepth       \* MAX_RELATIONAL_RECURSION_DEPTH (32 in the code)

-----------------------------------------------------------------------------
(* Budget: consume takes one step per node, enter one level per nesting,   *)
(* and scalars nest below the relation that holds them.                    *)

Larger(a, b) == IF a >= b THEN a ELSE b

RECURSIVE ScalarSteps(_), ScalarDepth(_), Steps(_), Depth(_), SumOf(_, _), DeepestOf(_, _)

ScalarSteps(s) ==
  CASE s.op \in {"column", "literal"} -> 1
    [] s.op \in {"navigation", "not"} -> 1 + ScalarSteps(s.input)
    [] s.op = "equal" -> 1 + ScalarSteps(s.left) + ScalarSteps(s.right)

ScalarDepth(s) ==
  CASE s.op \in {"column", "literal"} -> 1
    [] s.op \in {"navigation", "not"} -> 1 + ScalarDepth(s.input)
    [] s.op = "equal" -> 1 + Larger(ScalarDepth(s.left), ScalarDepth(s.right))

SumOf(scalars, i) == IF i = 0 THEN 0 ELSE ScalarSteps(scalars[i]) + SumOf(scalars, i - 1)

DeepestOf(scalars, i) ==
  IF i = 0 THEN 0 ELSE Larger(ScalarDepth(scalars[i]), DeepestOf(scalars, i - 1))

Steps(e) ==
  CASE e.op = "scan" -> 1
    [] e.op = "filter" -> 1 + Steps(e.input) + ScalarSteps(e.predicate)
    [] e.op = "project" -> 1 + Steps(e.input) + SumOf(e.projections, Len(e.projections))
    [] e.op = "join" -> 1 + Steps(e.left) + Steps(e.right) + ScalarSteps(e.condition)
    [] OTHER -> 1 + Steps(e.input)

Depth(e) ==
  CASE e.op = "scan" -> 1
    [] e.op = "filter" -> 1 + Larger(Depth(e.input), ScalarDepth(e.predicate))
    [] e.op = "project" ->
         1 + Larger(Depth(e.input), DeepestOf(e.projections, Len(e.projections)))
    [] e.op = "join" ->
         1 + Larger(Larger(Depth(e.left), Depth(e.right)), ScalarDepth(e.condition))
    [] OTHER -> 1 + Depth(e.input)

-----------------------------------------------------------------------------
(* Rewrites *)

\* is_literal_true_filter: facts are compared with their origins.
IsLiteralTrueFilter(e, input) ==
  /\ e.schema = input.schema /\ e.facts = input.facts
  /\ e.predicate.op = "literal" /\ e.predicate.type = "Boolean" /\ e.predicate.literal = "true"

\* is_identity_project: every output column is the input column it reads.
IsIdentityProject(e, input) ==
  /\ e.schema = input.schema /\ e.facts = input.facts
  /\ \A i \in DOMAIN e.projections : e.projections[i] = ColumnRead(e.schema[i])

\* is_repeated_distinct: the facts match whichever call proved them.
IsRepeatedDistinct(e, input) ==
  e.schema = input.schema /\ FactsMatch(e.facts, input.facts) /\ input.op = "distinct"

RECURSIVE Rewrite(_)

\* relation_at_depth; scalars are only counted, never rewritten.
Rewrite(e) ==
  CASE e.op = "scan" -> e
    [] e.op = "join" -> [e EXCEPT !.left = Rewrite(@), !.right = Rewrite(@)]
    [] OTHER ->
         LET input == Rewrite(e.input) IN
         IF \/ e.op = "filter" /\ IsLiteralTrueFilter(e, input)
            \/ e.op = "project" /\ IsIdentityProject(e, input)
            \/ e.op = "distinct" /\ IsRepeatedDistinct(e, input)
           THEN input ELSE [e EXCEPT !.input = input]

\* normalize_relational_query_with_budget.
Normalizes(e) == Steps(e) <= MaxNormalizationSteps /\ Depth(e) <= MaxRelationalDepth

-----------------------------------------------------------------------------
(* The equivalence key: identities become positions, origins are left out. *)

\* ColumnScope::position: a column is known by its place in the input's schema.
Place(schema, id) == PositionIn(schema, id)

\* KeyEncoder::facts; no lowering proves a candidate key or a bag.
FactsKey(facts) == facts.set

RECURSIVE ScalarKey(_, _), Key(_)

ScalarKey(s, schema) ==
  <<s.op, s.type, s.mult, s.null>> \o
  CASE s.op = "column" -> <<Place(schema, s.id)>>
    [] s.op = "literal" -> <<s.literal>>
    [] s.op = "navigation" -> <<ScalarKey(s.input, schema), s.member>>
    [] s.op = "not" -> <<ScalarKey(s.input, schema)>>
    [] s.op = "equal" -> <<ScalarKey(s.left, schema), ScalarKey(s.right, schema)>>

SchemaKey(schema) ==
  [i \in DOMAIN schema |-> <<schema[i].name, schema[i].type, schema[i].mult, schema[i].null>>]

\* A sort is a sort.
KeyWithoutDirection(key, schema) == <<Place(schema, key.column)>>

SortKeyOf(key, schema) == <<Place(schema, key.column), key.direction>>

\* KeyEncoder::relation.
Key(e) ==
  <<e.op, SchemaKey(e.schema), FactsKey(e.facts)>> \o
  CASE e.op = "scan" -> <<e.class>>
    [] e.op = "filter" -> <<Key(e.input), ScalarKey(e.predicate, e.input.schema)>>
    [] e.op = "project" ->
         <<e.kind, Key(e.input),
           [i \in DOMAIN e.projections |-> ScalarKey(e.projections[i], e.input.schema)]>>
    [] e.op = "join" ->
         <<Key(e.left), Key(e.right), ScalarKey(e.condition, e.left.schema \o e.right.schema)>>
    [] e.op = "distinct" -> <<Key(e.input)>>
    [] e.op = "distinct on" ->
         <<Key(e.input), [i \in DOMAIN e.columns |-> Place(e.input.schema, e.columns[i])]>>
    [] e.op = "sort" ->
         <<Key(e.input), [i \in DOMAIN e.keys |-> SortKeyOf(e.keys[i], e.input.schema)]>>

-----------------------------------------------------------------------------
(* Comparison *)

\* output_column_field_difference; "unknown" contradicts nothing.
ColumnsDiffer(a, b) ==
  \/ a.name # b.name \/ a.type # b.type \/ a.mult # b.mult
  \/ {a.null, b.null} = {"never", "null"}

\* output_schema_difference.
SchemasDiffer(left, right) ==
  \/ Len(left) # Len(right)
  \/ \E i \in DOMAIN left : ColumnsDiffer(left[i], right[i])

\* compare_normalized.
CompareNormalized(left, right) ==
  IF Key(left) = Key(right) THEN "equivalent"
  ELSE IF SchemasDiffer(left.schema, right.schema) THEN "different"
  ELSE "indecisive"

\* compare_lowered_queries_with_budget.
Verdict(left, right) ==
  IF left.tag # "ok" \/ right.tag # "ok" THEN "indecisive"
  ELSE IF ~Normalizes(left.expr) \/ ~Normalizes(right.expr) THEN "indecisive"
  ELSE CompareNormalized(Rewrite(left.expr), Rewrite(right.expr))

=============================================================================
