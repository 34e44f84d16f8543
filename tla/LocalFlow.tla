----------------------------- MODULE LocalFlow -----------------------------
(***************************************************************************)
(* Local type flow and the navigation lints over it                        *)
(* (crates/pure-analyzer-analysis: local.rs, lint.rs).  The analyser walks *)
(* a query tree once, left to right; here the tree is written one node at  *)
(* a time and each action is the visit of that node.  A node with children *)
(* is opened and closed.                                                   *)
(*                                                                         *)
(* Beside every value the analyser carries, "true" is the type the         *)
(* language gives it ("any" where the program does not determine one), and *)
(* "trueEnv" the bindings lexical scoping makes visible.  The type of a    *)
(* parameter comes from the signature of the function called, not from the *)
(* analyser's rule; "misread" marks what descends from a parameter that    *)
(* was bound to a type it does not have.  No guard reads any of it.        *)
(***************************************************************************)
EXTENDS Resolver, SequencesExt

CONSTANTS Variables,    \* variable names a query may use
          Classes,      \* class paths written before .all()
          Columns,      \* the columns of a typed relation parameter
          Functions,    \* functions called with an arrow; "other" is any unknown one
          ParameterLists,   \* the parameters of a lambda: sequences of [name, typed], typed
                        \* being "no", "row" (a readable Relation<(...)>), "unread" or a class
          MaxNodes,     \* nodes of a query that are not lambdas
          MaxLambdas,   \* lambdas of a query
          MaxNesting    \* contexts open at once

VARIABLES model,    \* the graph under the query
          walk,     \* contexts open, innermost last
          frames,   \* TypeEnvironment: the root and one frame per scope
          site,     \* the LocalResolutionSite the last visit recorded, if it did
          visited,  \* nodes visited
          entered   \* lambdas entered

flowVars == <<model, walk, frames, site, visited, entered>>

UnknownValue == LocalValue("unknown", "none", "many")

NoSource == "none"
NoBindings == [v \in {} |-> UnknownValue]
NoSite == [tag |-> "none", why |-> "none"]
NoMembers == "no members"    \* a Boolean, a number or a function

TrueType(of, misread) == [of |-> of, misread |-> misread]

Untyped == TrueType("any", FALSE)

\* A context: what evaluate_nodes, evaluate_arrow_call, evaluate_lambda or
\* evaluate_let holds on the stack while its children are visited.  "begun" is the
\* parser's half: an operand starts with a primary expression, and only an
\* operator, a new statement or a new argument allows another.
Context(form, call, name, incoming, trueIncoming, trueEnv) ==
  [form |-> form, call |-> call, name |-> name, incoming |-> incoming,
   trueIncoming |-> trueIncoming, trueEnv |-> trueEnv,
   value |-> UnknownValue, source |-> NoSource, true |-> Untyped, begun |-> FALSE,
   lambdas |-> 0]

Top == Last(walk)

\* Once a call's lambdas are visited its other arguments have been.
Starts == Top.form # "lambdas" /\ (~Top.begun \/ Top.call = "operator")

\* TypeEnvironment::lookup: the nearest frame that binds the name.
Binding(env, v) == {i \in DOMAIN env : v \in DOMAIN env[i]}

Lookup(env, v) ==
  IF Binding(env, v) = {} THEN UnknownValue
  ELSE env[CHOOSE i \in Binding(env, v) : \A j \in Binding(env, v) : j <= i][v]

\* TypeScope::bind writes the innermost frame.
Bind(env, v, value) == [env EXCEPT ![Len(env)] = (v :> value) @@ @]

\* The frame stays behind when its scope ends.
PopScopeNot(env) == env

\* TypeScope's Drop.
PopScope(env) == Front(env)

\* The innermost context carries this value on.
Carry(value, source, true) ==
  walk' = [walk EXCEPT ![Len(walk)].value = value, ![Len(walk)].source = source,
                       ![Len(walk)].true = true, ![Len(walk)].begun = TRUE]

Visit == visited < MaxNodes /\ visited' = visited + 1 /\ UNCHANGED <<entered, model>>

NothingRecorded == site' = NoSite

-----------------------------------------------------------------------------
(* Leaves *)

VariableExpr(v) ==
  /\ Starts /\ Visit
  /\ Carry(Lookup(frames, v), v, IF v \in DOMAIN Top.trueEnv THEN Top.trueEnv[v] ELSE Untyped)
  /\ NothingRecorded /\ UNCHANGED frames

\* evaluate_class_all and NavigationResolver::class_all.
AllExpr(c) ==
  /\ Starts /\ Visit
  /\ \E all \in {ClassAll(model, c)} :
       /\ Carry(IF all.tag = "found" THEN all.value ELSE UnknownValue, NoSource,
                IF all.tag = "found" THEN TrueType(c, FALSE) ELSE Untyped)
       /\ site' = IF all.tag = "found" THEN NoSite ELSE all
  /\ UNCHANGED frames

\* What the language makes of a member of a true type.
MemberType(type, name) ==
  IF type = "row" /\ RowColumns(Columns, name) # {}
    THEN Columns[CHOOSE i \in RowColumns(Columns, name) : TRUE].type
  ELSE IF type = NoMembers THEN NoMembers
  ELSE IF ~IsClass(model, type) THEN Untyped.of
  ELSE LET found == ResolveMember(model, type, name) IN
       IF found.tag = "found" THEN InferTarget(model, found.member.target, "one").of ELSE Untyped.of

\* evaluate_property_navigation: from the variable's binding when a variable is
\* directly before it, otherwise from the value so far; only a found step
\* carries a value on.
PropertyNav(name, arguments) ==
  \E outcome \in {IF Top.source # NoSource /\ Binding(frames, Top.source) = {}
                    THEN Fault("under", "unbound")
                    ELSE ResolveStep(model, IF Top.source # NoSource
                                              THEN Lookup(frames, Top.source)
                                              ELSE Top.value, name, arguments)} :
    /\ Top.begun /\ Visit
    /\ Carry(IF outcome.tag = "found" THEN outcome.value ELSE UnknownValue, NoSource,
             [Top.true EXCEPT !.of = MemberType(@, name)])
    /\ site' = [tag |-> outcome.tag, name |-> name, arguments |-> arguments,
                expected |-> IF outcome.tag = "wrong arity" THEN outcome.expected ELSE 0,
                generated |-> outcome.tag = "wrong arity" /\ outcome.generated,
                on |-> (IF Top.source # NoSource THEN Lookup(frames, Top.source)
                                                 ELSE Top.value).kind,
                true |-> Top.true]
    /\ UNCHANGED frames

\* A literal, a bracket index, a qualified name...
OtherNode ==
  /\ Top.form # "lambdas" /\ Visit
  /\ Carry(UnknownValue, NoSource, Untyped)
  /\ NothingRecorded /\ UNCHANGED frames

-----------------------------------------------------------------------------
(* Nested nodes *)

Open(context) ==
  /\ Len(walk) < MaxNesting
  /\ walk' = Append(walk, context)
  /\ NothingRecorded

\* The context below takes the closed one's value.
Close(value, true) ==
  /\ walk' = [Front(walk) EXCEPT ![Len(walk) - 1].value = value,
                                 ![Len(walk) - 1].source = NoSource,
                                 ![Len(walk) - 1].begun = walk[Len(walk) - 1].form # "lambdas",
                                 ![Len(walk) - 1].true = true]
  /\ NothingRecorded /\ UNCHANGED <<visited, entered, model>>

\* Query, parenthesised, binary and unary expressions: the value of the last
\* child.  An operator's result has no members.
OpenGroup(operator) ==
  /\ Starts /\ Visit
  /\ Open(Context("group", operator, NoSource, UnknownValue, Untyped, Top.trueEnv))
  /\ UNCHANGED frames

CloseGroup ==
  /\ Len(walk) > 1 /\ Top.form = "group" /\ Top.begun
  /\ Close(Top.value, IF Top.call = "operator" THEN TrueType(NoMembers, FALSE) ELSE Top.true)
  /\ UNCHANGED frames

Repeated(parameters, i) ==
  \E j \in DOMAIN parameters \ {i} : parameters[j].name = parameters[i].name

\* Whether evaluate_lambda gives the parameter the value that flows into the
\* lambda: the first one, unless its type is a relation's.
TakesIncoming(parameters, i) ==
  i = 1 /\ ~Repeated(parameters, i) /\ parameters[i].typed \notin {"row", "unread"}

\* evaluate_lambda's binding of one parameter.
ParameterValue(parameters, i, incoming) ==
  IF TakesIncoming(parameters, i) THEN incoming
  ELSE IF ~Repeated(parameters, i) /\ parameters[i].typed = "row"
    THEN LocalValue("row", Columns, incoming.mult)
  ELSE UnknownValue

Bindings(parameters, values) ==
  [v \in {parameters[i].name : i \in DOMAIN parameters} |->
     values[CHOOSE i \in DOMAIN parameters : parameters[i].name = v]]

\* What the functions of the language pass to the parameters of their lambdas:
\* the elements of the receiver, but a sort compares the keys its first lambda
\* computes ("true" of the call, which its last lambda left there).
Passed(call, nth, i) ==
  CASE nth = 1 /\ i = 1 /\ call.call \in {"filter", "map", "exists", "sort"} ->
         call.trueIncoming.of
    [] nth = 1 /\ i = 2 /\ call.call = "sort" -> call.trueIncoming.of
    [] nth = 2 /\ call.call = "sort" -> call.true.of
    [] OTHER -> Untyped.of

\* The type of a parameter: the one declared, or the one passed.  Where they
\* contradict each other the program is wrong and has none.
LanguageType(parameters, i, call, nth) ==
  LET passed == Passed(call, nth, i)
      typed == parameters[i].typed IN
  CASE Repeated(parameters, i) \/ typed = "unread" -> Untyped.of
    [] typed = "no" -> passed
    [] typed = "row" \/ passed \in {Untyped.of, typed} -> typed
    [] OTHER -> Untyped.of

ParameterTruth(parameters, i, call, nth) ==
  LET type == LanguageType(parameters, i, call, nth) IN
  TrueType(type, TakesIncoming(parameters, i)
                /\ (call.trueIncoming.misread \/ type # call.trueIncoming.of))

\* A call up to its arguments: evaluate_arrow_call and evaluate_function_call
\* first visit the arguments that are not lambdas, in the scope of the call.
OpenCall(call) ==
  /\ IF call = "function" THEN Starts ELSE Top.begun
  /\ Visit
  /\ Open(Context("arguments", call, NoSource, Top.value, Top.true, Top.trueEnv))
  /\ UNCHANGED frames

\* evaluate_lambda up to its code block: a scope with the parameters.
EnterLambda(outer, call, nth, role, parameters) ==
  /\ Len(walk) < MaxNesting
  /\ entered < MaxLambdas /\ entered' = entered + 1
  /\ walk' = Append(outer, Context("lambda", role, NoSource, UnknownValue, Untyped,
                                   Bindings(parameters, [i \in DOMAIN parameters |->
                                              ParameterTruth(parameters, i, call, nth)])
                                     @@ Top.trueEnv))
  /\ frames' = Append(frames, Bindings(parameters, [i \in DOMAIN parameters |->
                                         ParameterValue(parameters, i, call.incoming)]))
  /\ NothingRecorded /\ UNCHANGED <<visited, model>>

\* evaluate_arrow_call's loop: every lambda argument of every function gets the
\* receiver.  evaluate_call_arguments skips those of a call without an arrow.
OpenArgument(parameters) ==
  /\ Top.form \in {"arguments", "lambdas"} /\ Top.call # "function"
  /\ EnterLambda([walk EXCEPT ![Len(walk)].form = "lambdas", ![Len(walk)].lambdas = @ + 1,
                              ![Len(walk)].value = UnknownValue, ![Len(walk)].source = NoSource,
                              ![Len(walk)].true = Untyped, ![Len(walk)].begun = FALSE],
                 Top, Top.lambdas + 1, "argument", parameters)

\* A lambda on its own: nothing flows into it.
OpenLambda(parameters) ==
  /\ Starts
  /\ EnterLambda(walk, Context("lambda", "lambda", NoSource, UnknownValue, Untyped, NoBindings),
                 1, "lambda", parameters)

\* A lambda ends with its scope.  Its body's value is the result of an argument,
\* and of a bare lambda, which the language makes a function.
CloseLambda ==
  /\ Top.form = "lambda"
  /\ Close(Top.value, IF Top.call = "argument" THEN Top.true ELSE TrueType(NoMembers, FALSE))
  /\ frames' = PopScope(frames)

\* evaluate_arrow_call's result: filter keeps its receiver, map takes the value
\* of its last lambda, any other function is unknown.
CallValue(call) ==
  CASE call.call = "filter" -> call.incoming
    [] call.call = "map" /\ call.lambdas > 0 -> call.value
    [] OTHER -> UnknownValue

\* A map with two lambdas is no function of the language.
CallTruth(call) ==
  CASE call.call = "filter" -> call.trueIncoming
    [] call.call = "map" /\ call.lambdas = 1 -> call.true
    [] OTHER -> TrueType(Untyped.of, call.lambdas > 1)

CloseCall ==
  /\ Top.form \in {"arguments", "lambdas"}
  /\ Close(CallValue(Top), CallTruth(Top))
  /\ UNCHANGED frames

\* The next statement of a code block starts from nothing, and so does the next
\* argument.
NextStatement ==
  /\ Top.form \in {"lambda", "arguments"} /\ Top.begun
  /\ visited < MaxNodes
  /\ walk' = [walk EXCEPT ![Len(walk)].value = UnknownValue, ![Len(walk)].source = NoSource,
                          ![Len(walk)].true = Untyped, ![Len(walk)].begun = FALSE]
  /\ NothingRecorded /\ UNCHANGED <<model, frames, visited, entered>>

\* evaluate_let: only a lambda's code block holds let statements.
OpenLet(v) ==
  /\ Top.form = "lambda" /\ ~Top.begun /\ Visit
  /\ Open(Context("let", "let", v, UnknownValue, Untyped, Top.trueEnv))
  /\ UNCHANGED frames

CloseLet ==
  /\ Top.form = "let" /\ Top.begun
  /\ frames' = Bind(frames, Top.name, Top.value)
  /\ walk' = [Front(walk) EXCEPT ![Len(walk) - 1].value = Top.value,
                                 ![Len(walk) - 1].source = NoSource,
                                 ![Len(walk) - 1].begun = TRUE,
                                 ![Len(walk) - 1].true = Top.true,
                                 ![Len(walk) - 1].trueEnv = (Top.name :> Top.true) @@ @]
  /\ NothingRecorded /\ UNCHANGED <<visited, entered, model>>

-----------------------------------------------------------------------------
(* The lints *)

\* NavigationLintPass.
ReportsUnknownProperty(s) == s.tag = "missing" /\ s.on = "class"

\* MilestoningArityLintPass, and when it offers to insert %latest.
ReportsArity(s) == s.tag = "wrong arity" /\ s.generated

OffersLatest(s) == ReportsArity(s) /\ s.expected = 1 /\ s.arguments = 0

-----------------------------------------------------------------------------
FlowInit(graphs) ==
  /\ model \in graphs
  /\ walk = << Context("group", "query", NoSource, UnknownValue, Untyped, NoBindings) >>
  /\ frames = << NoBindings >>
  /\ site = NoSite
  /\ visited = 0
  /\ entered = 0

FlowNext(names) ==
  \/ \E v \in Variables : VariableExpr(v)
  \/ \E c \in Classes : AllExpr(c)
  \/ \E n \in names, a \in 0..1 : PropertyNav(n, a)
  \/ OtherNode
  \/ \E operator \in {"operator", "parentheses"} : OpenGroup(operator)
  \/ CloseGroup
  \/ \E call \in Functions \cup {"function"} : OpenCall(call)
  \/ \E ps \in ParameterLists : OpenArgument(ps)
  \/ \E ps \in ParameterLists : OpenLambda(ps)
  \/ CloseLambda
  \/ CloseCall
  \/ NextStatement
  \/ \E v \in Variables : OpenLet(v)
  \/ CloseLet

-----------------------------------------------------------------------------
(* Properties *)

\* The type is a class and declares the property, itself or by inheritance.
Declares(type, name) == IsClass(model, type) /\ ResolveMember(model, type, name).tag = "found"

\* FindingsAreReal: every property the lint reports as undeclared is navigated
\* on a value that really has the class the analyser believes, and is missing
\* there; every %latest it offers to insert makes the call resolve.  The flow of
\* types through scopes, shadowing, let bindings and the calls whose result is
\* known or is not never attributes a class to a value that may have another:
\* whatever is wrong comes from a parameter that evaluate_lambda bound to the
\* receiver and the language does not (NothingDeclaredIsReported).
FindingsAreReal ==
  "on" \in DOMAIN site /\ ~site.true.misread =>
    /\ ReportsUnknownProperty(site) =>
         \/ site.true.of = NoMembers
         \/ IsClass(model, site.true.of)
              /\ ResolveMember(model, site.true.of, site.name).tag = "missing"
    /\ OffersLatest(site) =>
         \/ site.true.of = NoMembers
         \/ ResolveStep(model, LocalValue("class", site.true.of, "one"), site.name, 1).tag = "found"

\* NothingDeclaredIsReported: no property is reported as undeclared on a value
\* whose class declares it.  analyze_m3_locals documents that unsupported calls
\* "produce an unknown flow, so they cannot turn into a false closed-world
\* missing-member result".
NothingDeclaredIsReported ==
  "on" \in DOMAIN site /\ ReportsUnknownProperty(site) => ~Declares(site.true.of, site.name)

=============================================================================
