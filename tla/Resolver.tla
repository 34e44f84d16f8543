------------------------------ MODULE Resolver ------------------------------
(***************************************************************************)
(* Name and member resolution over a loaded model graph                    *)
(* (crates/pure-analyzer-resolve): classes, generalization levels, members *)
(* by inheritance level and priority, temporal arity, and navigation from  *)
(* a local value.  Nothing here changes state: every operator is a total   *)
(* function of the graph, and answers that the graph cannot support carry  *)
(* a tag other than "found" and "missing".                                 *)
(*                                                                         *)
(* A graph is [classes, associations].  A class is                         *)
(* [supers, temporal, props, quals, gap, source] with props and quals      *)
(* functions on the names it declares.  An outcome is a record whose "tag" *)
(* is the variant of Resolution; the rest is what a reader of it compares. *)
(***************************************************************************)
EXTENDS Naturals, Sequences, FiniteSets, TLC

CONSTANTS MaxGeneralizationDepth,   \* MAX_GENERALIZATION_DEPTH (256 in the code)
          PathOrder,                \* every path a model may name, in lexical order
          IntrinsicScalars          \* the type names is_intrinsic_scalar accepts

\* MemberPriority, best first.
Priorities == <<"generated", "user", "property", "end">>

Rank(p) == CHOOSE i \in DOMAIN Priorities : Priorities[i] = p

Fault(tag, why) == [tag |-> tag, why |-> why]

IsClass(g, path) == path \in DOMAIN g.classes

\* The first of a set of positions.
Least(S) == CHOOSE n \in S : \A k \in S : n <= k

\* The first path of a set in lexical order.
LowestOf(S) == PathOrder[CHOOSE i \in DOMAIN PathOrder :
                           /\ PathOrder[i] \in S
                           /\ \A j \in 1..(i - 1) : PathOrder[j] \notin S]

-----------------------------------------------------------------------------
(* Generalizations *)

RECURSIVE ValidateNode(_, _, _, _), ValidateParents(_, _, _, _, _)

\* Depth-first over the supertypes with the depth budget, the cycle test on
\* the stack and the visited set, in the order the code applies them.
ValidateNode(g, current, visited, stack) ==
  IF Len(stack) >= MaxGeneralizationDepth
    THEN [visited |-> visited, fault |-> Fault("under", "depth")]
  ELSE IF \E i \in DOMAIN stack : stack[i] = current
    THEN [visited |-> visited, fault |-> Fault("cycle", current)]
  ELSE IF current \in visited
    THEN [visited |-> visited, fault |-> Fault("none", "none")]
  ELSE ValidateParents(g, g.classes[current].supers, current,
                       visited \cup {current}, Append(stack, current))

\* The parents still to visit of the class on top of the stack; the first
\* fault ends the walk.
ValidateParents(g, parents, current, visited, stack) ==
  IF parents = {} THEN [visited |-> visited, fault |-> Fault("none", "none")]
  ELSE LET parent == LowestOf(parents) IN
    IF ~IsClass(g, parent)
      THEN [visited |-> visited, fault |-> Fault("under", "supertype")]
      ELSE LET below == ValidateNode(g, parent, visited, stack) IN
        IF below.fault.tag # "none" THEN below
        ELSE ValidateParents(g, parents \ {parent}, current, below.visited, stack)

ValidateHierarchy(g, origin) == ValidateNode(g, origin, {}, <<>>).fault

\* Breadth-first levels above a validated origin, each a set: level 0 is the
\* origin, and a class belongs to the first level that reaches it.
HierarchyLevels(g, origin) ==
  LET Reached[n \in 0..Cardinality(DOMAIN g.classes)] ==
        IF n = 0 THEN {origin}
        ELSE Reached[n - 1] \cup UNION {g.classes[c].supers : c \in Reached[n - 1]}
  IN  [n \in 0..Cardinality(DOMAIN g.classes) |->
         IF n = 0 THEN {origin} ELSE Reached[n] \ Reached[n - 1]]

-----------------------------------------------------------------------------
(* Temporal arity of a navigation target *)

Arity(temporal) == CASE temporal = "bitemporal" -> 2
                     [] temporal \in {"business", "processing"} -> 1

\* No arity: the code's None.
Undecided == 255

\* The nearest level with a temporal stereotype decides; a gapped level, or
\* two different stereotypes on one level, leaves the arity undecided.
LevelArity(g, level) ==
  LET temporals == {g.classes[c].temporal : c \in level} \ {"none"} IN
  IF \E c \in level : g.classes[c].gap THEN Undecided
  ELSE IF Cardinality(temporals) > 1 THEN Undecided
  ELSE Arity(CHOOSE t \in temporals : TRUE)

NearestArity(g, levels) ==
  LET deciding == {n \in DOMAIN levels :
                     \E c \in levels[n] : g.classes[c].gap \/ g.classes[c].temporal # "none"} IN
  IF deciding = {} THEN 0 ELSE LevelArity(g, levels[Least(deciding)])

EffectiveTemporalArity(g, target) ==
  IF ~IsClass(g, target) THEN [fault |-> Fault("none", "none"), arity |-> Undecided]
  ELSE LET fault == ValidateHierarchy(g, target) IN
    [fault |-> fault,
     arity |-> IF fault.tag # "none" THEN Undecided
               ELSE NearestArity(g, HierarchyLevels(g, target))]

\* The association's own stereotype comes first.
TargetTemporalArity(g, member) ==
  LET stereotypes == {a.temporal : a \in {b \in g.associations : b.path = member.association}}
                       \ {"none"} IN
  IF stereotypes # {}
    THEN [fault |-> Fault("none", "none"), arity |-> Arity(CHOOSE t \in stereotypes : TRUE)]
    ELSE EffectiveTemporalArity(g, member.target)

-----------------------------------------------------------------------------
(* Members *)

\* The member a class declares itself under a name: a qualified property hides
\* a property.
DirectMembers(g, owner, name) ==
  LET class == g.classes[owner] IN
  IF name \in DOMAIN class.quals
    THEN {[owner |-> owner, name |-> name, target |-> class.quals[name].target,
           mult |-> class.quals[name].mult, kind |-> class.quals[name].kind,
           arguments |-> class.quals[name].arguments, association |-> "none",
           priority |-> IF class.quals[name].kind = "user" THEN "user" ELSE "generated"]}
  ELSE IF name \in DOMAIN class.props
    THEN {[owner |-> owner, name |-> name, target |-> class.props[name].target,
           mult |-> class.props[name].mult,
           kind |-> IF class.props[name].association = "none" THEN "property" ELSE "end",
           arguments |-> 0, association |-> class.props[name].association,
           priority |-> IF class.props[name].association = "none" THEN "property" ELSE "end"]}
  ELSE {}

\* complete_member: the candidate with its target's temporal arity, or the
\* fault met while computing it.
WithArity(candidate, temporal) ==
  IF temporal.fault.tag # "none" THEN temporal.fault
  ELSE [tag |-> "found", member |-> candidate, arity |-> temporal.arity]

CompleteMember(g, candidate) == WithArity(candidate, TargetTemporalArity(g, candidate))

\* The candidates of one inherited level: the best priority wins alone, and
\* equally good ones are an ambiguity.
BestOf(candidates) ==
  {c \in candidates : \A d \in candidates : Rank(c.priority) <= Rank(d.priority)}

AmongCompleted(completed) ==
  IF \E f \in completed : f.tag # "found" THEN CHOOSE f \in completed : f.tag # "found"
  ELSE IF Cardinality(completed) = 1 THEN CHOOSE c \in completed : TRUE
  ELSE [tag |-> "ambiguous", owners |-> {c.member.owner : c \in completed}]

\* What the candidates decide: the one a class declares itself is completed
\* like the only candidate of a level.
LevelOutcome(g, candidates) == AmongCompleted({CompleteMember(g, c) : c \in BestOf(candidates)})

\* resolve_member: the class itself, then its generalizations level by level.
NearestMembers(g, levels, name) ==
  LET deciding == {n \in DOMAIN levels \ {0} :
                     \E c \in levels[n] : g.classes[c].gap \/ DirectMembers(g, c, name) # {}} IN
  IF deciding = {} THEN [open |-> FALSE, candidates |-> {}]
  ELSE LET level == levels[Least(deciding)] IN
       [open |-> \E c \in level : g.classes[c].gap,
        candidates |-> UNION {DirectMembers(g, c, name) : c \in level}]

\* What resolve_member looks at: a fault, or the candidates of the class
\* itself or else of the nearest level of its generalizations.
MembersInScope(g, origin, name) ==
  IF DirectMembers(g, origin, name) # {}
    THEN [fault |-> Fault("none", "none"), open |-> FALSE,
          candidates |-> DirectMembers(g, origin, name)]
  ELSE LET fault == ValidateHierarchy(g, origin) IN
       [fault |-> fault] @@ IF fault.tag # "none" THEN [open |-> FALSE, candidates |-> {}]
                            ELSE NearestMembers(g, HierarchyLevels(g, origin), name)

AmongMembers(g, scope) ==
  IF scope.fault.tag # "none" THEN scope.fault
  ELSE IF scope.open THEN Fault("under", "open world")
  ELSE IF scope.candidates = {} THEN Fault("missing", "member")
  ELSE LevelOutcome(g, scope.candidates)

ResolveMember(g, origin, name) ==
  IF ~IsClass(g, origin) THEN Fault("missing", "class")
  ELSE IF g.classes[origin].gap THEN Fault("under", "open world")
  ELSE AmongMembers(g, MembersInScope(g, origin, name))

-----------------------------------------------------------------------------
(* Navigation from a local value: [kind, of, mult] with kind "class",      *)
(* "scalar", "row" (of is then the sequence of its columns) or "unknown".  *)

LocalValue(kind, of, mult) == [kind |-> kind, of |-> of, mult |-> mult]

\* What a declared type denotes in this graph.
InferTarget(g, target, mult) ==
  LocalValue(IF IsClass(g, target) THEN "class"
             ELSE IF target \in IntrinsicScalars THEN "scalar" ELSE "unknown",
             target, mult)

\* expected_argument_count; a point navigation needs its target's arity.
ExpectedArguments(found) ==
  CASE found.member.kind \in {"property", "end", "all versions"} -> 0
    [] found.member.kind = "user" -> found.member.arguments
    [] found.member.kind = "all versions in range" -> 2
    [] found.member.kind = "point" -> found.arity

\* The outcomes of a step: a hop to a value, a wrong number of arguments, or a
\* fact that is not available.
Hop(target, value) == [tag |-> "found", target |-> target, value |-> value]

WrongArity(expected, generated) ==
  [tag |-> "wrong arity", expected |-> expected, generated |-> generated]

UnderResolved(why) == Fault("under", why)

\* resolve_member of the navigation resolver: the arity test, then the value.
MemberStep(g, found, arguments, expected) ==
  IF expected = Undecided THEN UnderResolved("arity")
  ELSE IF arguments # expected THEN WrongArity(expected, found.member.kind = "point")
  ELSE Hop(found.member, InferTarget(g, found.member.target, found.member.mult))

\* A found member is stepped through; every other outcome is the step's own.
AfterMember(g, found, arguments) ==
  IF found.tag = "found" THEN MemberStep(g, found, arguments, ExpectedArguments(found)) ELSE found

\* RelationRow::column: the first column of that name.
RowColumns(row, name) == {i \in DOMAIN row : row[i].name = name}

RowStep(g, row, name, arguments) ==
  IF arguments # 0 THEN WrongArity(0, FALSE)
  ELSE IF RowColumns(row, name) = {} THEN Fault("missing", "column")
  ELSE LET i == CHOOSE j \in RowColumns(row, name) : \A k \in RowColumns(row, name) : j <= k
       IN Hop(i, InferTarget(g, row[i].type, row[i].mult))

\* resolve_step: one hop of a navigation chain.
ResolveStep(g, value, name, arguments) ==
  CASE value.kind = "class" ->
         AfterMember(g, ResolveMember(g, value.of, name), arguments)
    [] value.kind = "row" -> RowStep(g, value.of, name, arguments)
    [] OTHER -> UnderResolved(value.kind)

\* class_all: what C.all() holds.
ClassAll(g, class) == IF IsClass(g, class) THEN Hop(class, LocalValue("class", class, "many"))
                      ELSE Fault("missing", "class")

=============================================================================
