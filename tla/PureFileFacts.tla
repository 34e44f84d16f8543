--------------------------- MODULE PureFileFacts ----------------------------
(***************************************************************************)
(* What the Pure loader (crates/pure-analyzer-model: pure.rs) takes as fact *)
(* from a parsed model source: the tree, the diagnostics and the coverage  *)
(* gaps of DomainParser.  Names are token kinds; a number's value and the  *)
(* temporal stereotypes are left out (ModelLoader has them), and every     *)
(* qualified property is read as one a user wrote.                         *)
(***************************************************************************)
EXTENDS DomainParser

-----------------------------------------------------------------------------
(* Spans *)

DiagnosticSpan(p, d) == IF d > Len(p.t) THEN [from |-> Len(p.t), to |-> Len(p.t)]
                        ELSE [from |-> d - 1, to |-> d]

\* ranges_touch_or_overlap.
Touches(left, right) == left.from <= right.to /\ right.from <= left.to

HasDiagnostic(node, p) == \E d \in p.diags : Touches(DiagnosticSpan(p, d), node)

\* node_has_coverage_gap.
HasCoverageGap(node, p) ==
  (\E g \in DOMAIN p.gaps : Touches(p.gaps[g], node)) \/ HasDiagnostic(node, p)

MalformedAt(node, p) ==
  \E g \in DOMAIN p.gaps : p.gaps[g].kind = "malformed" /\ p.gaps[g].from = node.from

-----------------------------------------------------------------------------
(* Reading the compacted text of a node *)

RECURSIVE Compact(_), TypeEnd(_, _), ArgumentsEnd(_, _)

\* compact_text: tokens side by side, trivia left out.
Compact(node) ==
  IF node.leaf THEN IF node.kind \in Trivia THEN <<>> ELSE <<node.kind>>
  ELSE FoldLeft(LAMBDA s, child : s \o Compact(child), <<>>, node.children)

\* qname_from_text: tokens with nothing between them read as one name.
IsQName(tokens) ==
  \E s \in {WithoutLeadingSeparator(tokens)} :
    /\ s # <<>> /\ s[1] \in NameKinds
    /\ \A k \in DOMAIN s : /\ s[k] \in NameKinds \cup {"int", "::"}
                           /\ s[k] = "::" => k < Len(s) /\ s[k + 1] \in NameKinds

\* TypeTextParser: where the type from i on ends, 0 if there is none.
PathEnd(s, i) ==
  CHOOSE j \in i..(Len(s) + 1) :
    /\ KindAt(s, j) \in {"<", ">", ",", "eof"}
    /\ \A k \in i..(j - 1) : s[k] \notin {"<", ">", ","}

ArgumentsEnd(s, j) ==
  IF j = 0 THEN 0
  ELSE CASE KindAt(s, j) = "," -> ArgumentsEnd(s, TypeEnd(s, j + 1))
         [] KindAt(s, j) = ">" -> j + 1
         [] OTHER -> 0

TypeEnd(s, i) ==
  IF ~IsQName(SubSeq(s, i, PathEnd(s, i) - 1)) THEN 0
  ELSE IF KindAt(s, PathEnd(s, i)) = "<" THEN ArgumentsEnd(s, TypeEnd(s, PathEnd(s, i) + 1))
  ELSE PathEnd(s, i)

\* type_from_node.
ReadsType(node) == \E s \in {Compact(node)} : TypeEnd(s, 1) = Len(s) + 1

\* parse_bound: digits, and at least one.
IsBound(s) == s # <<>> /\ ToSet(s) = {"int"}

\* multiplicity_from_node.
ReadsMultiplicity(node) ==
  \E s \in {Compact(node)} :
    /\ Len(s) > 2 /\ s[1] = "[" /\ s[Len(s)] = "]"
    /\ \E body \in {SubSeq(s, 2, Len(s) - 1)} :
         \/ body = <<"*">>
         \/ IsBound(body)
         \/ \E k \in 1..(Len(body) - 1) :
              /\ body[k] = "." /\ body[k + 1] = "."
              /\ IsBound(SubSeq(body, 1, k - 1))
              /\ \/ SubSeq(body, k + 2, Len(body)) = <<"*">>
                 \/ IsBound(SubSeq(body, k + 2, Len(body)))

-----------------------------------------------------------------------------
(* Lowering *)

\* direct_nodes and direct_name.
DirectNodes(node, kind) == SelectSeq(node.children, LAMBDA child : child.kind = kind)

DirectNames(node) == SelectSeq(node.children, LAMBDA child : child.kind \in NameKinds)

FirstReads(nodes, Reads(_)) == nodes # <<>> /\ Reads(nodes[1])

\* lower_property.
LowersProperty(node) ==
  /\ DirectNames(node) # <<>>
  /\ FirstReads(DirectNodes(node, "DOMAIN_TYPE_REF"), ReadsType)
  /\ FirstReads(DirectNodes(node, "DOMAIN_MULTIPLICITY"), ReadsMultiplicity)

\* lower_signature.
LowersSignature(node, p) ==
  \A parameter \in ToSet(DirectNodes(node, "DOMAIN_PARAMETER_DECL")) :
    /\ ~MalformedAt(parameter, p)
    /\ ~HasDiagnostic(parameter, p)
    /\ FirstReads(DirectNodes(parameter, "DOMAIN_TYPE_REF"), ReadsType)

IsMember(node) == node.kind \in {"DOMAIN_PROPERTY_DECL", "DOMAIN_QUALIFIED_PROPERTY_DECL"}

LowersMember(node, p) ==
  LowersProperty(node) /\ (node.kind = "DOMAIN_QUALIFIED_PROPERTY_DECL" => LowersSignature(node, p))

\* A member is taken wherever its text can be read.
TakesReadable(node, p) == LowersMember(node, p)

\* insert_property and insert_qualified_property, once the name is known to be new.
Takes(node, p) == ~MalformedAt(node, p) /\ ~HasDiagnostic(node, p) /\ LowersMember(node, p)

\* The member facts so far: the names declared, the members taken, and whether
\* anything was left out.
InsertMember(facts, node, p) ==
  LET key == <<node.kind, DirectNames(node)[1].kind>> IN
  IF DirectNames(node) = <<>> THEN [facts EXCEPT !.gap = TRUE]
  ELSE IF key \in facts.declared
    THEN [facts EXCEPT !.taken = {n \in @ : <<n.kind, DirectNames(n)[1].kind>> # key}, !.gap = TRUE]
  ELSE IF Takes(node, p)
    THEN [facts EXCEPT !.declared = @ \cup {key}, !.taken = @ \cup {node}]
  ELSE [facts EXCEPT !.declared = @ \cup {key}, !.gap = TRUE]

\* lower_class_members.
ReadMember(facts, node, p) ==
  CASE IsMember(node) -> InsertMember(facts, node, p)
    [] node.kind \in {"DOMAIN_OPAQUE_NODE", "ERROR_NODE"} -> [facts EXCEPT !.gap = TRUE]
    [] OTHER -> facts

\* declaration_path: the index of the first name that can be read; 0 if none.
NameIndexes(node) ==
  {k \in DOMAIN node.children :
     node.children[k].kind = "DOMAIN_QUALIFIED_NAME" /\ IsQName(Compact(node.children[k]))}

HasPath(node) == NameIndexes(node) # {}

ClassMembers(node, p) ==
  FoldLeft(LAMBDA facts, child : ReadMember(facts, child, p),
           [declared |-> {}, taken |-> {}, gap |-> FALSE],
           SubSeq(node.children, FirstOf(NameIndexes(node)) + 1, Len(node.children)))

\* lower_supertypes.
ReadsSupertypes(extends, p) ==
  \E names \in {DirectNodes(extends, "DOMAIN_QUALIFIED_NAME")} :
    /\ ~HasCoverageGap(extends, p)
    /\ names # <<>>
    /\ \A k \in DOMAIN names : IsQName(Compact(names[k]))

SupertypesKnown(node, p) ==
  DirectNodes(node, "DOMAIN_EXTENDS_CLAUSE") # <<>> =>
    ReadsSupertypes(DirectNodes(node, "DOMAIN_EXTENDS_CLAUSE")[1], p)

\* lower_class: a class with no coverage gap of its own.
ClosedClass(node, p) ==
  HasPath(node) /\ ~HasCoverageGap(node, p) /\ SupertypesKnown(node, p) /\ ~ClassMembers(node, p).gap

\* lower_association.
LowersAssociation(node, p) ==
  /\ ~HasCoverageGap(node, p)
  /\ HasPath(node)
  /\ \E ends \in {DirectNodes(node, "DOMAIN_PROPERTY_DECL")} :
       Len(ends) = 2 /\ \A k \in 1..2 : LowersProperty(ends[k])

\* lower: a gap for every class of the source.
FileWideGap(file, p) ==
  \/ \E g \in DOMAIN p.gaps : p.gaps[g].kind = "top level"
  \/ \E k \in DOMAIN file.children :
       \/ file.children[k].kind = "DOMAIN_CLASS_DECL" /\ ~HasPath(file.children[k])
       \/ file.children[k].kind = "DOMAIN_ASSOCIATION_DECL" /\ ~LowersAssociation(file.children[k], p)

-----------------------------------------------------------------------------
(* A model source is written *)

DomainInit == page \in DomainDrafts /\ text = page.opening

DomainSource == text \o page.closing

WriteDomainToken ==
  /\ Len(text) < Len(page.opening) + page.room
  /\ \E kind \in page.kinds : text' = Append(text, kind)
  /\ UNCHANGED page

-----------------------------------------------------------------------------
(* Properties *)

\* The children of a node as the grammar writes them.
Shape(node) ==
  Significant([k \in DOMAIN node.children |->
                 IF node.children[k].kind \in NameKinds THEN "name" ELSE node.children[k].kind])

\* Members at the odd places, separators at the even ones.
Separated(s, members, separators) ==
  Len(s) % 2 = 1 /\ \A k \in DOMAIN s : s[k] \in IF k % 2 = 1 THEN members ELSE separators

WholeName(node) == Separated(WithoutLeadingSeparator(Shape(node)), {"name"}, {"::"})

WholeTypeShape(s) ==
  \/ s = <<"DOMAIN_QUALIFIED_NAME">>
  \/ /\ Len(s) > 3 /\ s[1] = "DOMAIN_QUALIFIED_NAME" /\ s[2] = "<" /\ s[Len(s)] = ">"
     /\ Separated(SubSeq(s, 3, Len(s) - 1), {"DOMAIN_TYPE_REF"}, {","})

TypedShape == <<"name", ":", "DOMAIN_TYPE_REF", "DOMAIN_MULTIPLICITY">>

ParameterShape(s) ==
  s = <<>> \/ Separated(s, {"DOMAIN_PARAMETER_DECL"}, {","})

AfterParametersShape == <<")">> \o Tail(TypedShape) \o <<"DOMAIN_OPAQUE_BODY">>

\* The grammar of a declaration's node, one level deep.
WholeShape(node, s) ==
  CASE node.kind = "DOMAIN_QUALIFIED_NAME" -> WholeName(node)
    [] node.kind = "DOMAIN_TYPE_REF" -> WholeTypeShape(s)
    [] node.kind = "DOMAIN_MULTIPLICITY" ->
         Len(s) \in {3, 6} /\ s[1] = "[" /\ s[Len(s)] = "]"
           /\ (Len(s) = 6 => s[3] = "." /\ s[4] = ".")
    [] node.kind = "DOMAIN_PROPERTY_DECL" ->
         s \in {TypedShape \o <<";">>, TypedShape \o <<"=", "DOMAIN_OPAQUE_BODY", ";">>}
    [] node.kind = "DOMAIN_PARAMETER_DECL" -> s = TypedShape
    [] node.kind = "DOMAIN_QUALIFIED_PROPERTY_DECL" ->
         \E n \in 2..Len(s) :
           /\ SubSeq(s, 1, 2) = <<"name", "(">>
           /\ ParameterShape(SubSeq(s, 3, n))
           /\ SubSeq(s, n + 1, Len(s)) \in {AfterParametersShape, AfterParametersShape \o <<";">>}
    [] node.kind = "DOMAIN_EXTENDS_CLAUSE" ->
         s # <<>> /\ s[1] = "name" /\ Separated(Tail(s), {"DOMAIN_QUALIFIED_NAME"}, {","})
    [] node.kind \in {"DOMAIN_CLASS_DECL", "DOMAIN_ASSOCIATION_DECL"} ->
         \E n \in 3..4 :
           /\ Len(s) > n
           /\ SubSeq(s, 1, n) \in {<<"name", "DOMAIN_QUALIFIED_NAME", "{">>,
                                   <<"name", "DOMAIN_QUALIFIED_NAME", "DOMAIN_EXTENDS_CLAUSE", "{">>}
           /\ s[Len(s)] = "}"
           /\ \A k \in (n + 1)..(Len(s) - 1) :
                s[k] \in {"DOMAIN_PROPERTY_DECL", "DOMAIN_QUALIFIED_PROPERTY_DECL", ";"}
    [] node.kind \in {"DOMAIN_OPAQUE_NODE", "ERROR_NODE"} -> FALSE
    [] OTHER -> TRUE

\* Nothing in a declaration is missing, doubled or skipped.
Whole(node) ==
  \A n \in Nodes(node) :
    WholeShape(n, SelectSeq(Shape(n), LAMBDA kind : kind # "DOMAIN_STEREOTYPE_APPLICATIONS"))

\* DomainAlwaysBuilds: whatever the tokens, parse_domain's events make one tree
\* over the whole source, the nesting budget is handed back on every path, and
\* no gap ends before it starts (TextRange::new would panic).
DomainAlwaysBuilds ==
  \A p \in {ParseDomain(DomainSource)} :
    /\ Build(DomainSource, p.events).error = "none"
    /\ p.depth = 0
    /\ \A g \in DOMAIN p.gaps : p.gaps[g].from <= p.gaps[g].to

\* ParsersAlwaysBuild: no source makes parse_query or parse_domain fail on its own
\* events, lose a token or keep a part of its budget.
ParsersAlwaysBuild == ParseAlwaysBuilds /\ DomainAlwaysBuilds

\* FactsAreWhole: every member and association the loader takes from a source,
\* however damaged the rest of it, is declared in full by the text it was read
\* from, and a class it takes as closed has every member its body declares:
\* the parser's recoveries, which put tokens of one construct into another, never
\* make up a fact or lose one in silence.
FactsAreWhole ==
  \A p \in {ParseDomain(DomainSource)} :
    \A file \in {Build(DomainSource, p.events).roots[1].children[1]} :
      \A node \in ToSet(file.children) :
        /\ node.kind = "DOMAIN_ASSOCIATION_DECL" /\ LowersAssociation(node, p) => Whole(node)
        /\ node.kind = "DOMAIN_CLASS_DECL" /\ HasPath(node) =>
             \A facts \in {ClassMembers(node, p)} :
               /\ \A member \in facts.taken : Whole(member)
               /\ ClosedClass(node, p) /\ ~FileWideGap(file, p) =>
                    /\ Whole(node)
                    /\ facts.taken = {child \in ToSet(node.children) : IsMember(child)}

=============================================================================
