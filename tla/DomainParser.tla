---------------------------- MODULE DomainParser ----------------------------
(***************************************************************************)
(* The model parser (crates/pure-analyzer-parser: domain.rs) and what the  *)
(* Pure loader reads out of its tree (crates/pure-analyzer-model:          *)
(* pure.rs).  The parser is the record of M3Parser, whose primitives the   *)
(* two parsers have in common; "gaps" is its list of coverage gaps.  A     *)
(* position is the number of tokens before it: token k spans k-1 to k.     *)
(* The exits for an index that did not move are left out: no loop of this  *)
(* parser can come round without having consumed a token.                  *)
(***************************************************************************)
EXTENDS M3Parser

CONSTANTS MaxParseDepth,     \* MAX_PARSE_DEPTH (256 in the code)
          DomainDrafts       \* as Drafts

VARIABLES page, text         \* the draft of a model source and what is written of it

domainVars == <<page, text>>

-----------------------------------------------------------------------------

\* The next step, whose answer joins the ones before it.
Then(p, Step(_)) == Both(p.ok, Step(p))

\* A step whose answer is not looked at.
Ignoring(p, Step(_)) == Answer(Step(p), p.ok)

\* mark_gap_from: a gap of the same kind as the last one, and touching it,
\* extends it.
MarkGap(p, start, kind) ==
  LET end == IF start <= Len(p.t) THEN p.i - 1 ELSE Len(p.t)
      from == IF start <= Len(p.t) THEN start - 1 ELSE Len(p.t)
      n == Len(p.gaps) IN
  IF n > 0 /\ p.gaps[n].kind = kind /\ p.gaps[n].to >= from /\ end >= p.gaps[n].from
    THEN [p EXCEPT !.gaps[n].from = IF from < @ THEN from ELSE @,
                   !.gaps[n].to = IF end > @ THEN end ELSE @]
    ELSE [p EXCEPT !.gaps = Append(@, [from |-> from, to |-> end, kind |-> kind])]

MarkIfMalformed(p, start) == IF p.ok THEN p ELSE MarkGap(p, start, "malformed")

\* declaration_kind.
DeclarationStarts(p) == SignificantKind(p) \in {"Class", "Association", "Profile"}

\* at_section_header: three contiguous hashes.
SectionHeaderStarts(p) == \A k \in 0..2 : KindAt(p.t, SignificantIndex(p) + k) = "#"

\* at_ignored_top_level.
IgnoredStarts(p) == At(p, "import") \/ SectionHeaderStarts(p)

\* member_starts_property and member_starts_qualified_property.
PropertyStarts(p) == SignificantKind(p) \in NameKinds /\ FollowingKind(p) = ":"

QualifiedPropertyStarts(p) == SignificantKind(p) \in NameKinds /\ FollowingKind(p) = "("

DoubleAngleOpens(p) == At(p, "<") /\ FollowingKind(p) = "<"

DoubleAngleCloses(p) == At(p, ">") /\ FollowingKind(p) = ">"

\* The three depths of adjust_delimiter_depths, by closing delimiter.
Level == [closer \in {")", "]", "}"} |-> 0]

Adjusted(depths, kind) ==
  IF kind \in {"(", "[", "{"} THEN [depths EXCEPT ![Openers[kind]] = @ + 1]
  ELSE IF kind \in DOMAIN depths /\ depths[kind] > 0 THEN [depths EXCEPT ![kind] = @ - 1]
  ELSE depths

-----------------------------------------------------------------------------
(* Recovery *)

RECURSIVE SkipHeader(_), SkipMember(_)

SkipHeader(p) ==
  IF AtEof(p) \/ RawKind(p) \in {";", "}"} \/ DeclarationStarts(p) THEN p ELSE SkipHeader(Bump(p))

\* recover_declaration_header, and its form that leaves the node open.
RecoverHeaderOpen(p) == Answer(TakeIf(SkipHeader(Opening(p, "ERROR_NODE")), {";"}), FALSE)

RecoverHeader(p) == Answer(Closing(TakeIf(SkipHeader(Opening(p, "ERROR_NODE")), {";"})), FALSE)

\* at_member_recovery_boundary.
MemberBoundary(p) ==
  \/ SignificantKind(p) \in {";", "}"}
  \/ DeclarationStarts(p)
  \/ PropertyStarts(p)
  \/ QualifiedPropertyStarts(p)

SkipMember(p) == IF AtEof(p) \/ MemberBoundary(p) THEN p ELSE SkipMember(Bump(p))

SemicolonIfNext(p) == IF At(p, ";") THEN ConsumeIf(p, ";") ELSE p

\* recover_member_tail: a plausible member start is left for the body's loop.
MemberTail(p) ==
  IF MemberBoundary(p) THEN p
  ELSE Closing(SemicolonIfNext(SkipMember(Opening(p, "ERROR_NODE"))))

-----------------------------------------------------------------------------
(* Names, types and multiplicities *)

RECURSIVE DomainNameTail(_), DomainType(_), DomainTypeArguments(_)

\* parse_domain_qualified_name: a missing name ends it.
NextDomainName(p) == IF p.ok THEN DomainNameTail(p) ELSE p

AfterDomainSeparator(p, valid) ==
  IF p.ok THEN NextDomainName(Both(valid, ConsumeName(p))) ELSE Answer(p, valid)

DomainNameTail(p) == AfterDomainSeparator(ConsumeIf(p, "::"), p.ok)

DomainName(p) ==
  Closing(DomainNameTail(ConsumeName(ConsumeIf(Opening(p, "DOMAIN_QUALIFIED_NAME"), "::"))))

\* parse_domain_type_reference: skipped tokens between two arguments are
\* reported and leave the answer alone.
AfterDomainArgument(p) ==
  CASE RawKind(p) = "," -> DomainTypeArguments(Ignoring(p, LAMBDA q : ConsumeTrivia(Bump(q))))
    [] RawKind(p) # "," /\ At(p, ">") -> p
    [] OTHER -> DomainTypeArguments(
                  Ignoring(Error(p), LAMBDA q : TakeIf(SkipTo(q, {",", ">"}), {","})))

DomainTypeArguments(p) ==
  IF AtEof(p) \/ At(p, ">") THEN p
  ELSE AfterDomainArgument(Ignoring(Then(p, DomainType), ConsumeTrivia))

FirstArgument(p, valid) ==
  DomainTypeArguments(IF At(p, ">") THEN Answer(Error(p), FALSE) ELSE Answer(p, valid))

DomainGeneric(p, valid) ==
  IF p.ok THEN Then(FirstArgument(ConsumeTrivia(p), valid), LAMBDA q : Expect(q, ">"))
  ELSE Answer(p, valid)

DomainGenericTail(p) == DomainGeneric(ConsumeIf(p, "<"), p.ok)

DomainType(p) ==
  IF p.depth >= MaxParseDepth THEN Answer(Error(p), FALSE)
  ELSE Leave(Closing(DomainGenericTail(DomainName(Opening(Enter(p), "DOMAIN_TYPE_REF")))))

\* parse_domain_multiplicity.
UpperBound(p) == IF p.ok THEN Bound(p) ELSE p

DomainRange(p) == IF p.ok THEN UpperBound(Expect(p, ".")) ELSE Answer(p, TRUE)

MultiplicityAt(p) ==
  IF ~At(p, "[") THEN Answer(Error(p), FALSE)
  ELSE Closing(Then(Then(Then(Expect(Opening(p, "DOMAIN_MULTIPLICITY"), "["), Bound),
                         LAMBDA q : DomainRange(ConsumeIf(q, "."))),
                    LAMBDA q : Expect(q, "]")))

DomainMultiplicity(p) == MultiplicityAt(ConsumeTrivia(p))

\* `name: Type[multiplicity]`, of a property or a parameter.
Typed(p) == Then(Then(Then(p, LAMBDA q : Expect(q, ":")), DomainType), DomainMultiplicity)

-----------------------------------------------------------------------------
(* Stereotypes and tagged values *)

RECURSIVE BraceLoop(_, _), AngleLoop(_), Applications(_)

Significant(tokens) == SelectSeq(tokens, LAMBDA kind : kind \notin Trivia)

WithoutLeadingSeparator(s) == IF s # <<>> /\ s[1] = "::" THEN Tail(s) ELSE s

\* annotation_path_is_valid: names joined by `::` or `.`.
IsAnnotationPath(tokens) ==
  \E s \in {WithoutLeadingSeparator(Significant(tokens))} :
    /\ Len(s) % 2 = 1
    /\ \A k \in DOMAIN s : IF k % 2 = 1 THEN s[k] \in NameKinds ELSE s[k] \in {"::", "."}

\* Braces still open after token k of those opened from "open" on.
OpenBraces(t, open, k) ==
  Cardinality({j \in open..k : t[j] = "{"}) - Cardinality({j \in open..k : t[j] = "}"})

FirstOf(S) == CHOOSE k \in S : \A j \in S : k <= j

\* braced_annotation_is_valid: `{path = value}`.
BracedIsValid(t, open) ==
  \E close \in {k \in (open + 1)..Len(t) :
                  OpenBraces(t, open, k) = 0 /\ \A j \in open..(k - 1) : OpenBraces(t, open, j) > 0} :
    LET assignments == {k \in open..close : t[k] = "=" /\ OpenBraces(t, open, k) = 1} IN
    /\ assignments # {}
    /\ IsAnnotationPath(SubSeq(t, open + 1, FirstOf(assignments) - 1))
    /\ SignificantFrom(t, FirstOf(assignments) + 1) < close

\* double_angle_stereotype_is_valid: `<<path>>`, up to the first `>>`.
AngleIsValid(t, open) ==
  LET second == SignificantFrom(t, open + 1)
      closes == {k \in (second + 1)..Len(t) :
                   t[k] = ">" /\ KindAt(t, SignificantFrom(t, k + 1)) = ">"} IN
  closes # {} /\ IsAnnotationPath(SubSeq(t, second + 1, FirstOf(closes) - 1))

\* consume_balanced_braces.
BraceLoop(p, depth) ==
  CASE AtEof(p) -> Answer(Error(p), FALSE)
    [] RawKind(p) = "{" -> BraceLoop(Bump(p), depth + 1)
    [] RawKind(p) = "}" -> IF depth = 1 THEN Bump(p) ELSE BraceLoop(Bump(p), depth - 1)
    [] OTHER -> BraceLoop(Bump(p), depth)

BracesIfOpen(p) == IF p.ok THEN BraceLoop(p, 1) ELSE p

BalancedBraces(p) == BracesIfOpen(Expect(p, "{"))

\* consume_double_angle.
AngleLoop(p) ==
  IF AtEof(p) THEN Answer(Error(p), FALSE)
  ELSE IF DoubleAngleCloses(p) THEN Expect(Expect(p, ">"), ">")
  ELSE AngleLoop(Bump(p))

DoubleAngle(p) == AngleLoop(Expect(Expect(p, "<"), "<"))

\* parse_stereotype_applications.
AfterApplication(p, valid, start) ==
  Applications(ConsumeTrivia(
    IF valid /\ p.ok THEN p ELSE MarkGap(IF p.ok THEN Error(p) ELSE p, start, "malformed")))

ApplicationNode(valid) == IF valid THEN "DOMAIN_STEREOTYPE_APPLICATIONS" ELSE "ERROR_NODE"

Application(p, braced, valid) ==
  AfterApplication(Closing(IF braced THEN BalancedBraces(Opening(p, ApplicationNode(valid)))
                           ELSE DoubleAngle(Opening(p, ApplicationNode(valid)))), valid, p.i)

Applications(p) ==
  CASE At(p, "{") -> Application(p, TRUE, BracedIsValid(p.t, SignificantIndex(p)))
    [] DoubleAngleOpens(p) -> Application(p, FALSE, AngleIsValid(p.t, SignificantIndex(p)))
    [] OTHER -> p

StereotypeApplications(p) == Applications(ConsumeTrivia(p))

-----------------------------------------------------------------------------
(* Members *)

RECURSIVE ExpressionLoop(_, _), OpaqueLoop(_, _, _, _), DomainParameters(_, _)

\* parse_opaque_expression: up to the `;` or `}` outside its delimiters.
ExpressionLoop(p, depths) ==
  IF AtEof(p) \/ (depths = Level /\ RawKind(p) \in {";", "}"}) THEN p
  ELSE ExpressionLoop(Bump(p), Adjusted(depths, RawKind(p)))

ValueIfAssigned(p) ==
  IF p.ok THEN Closing(ExpressionLoop(Opening(p, "DOMAIN_OPAQUE_BODY"), Level)) ELSE p

DefaultValue(p) == ValueIfAssigned(ConsumeIf(p, "="))

\* consume_member_terminator.
TerminatorAt(p) ==
  IF p.ok THEN p
  ELSE Answer(IF AtEof(p) THEN Error(p) ELSE MemberTail(Error(p)), FALSE)

MemberTerminator(p) == TerminatorAt(ConsumeIf(p, ";"))

\* parse_property.
Property(p) ==
  Closing(MarkIfMalformed(
    Then(Ignoring(Typed(ConsumeName(Opening(p, "DOMAIN_PROPERTY_DECL"))), DefaultValue),
         MemberTerminator), p.i))

\* parse_parameter_list.
DomainParameter(p) == Closing(Typed(ConsumeName(Opening(p, "DOMAIN_PARAMETER_DECL"))))

AfterParameterComma(p, valid) ==
  IF At(p, ")") THEN Answer(Error(p), FALSE) ELSE DomainParameters(p, valid)

AfterParameterSkip(p, before) ==
  IF p.i # before /\ RawKind(p) = "," THEN DomainParameters(Bump(p), FALSE) ELSE Answer(p, FALSE)

AfterDomainParameter(p, valid, before) ==
  IF RawKind(p) = "," THEN AfterParameterComma(ConsumeTrivia(Bump(p)), valid /\ p.ok)
  ELSE IF At(p, ")") \/ AtEof(p) THEN Answer(p, valid /\ p.ok)
  ELSE AfterParameterSkip(SkipTo(Error(p), {",", ")", "}"}), before)

DomainParameters(p, valid) ==
  AfterDomainParameter(Ignoring(DomainParameter(p), ConsumeTrivia), valid, p.i)

ParameterListAt(p) == IF At(p, ")") THEN Answer(p, TRUE) ELSE DomainParameters(p, TRUE)

ParametersIfOpen(p) ==
  IF p.ok THEN Then(ParameterListAt(ConsumeTrivia(p)), LAMBDA q : Expect(q, ")")) ELSE p

QualifiedBody(p) ==
  IF At(p, "{") THEN Answer(Closing(BalancedBraces(Opening(p, "DOMAIN_OPAQUE_BODY"))), TRUE)
  ELSE Answer(MemberTail(Error(p)), FALSE)

\* parse_qualified_property: a body that is not closed is reported only.
QualifiedProperty(p) ==
  Closing(MarkIfMalformed(Ignoring(Then(Typed(
    ParametersIfOpen(Then(ConsumeName(Opening(p, "DOMAIN_QUALIFIED_PROPERTY_DECL")),
                          LAMBDA q : Expect(q, "(")))), QualifiedBody),
    LAMBDA q : ConsumeIf(q, ";")), p.i))

\* at_opaque_member_recovery_boundary.
OpaqueBoundary(p, sawColon) ==
  \/ RawKind(p) = "}"
  \/ PropertyStarts(p)
  \/ sawColon /\ QualifiedPropertyStarts(p)
  \/ DeclarationStarts(p)

\* parse_opaque_member; the first token is taken whatever it is.
OpaqueLoop(p, depths, consumed, sawColon) ==
  IF AtEof(p) \/ (consumed /\ depths = Level /\ OpaqueBoundary(p, sawColon)) THEN p
  ELSE IF depths = Level /\ RawKind(p) = ";" THEN Bump(p)
  ELSE OpaqueLoop(Bump(p), Adjusted(depths, RawKind(p)), TRUE,
                  sawColon \/ (depths = Level /\ RawKind(p) = ":"))

OpaqueMember(p) ==
  MarkGap(Closing(OpaqueLoop(Opening(p, "DOMAIN_OPAQUE_NODE"), Level, FALSE, FALSE)), p.i, "member")

\* parse_member.
MemberAt(p, keyword) ==
  CASE AtEof(p) -> p
    [] PropertyStarts(p) -> Property(p)
    [] keyword = "Class" /\ QualifiedPropertyStarts(p) -> QualifiedProperty(p)
    [] OTHER -> OpaqueMember(p)

ParseMember(p, keyword) == MemberAt(StereotypeApplications(p), keyword)

-----------------------------------------------------------------------------
(* Declarations *)

RECURSIVE BodyLoop(_, _), ExtendsLoop(_), ProfileLoop(_, _), StereotypeLoop(_, _), TagLoop(_, _)

\* parse_declaration_body.
BodyAt(p, keyword) ==
  CASE AtEof(p) -> Answer(Error(p), FALSE)
    [] RawKind(p) = "}" -> Bump(p)
    [] DeclarationStarts(p) -> Answer(Error(p), FALSE)
    [] RawKind(p) = ";" -> BodyLoop(Bump(p), keyword)
    [] OTHER -> BodyLoop(ParseMember(p, keyword), keyword)

BodyLoop(p, keyword) == BodyAt(ConsumeTrivia(p), keyword)

\* parse_extends_clause.
AfterSupertype(p, valid) ==
  IF RawKind(p) = "," THEN ExtendsLoop(Both(valid, DomainName(Bump(p)))) ELSE Answer(p, valid)

ExtendsLoop(p) == AfterSupertype(ConsumeTrivia(p), p.ok)

ReportExtends(p) == Closing(IF p.ok THEN p ELSE Error(p))

ExtendsIfNext(p) ==
  IF At(p, "extends")
    THEN ReportExtends(ExtendsLoop(DomainName(Expect(Opening(p, "DOMAIN_EXTENDS_CLAUSE"), "extends"))))
    ELSE Answer(p, TRUE)

\* parse_stereotype_list.
NameOrSkip(p) == IF p.ok THEN p ELSE Answer(SkipTo(p, {",", "]"}), FALSE)

AfterStereotype(p, valid) ==
  CASE RawKind(p) = "," -> StereotypeLoop(ConsumeTrivia(Bump(p)), valid)
    [] RawKind(p) # "," /\ At(p, "]") -> StereotypeLoop(p, valid)
    [] OTHER -> StereotypeLoop(TakeIf(SkipTo(Error(p), {",", "]"}), {","}), FALSE)

StereotypeName(p, valid) == AfterStereotype(ConsumeTrivia(p), valid /\ p.ok)

StereotypeLoop(p, valid) ==
  IF AtEof(p) \/ At(p, "]") THEN Answer(p, valid)
  ELSE StereotypeName(NameOrSkip(Closing(ConsumeName(Opening(p, "DOMAIN_STEREOTYPE_DECL")))), valid)

\* consume_profile_tag_list.
TagLoop(p, depth) ==
  CASE AtEof(p) \/ (RawKind(p) = "]" /\ depth = 0) -> Answer(p, TRUE)
    [] RawKind(p) \in {"(", "[", "{"} -> TagLoop(Bump(p), depth + 1)
    [] RawKind(p) \in {")", "]", "}"} /\ ~(RawKind(p) = "]" /\ depth = 0)
         -> TagLoop(Bump(p), IF depth = 0 THEN 0 ELSE depth - 1)
    [] OTHER -> TagLoop(Bump(p), depth)

\* parse_profile_section.
SectionList(p, kind) ==
  IF kind = "stereotypes" THEN StereotypeLoop(ConsumeTrivia(p), TRUE) ELSE TagLoop(p, 0)

SectionIfOpen(p, kind) ==
  IF p.ok THEN Then(SectionList(p, kind), LAMBDA q : Expect(q, "]")) ELSE p

ProfileSection(p) ==
  Closing(Ignoring(
    SectionIfOpen(Then(Expect(Bump(Opening(p, "DOMAIN_PROFILE_SECTION")), ":"),
                       LAMBDA q : Expect(q, "[")), RawKind(p)),
    LAMBDA q : ConsumeIf(q, ";")))

AfterSection(p, valid) == ProfileLoop(p, valid /\ p.ok)

\* parse_profile_body.
ProfileAt(p, valid) ==
  CASE AtEof(p) -> Answer(Error(p), FALSE)
    [] RawKind(p) = "}" -> Answer(Bump(p), valid)
    [] DeclarationStarts(p) -> Answer(Error(p), FALSE)
    [] RawKind(p) \in {"stereotypes", "tags"} -> AfterSection(ProfileSection(p), valid)
    [] RawKind(p) = ";" -> ProfileLoop(Bump(p), valid)
    [] OTHER -> ProfileLoop(OpaqueMember(p), valid)

ProfileLoop(p, valid) == ProfileAt(ConsumeTrivia(p), valid)

BodyIfOpen(p, keyword) ==
  IF ~p.ok THEN RecoverHeader(p)
  ELSE IF keyword = "Profile" THEN ProfileLoop(p, TRUE) ELSE BodyLoop(p, keyword)

DeclarationNode == "Class" :> "DOMAIN_CLASS_DECL" @@ "Association" :> "DOMAIN_ASSOCIATION_DECL"
                     @@ "Profile" :> "DOMAIN_PROFILE_DECL"

\* parse_class, parse_association and parse_profile.
Declaration(p, keyword) ==
  Closing(MarkIfMalformed(
    Then(Then(Then(Ignoring(Expect(Opening(p, DeclarationNode[keyword]), keyword),
                            StereotypeApplications), DomainName),
              LAMBDA q : IF keyword = "Class" THEN ExtendsIfNext(q) ELSE Answer(q, TRUE)),
         LAMBDA q : BodyIfOpen(Expect(q, "{"), keyword)), p.i))

-----------------------------------------------------------------------------
(* The file *)

RECURSIVE TopLevelLoop(_, _, _), DomainLoop(_)

\* consume_top_level_construct: up to and with its `;` or its last `}`, or up to
\* the next declaration.
TopLevelLoop(p, depths, consumed) ==
  IF AtEof(p) THEN p
  ELSE IF consumed /\ depths = Level
            /\ (DeclarationStarts(p) \/ IgnoredStarts(p) \/ RawKind(p) = "}") THEN p
  ELSE IF (RawKind(p) = ";" /\ depths = Level) \/ (RawKind(p) = "}" /\ depths["}"] = 1) THEN Bump(p)
  ELSE TopLevelLoop(Bump(p), Adjusted(depths, RawKind(p)), TRUE)

OpaqueTopLevel(p) ==
  MarkGap(Closing(TopLevelLoop(Opening(p, "DOMAIN_OPAQUE_NODE"), Level, FALSE)), p.i, "top level")

IgnoredTopLevel(p) ==
  Closing(TopLevelLoop(Opening(p, "DOMAIN_IGNORED_TOP_LEVEL"), Level, FALSE))

DomainAt(p) ==
  CASE AtEof(p) -> p
    [] RawKind(p) = ";" -> DomainLoop(Bump(p))
    [] DeclarationStarts(p) -> DomainLoop(Declaration(p, RawKind(p)))
    [] IgnoredStarts(p) -> DomainLoop(IgnoredTopLevel(p))
    [] OTHER -> DomainLoop(OpaqueTopLevel(p))

DomainLoop(p) == DomainAt(ConsumeTrivia(p))

\* parse_domain, whose gaps are sorted for the reader.
ParseDomain(t) ==
  Closing(Closing(DomainLoop(Opening(Opening(Fresh(t), "ROOT"), "DOMAIN_FILE"))))

=============================================================================
