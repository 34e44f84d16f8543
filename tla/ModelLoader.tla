---------------------------- MODULE ModelLoader ----------------------------
(***************************************************************************)
(* Loading a model (crates/pure-analyzer-model): sources are ingested in   *)
(* argument order, a later declaration of a path replaces an earlier one,  *)
(* and associations are materialised onto the classes they connect once    *)
(* every source is in.  A PMCD source is read whole or rejected; a Pure    *)
(* source keeps what it could read and marks what it could not as a        *)
(* coverage gap.                                                           *)
(*                                                                         *)
(* A declaration is what an author wrote.  Its "unread" field says which   *)
(* part of it the domain parser could not recover ("nothing" when all of   *)
(* it was): that is the parser's half of the boundary, and the lowering    *)
(* below turns it into facts and gaps.  "written" keeps the sources as     *)
(* their authors wrote them, for the properties only.                      *)
(***************************************************************************)
EXTENDS Resolver, SequencesExt, FiniteSetsExt, TLC

CONSTANTS Declarations,     \* sequence of the declarations an author may write
          Names,            \* the member names asked about
          Bases,            \* the first source: sequences of declarations (PMCD)
          MaxDeclarations,  \* declarations written after the base
          MaxSources        \* sources handed to the loader

VARIABLES written,   \* the sources so far: [provenance, decls], in order
          elements,  \* ModelMerger::elements: path -> lowered element
          graph,     \* the ModelGraph, once finish has built it
          status     \* "reading", "loaded" or "refused"

loaderVars == <<written, elements, graph, status>>

NoElements == [p \in {} |-> 0]

-----------------------------------------------------------------------------
(* Lowering one declaration *)

\* The members of a class as a function on their names.
MembersNamed(members, kept) ==
  [n \in {members[i].name : i \in kept} |->
     [target |-> members[CHOOSE i \in kept : members[i].name = n].target,
      mult |-> members[CHOOSE i \in kept : members[i].name = n].mult,
      kind |-> members[CHOOSE i \in kept : members[i].name = n].kind,
      arguments |-> members[CHOOSE i \in kept : members[i].name = n].arguments,
      association |-> "none"]]

IsQualified(member) == member.kind # "property"

\* Two properties, or two qualified properties, of one name.
Clashing(members, i) ==
  \E j \in DOMAIN members \ {i} :
    /\ members[j].name = members[i].name
    /\ IsQualified(members[j]) = IsQualified(members[i])

ClassOf(d, supers, temporal, kept, gap, source) ==
  [what |-> "class", supers |-> supers, temporal |-> temporal,
   props |-> MembersNamed(d.members, {i \in kept : ~IsQualified(d.members[i])}),
   quals |-> MembersNamed(d.members, {i \in kept : IsQualified(d.members[i])}),
   gap |-> gap, source |-> source]

AssociationOf(d, provenance, source) ==
  [what |-> "association", path |-> d.path, first |-> d.members[1],
   second |-> d.members[2], temporal |-> d.temporal, provenance |-> provenance,
   source |-> source]

\* The PMCD loader: every record is whole.
LowerPmcd(d, source) ==
  IF d.what = "class" THEN ClassOf(d, d.supers, d.temporal, DOMAIN d.members, FALSE, source)
  ELSE AssociationOf(d, "pmcd", source)

\* A class of a Pure source: an unread extends clause or stereotype is dropped,
\* an unread member is left out, a name declared twice is left out on both
\* sides, and any of these is a gap.  The last member is the unread one.
LowerPureClass(d, source) ==
  LET kept == {i \in DOMAIN d.members :
                 ~Clashing(d.members, i) /\ (d.unread = "member" => i # Len(d.members))} IN
  ClassOf(d,
          IF d.unread = "extends" THEN {} ELSE d.supers,
          IF d.unread = "temporal" THEN "none" ELSE d.temporal,
          kept, d.unread # "nothing" \/ kept # DOMAIN d.members, source)

-----------------------------------------------------------------------------
(* Ingesting one source *)

\* Declarations whose path the source can still read.
Pathed(decls) == {i \in DOMAIN decls : decls[i].what # "other" /\ decls[i].unread # "name"}

DuplicatePaths(decls) ==
  {decls[i].path : i \in {k \in Pathed(decls) : \E j \in Pathed(decls) \ {k} :
                                                 decls[j].path = decls[k].path}}

\* An association that could not be read whole leaves its source's classes alone.
SourceWideGapWithoutAssociations(decls) ==
  \/ \E i \in DOMAIN decls :
       \/ decls[i].what = "other"
       \/ decls[i].what = "class" /\ decls[i].unread = "name"
  \/ DuplicatePaths(decls) # {}

\* What makes a whole Pure source uncertain: unsupported top-level text, a
\* class without a readable path, an association not read whole, a duplicate.
SourceWideGap(decls) ==
  \/ \E i \in DOMAIN decls :
       \/ decls[i].what = "other"
       \/ decls[i].what = "class" /\ decls[i].unread = "name"
       \/ decls[i].what = "association" /\ decls[i].unread # "nothing"
  \/ DuplicatePaths(decls) # {}

\* lower_domain: the elements a Pure source contributes.
LowerPure(decls, source) ==
  LET kept == {i \in Pathed(decls) :
                 /\ decls[i].path \notin DuplicatePaths(decls)
                 /\ decls[i].what = "association" => decls[i].unread = "nothing"}
      Element(d) ==
        IF d.what = "association" THEN AssociationOf(d, "pure", source)
        ELSE [LowerPureClass(d, source) EXCEPT !.gap = @ \/ SourceWideGap(decls)]
  IN [p \in {decls[i].path : i \in kept} |->
        Element(decls[CHOOSE i \in kept : decls[i].path = p])]

\* parse_document: a PMCD source is refused when a record is malformed, a path
\* is declared twice, or a class declares one member name twice.
PmcdRefused(decls) ==
  \/ DuplicatePaths(decls) # {}
  \/ \E i \in DOMAIN decls :
       \/ decls[i].unread # "nothing"
       \/ decls[i].what = "class" /\ \E m \in DOMAIN decls[i].members :
                                       Clashing(decls[i].members, m)

LowerSource(s, source) ==
  IF s.provenance = "pure" THEN LowerPure(s.decls, source)
  ELSE [p \in {s.decls[i].path : i \in Pathed(s.decls)} |->
          LowerPmcd(s.decls[CHOOSE i \in Pathed(s.decls) : s.decls[i].path = p], source)]

\* ingest_fragment: the later element of a path wins.
Merged(before, fragment) == fragment @@ before

-----------------------------------------------------------------------------
(* finish: associations onto classes *)

ClassesOf(es) == [p \in {q \in DOMAIN es : es[q].what = "class"} |-> es[p]]

DraftsOf(es) == {es[p] : p \in {q \in DOMAIN es : es[q].what = "association"}}

\* Each end is a property of the class the other end points at.
Ends(a) == << [owner |-> a.second.target, end |-> a.first],
              [owner |-> a.first.target, end |-> a.second] >>

\* An end whose owner is not loaded or already declares the name.
OwnFailure(classes, a) ==
  \E i \in 1..2 : LET e == Ends(a)[i] IN
    \/ e.owner \notin DOMAIN classes
    \/ e.owner \in DOMAIN classes /\ e.end.name \in DOMAIN classes[e.owner].props

\* Once per association.
ContributorsByAssociation(classes, drafts, owner, name) ==
  {<<a, i>> \in {b \in drafts : ~OwnFailure(classes, b)} \X {1} :
     \E k \in {1, 2} : Ends(a)[k].owner = owner /\ Ends(a)[k].end.name = name}

\* Everyone who would put a name on an owner, once per end.
Contributors(classes, drafts, owner, name) ==
  {<<a, i>> \in {b \in drafts : ~OwnFailure(classes, b)} \X {1, 2} :
     Ends(a)[i].owner = owner /\ Ends(a)[i].end.name = name}

\* preflight_association_failures: an end that several associations claim goes
\* to the only PMCD one among them, if there is exactly one, and to none of the
\* others.
Fails(classes, drafts, a) ==
  \/ OwnFailure(classes, a)
  \/ \E i \in 1..2 :
       LET rivals == Contributors(classes, drafts, Ends(a)[i].owner, Ends(a)[i].end.name)
           closed == {r \in rivals : r[1].provenance = "pmcd"} IN
       /\ Cardinality(rivals) >= 2
       /\ ~(Cardinality(closed) = 1 /\ a.provenance = "pmcd")

\* insert_association_end; a name already there is the error that preflight is
\* meant to exclude.
InsertEnd(state, path, e) ==
  IF state.broken \/ e.end.name \in DOMAIN state.classes[e.owner].props
    THEN [state EXCEPT !.broken = TRUE]
    ELSE [state EXCEPT !.classes[e.owner].props =
            (e.end.name :> [target |-> e.end.target, mult |-> e.end.mult, kind |-> "property",
                            arguments |-> 0, association |-> path]) @@ @]

\* materialize_associations and the graph-wide gap of finish.  "broken" is the
\* error insert_association_end would return half way.
Materialize(es) ==
  LET drafts == DraftsOf(es)
      classes == ClassesOf(es)
      failing == {a \in drafts : Fails(classes, drafts, a)}
      InsertBoth(a, state) == InsertEnd(InsertEnd(state, a.path, Ends(a)[1]), a.path, Ends(a)[2])
      inserted == FoldSet(InsertBoth, [classes |-> classes, broken |-> FALSE], drafts \ failing)
  IN [refused |-> \E a \in failing : a.provenance = "pmcd",
      broken |-> inserted.broken,
      graph |-> [classes |-> [p \in DOMAIN classes |->
                                [inserted.classes[p] EXCEPT !.gap = @ \/ failing # {}]],
                 associations |-> {[path |-> a.path, temporal |-> a.temporal,
                                    ends |-> Ends(a)] : a \in drafts \ failing}]]

-----------------------------------------------------------------------------
(* The loader *)

EmptyGraph == [classes |-> NoElements, associations |-> {}]

Source(provenance, decls) == [provenance |-> provenance, decls |-> decls]

LoaderInit == \E base \in Bases :
  /\ written = << Source("pmcd", base) >>
  /\ elements = LowerSource(Source("pmcd", base), 1)
  /\ graph = EmptyGraph
  /\ status = "reading"

WrittenDeclarations == FoldSeq(LAMBDA s, n : n + Len(s.decls), 0, Tail(written))

\* The next source, of one to MaxDeclarations declarations, is handed to the
\* loader; inside one source the order of declarations does not matter, so only
\* one order is tried.
SourceDecls(n) == {ds \in [1..n -> DOMAIN Declarations] : \A i \in 1..(n - 1) : ds[i] <= ds[i + 1]}

\* ingest_pmcd and ingest_pure.
Ingest(provenance, decls) ==
  /\ status = "reading" /\ Len(written) < MaxSources
  /\ written' = Append(written, Source(provenance, decls))
  /\ IF provenance = "pmcd" /\ PmcdRefused(decls)
       THEN status' = "refused" /\ UNCHANGED <<elements, graph>>
       ELSE /\ elements' = Merged(elements, LowerSource(Source(provenance, decls), Len(written) + 1))
            /\ UNCHANGED <<graph, status>>

IngestPure ==
  \E n \in 1..(MaxDeclarations - WrittenDeclarations) : \E ds \in SourceDecls(n) :
    Ingest("pure", [i \in 1..n |-> Declarations[ds[i]]])

IngestPmcd ==
  \E n \in 1..(MaxDeclarations - WrittenDeclarations) : \E ds \in SourceDecls(n) :
    /\ \A i \in 1..n : Declarations[ds[i]].what # "other"
    /\ Ingest("pmcd", [i \in 1..n |-> Declarations[ds[i]]])

\* finish.
Finish ==
  /\ status = "reading"
  /\ \E loaded \in {Materialize(elements)} :
       IF loaded.refused \/ loaded.broken
         THEN status' = "refused" /\ graph' = graph
         ELSE status' = "loaded" /\ graph' = loaded.graph
  /\ UNCHANGED <<written, elements>>

LoaderNext == IngestPure \/ IngestPmcd \/ Finish

-----------------------------------------------------------------------------
(* Properties *)

\* The model its authors wrote: every declaration read whole, the later one of
\* a path in force, no gap anywhere.
TrueElements ==
  LET True(d, source) == IF d.what = "class"
                           THEN ClassOf(d, d.supers, d.temporal, DOMAIN d.members, FALSE, source)
                           ELSE AssociationOf(d, "pure", source)
      Upto[n \in 0..Len(written)] ==
        IF n = 0 THEN NoElements
        ELSE LET ds == written[n].decls
                 declared == {i \in DOMAIN ds : ds[i].what # "other"} IN
             [p \in {ds[i].path : i \in declared} |->
                True(ds[CHOOSE i \in declared : ds[i].path = p], n)] @@ Upto[n - 1]
  IN Upto[Len(written)]

\* Every association of the true model finds its owners and its names free, and
\* no class is its own ancestor.
WellFormed(es) ==
  /\ \A a \in DraftsOf(es) : ~Fails(ClassesOf(es), DraftsOf(es), a)
  /\ \A classes \in {ClassesOf(es)} : \A c \in DOMAIN classes :
       ValidateHierarchy([classes |-> classes], c).tag # "cycle"

\* Something at the top level of a source that its text does not tell about.
Uncertain(s) ==
  \E i \in DOMAIN s.decls :
    \/ s.decls[i].what = "other"
    \/ s.decls[i].what = "class" /\ s.decls[i].unread = "name"
    \/ s.decls[i].what = "association" /\ s.decls[i].unread # "nothing"
    \/ \E j \in DOMAIN s.decls \ {i} : s.decls[j].path = s.decls[i].path

\* An answer that claims to know agrees with the true model.
TellsTruth(answer, true) ==
  /\ answer.tag = "found" =>
       /\ true.tag = "found" /\ true.member = answer.member
       /\ answer.arity \in {true.arity, Undecided}
  /\ answer.tag \in {"missing", "ambiguous", "cycle"} => true.tag = answer.tag

Truthful(class) ==
  \A truth \in {TrueElements} :
    WellFormed(truth) =>
      \A true \in {Materialize(truth).graph} : \A name \in Names :
        TellsTruth(ResolveMember(graph, class, name), ResolveMember(true, class, name))

\* ConclusiveIsTrue: what the resolver claims to know about a member of a class
\* (found, missing, ambiguous, cyclic: owner, kind, association and temporal
\* arity included) is what the sources say, whatever part of the class's own
\* source could not be read.  It is the promise of coverage_gap: loader and
\* resolver together never turn text that was skipped into a closed-world
\* answer.
ConclusiveIsTrue ==
  status = "loaded" =>
    \A class \in DOMAIN graph.classes :
      (\A n \in DOMAIN written : Uncertain(written[n]) => n = graph.classes[class].source)
        => Truthful(class)

\* AssociationsAreWhole: materialisation never stops half way, an association
\* is in the graph with both its ends or with neither, and no declared property
\* of a class is lost to an association end.
AssociationsAreWhole ==
  status # "reading" \/ \A loaded \in {Materialize(elements)} :
    /\ ~loaded.broken
    /\ \A a \in loaded.graph.associations : \A i \in 1..2 :
         LET e == a.ends[i] IN
         loaded.graph.classes[e.owner].props[e.end.name].association = a.path
    /\ \A c \in DOMAIN loaded.graph.classes :
         /\ \A n \in DOMAIN elements[c].props :
              loaded.graph.classes[c].props[n] = elements[c].props[n]
         /\ \A n \in DOMAIN loaded.graph.classes[c].props \ DOMAIN elements[c].props :
              \E a \in loaded.graph.associations :
                 a.path = loaded.graph.classes[c].props[n].association

=============================================================================
