------------------------------ MODULE FixPlan ------------------------------
(***************************************************************************)
(* Selecting and applying the automatic fixes of one analysis              *)
(* (crates/pure-analyzer-diagnostics/src/fix_plan.rs and fix.rs).          *)
(*                                                                         *)
(* Diagnostics are reported one after another, in an order that depends on *)
(* the producers; a plan is built from all of them and from the analysed   *)
(* sources, and applied to the sources as they are then.                   *)
(*                                                                         *)
(* A source is a sequence of bytes with the offsets where a character      *)
(* starts or the text ends.  Titles are numbers: only their order matters. *)
(***************************************************************************)
EXTENDS Naturals, Sequences, SequencesExt, FiniteSetsExt

CONSTANTS
  Files,       \* FileIds, a set of naturals
  Source,      \* file -> the analysed bytes
  Boundary,    \* file -> byte offsets at character boundaries
  Fixes,       \* fixes a diagnostic may carry
  OtherSource, \* another text a file may be found with at application
  MaxFixes     \* bound on the diagnostics reported

ASSUME FilesAssumption == Files \subseteq Nat /\ MaxFixes \in Nat
ASSUME SourceAssumption ==
  \A f \in Files : Boundary[f] \subseteq 0..Len(Source[f]) /\ OtherSource # Source[f]

VARIABLES
  phase,    \* "reporting", "planned", "rejected", "applied", "refused"
  reported, \* the fixes reported, in order
  plan,     \* file -> its edits in order
  error,    \* why the plan was rejected
  sources,  \* file -> its text now
  output    \* file -> its text after application

planVars == <<phase, reported, plan, error, sources, output>>

NoError == [kind |-> "none"]

-----------------------------------------------------------------------------
(* Validation of one fix *)

\* FixProvenance::permits_machine_application.
Permits(provenance) == provenance \in {"SyntaxOnly", "SingleArityProven"}

Selected(fix) == fix.applicability = "MachineApplicable"

EditsIn(fix, f) == SelectSeq(fix.edits, LAMBDA e : e.file = f)
Empty(e) == e.start = e.end

\* Within a file the edits of a fix come in increasing order, apart, and never
\* twice at one insertion point.
Unordered(prior, e) ==
  \/ e.start < prior.end
  \/ e.start = prior.start /\ e.end = prior.end /\ Empty(e)

\* The first thing wrong with a selected fix, in the order build looks.
BadEdit(e) ==
  IF e.file \notin Files THEN "UnknownFile"
  ELSE IF e.start > Len(Source[e.file]) \/ e.end > Len(Source[e.file]) THEN "OutOfBounds"
  ELSE IF {e.start, e.end} \subseteq Boundary[e.file] THEN "none"
  ELSE "InvalidUtf8Boundary"

BadFix(fix) ==
  LET bad == {n \in 1..Len(fix.edits) : BadEdit(fix.edits[n]) # "none"} IN
    IF ~Permits(fix.provenance) THEN "ApplicabilityPolicy"
    ELSE IF fix.edits = <<>> THEN "EmptyFix"
    ELSE IF bad # {} THEN BadEdit(fix.edits[Min(bad)])
    ELSE IF \E f \in Files, n \in 2..Len(fix.edits) :
              /\ n <= Len(EditsIn(fix, f))
              /\ Unordered(EditsIn(fix, f)[n - 1], EditsIn(fix, f)[n])
    THEN "UnorderedEdits"
    ELSE "none"

-----------------------------------------------------------------------------
(* Selection *)

\* Lexicographic comparison of tuples of numbers of one length.
Before(s, t) ==
  \E n \in 1..Len(s) : s[n] < t[n] /\ \A k \in 1..(n - 1) : s[k] = t[k]

EditKey(e) == <<e.file, e.start, e.end>>
FirstEdit(fix) ==
  CHOOSE n \in 1..Len(fix.edits) :
    \A k \in 1..Len(fix.edits) :
      ~Before(EditKey(fix.edits[k]), EditKey(fix.edits[n])) /\
      (k < n => EditKey(fix.edits[k]) # EditKey(fix.edits[n]))

\* first_key, then the reported order: sort_by is stable.
CandidateKey(fixes, n) ==
  EditKey(fixes[n].edits[FirstEdit(fixes[n])]) \o <<fixes[n].title, n>>

SortedBy(s, Key(_)) ==
  [i \in 1..Len(s) |->
     s[CHOOSE n \in 1..Len(s) :
         Cardinality({k \in 1..Len(s) : Before(Key(k), Key(n))}) = i - 1]]

Candidates(fixes) == SortedBy(fixes, LAMBDA n : CandidateKey(fixes, n))

\* Variant used to test the properties: only proper overlap is a conflict.
OverlapNonEmpty(e1, e2) ==
  e1.file = e2.file /\ e1.start < e2.end /\ e2.start < e1.end /\ ~Empty(e1) /\ ~Empty(e2)

\* edits_overlap, for edits of one file.
Overlap(e1, e2) ==
  /\ e1.file = e2.file
  /\ \/ e1.start < e2.end /\ e2.start < e1.end
     \/ e1.start = e2.start /\ e1.end = e2.end /\ Empty(e1)

\* All edits of the candidates, each with the title of its fix.
Tagged(fix) == [n \in 1..Len(fix.edits) |-> [edit |-> fix.edits[n], title |-> fix.title]]
AllEdits(candidates) == FlattenSeq([n \in 1..Len(candidates) |-> Tagged(candidates[n])])

\* The first edit that overlaps one accepted before it.
ConflictAt(all) ==
  {j \in 1..Len(all) : \E i \in 1..(j - 1) : Overlap(all[i].edit, all[j].edit)}
Conflict(all) ==
  LET j == Min(ConflictAt(all))
      i == Min({k \in 1..(j - 1) : Overlap(all[k].edit, all[j].edit)})
  IN [kind |-> "Conflict", file |-> all[j].edit.file, first |-> all[i].title,
      second |-> all[j].title]

\* Variant used to test the properties: the edits are not sorted.
SortedEditsNot(edits) == edits
SortedEdits(edits) ==
  SortedBy(edits, LAMBDA n : <<edits[n].start, edits[n].end, n>>)

\* FixPlan::build.
Build(diagnostics) ==
  LET fixes == SelectSeq(diagnostics, Selected)
      bad == {n \in 1..Len(fixes) : BadFix(fixes[n]) # "none"}
      all == AllEdits(Candidates(fixes))
      edits == [n \in 1..Len(all) |-> all[n].edit]
  IN IF bad # {} THEN [error |-> [kind |-> BadFix(fixes[Min(bad)])], plan |-> <<>>]
     ELSE IF ConflictAt(all) # {} THEN [error |-> Conflict(all), plan |-> <<>>]
     ELSE [error |-> NoError,
           plan |-> [f \in Files |->
             SortedEdits(SelectSeq(edits, LAMBDA e : e.file = f))]]

\* transformed_changes: the edits of a file, applied from the last to the first.
ReplaceRange(text, e) ==
  SubSeq(text, 1, e.start) \o e.text \o SubSeq(text, e.end + 1, Len(text))
Transformed(f, edits) == FoldRight(LAMBDA e, text : ReplaceRange(text, e), edits, Source[f])

-----------------------------------------------------------------------------

PlanInit ==
  /\ phase = "reporting"
  /\ reported = <<>>
  /\ plan = <<>>
  /\ error = NoError
  /\ sources = Source
  /\ output = <<>>

Report(fix) ==
  /\ phase = "reporting"
  /\ Len(reported) < MaxFixes
  /\ reported' = Append(reported, fix)
  /\ UNCHANGED <<phase, plan, error, sources, output>>

BuildPlan ==
  /\ phase = "reporting"
  /\ LET built == Build(reported) IN
       /\ plan' = built.plan
       /\ error' = built.error
       /\ phase' = IF built.error = NoError THEN "planned" ELSE "rejected"
  /\ UNCHANGED <<reported, sources, output>>

\* A file is rewritten between analysis and application.
SourceChanges(f) ==
  /\ phase = "planned"
  /\ sources' = [sources EXCEPT ![f] = OtherSource]
  /\ UNCHANGED <<phase, reported, plan, error, output>>

\* apply: validate_sources, then every file at once.
Apply ==
  /\ phase = "planned"
  /\ IF sources = Source
     THEN phase' = "applied" /\ output' = [f \in Files |-> Transformed(f, plan[f])]
     ELSE phase' = "refused" /\ UNCHANGED output
  /\ UNCHANGED <<reported, plan, error, sources>>

PlanNext ==
  \/ \E fix \in Fixes : Report(fix)
  \/ BuildPlan \/ Apply
  \/ \E f \in Files : SourceChanges(f)


-----------------------------------------------------------------------------
(* Properties *)

SelectedEdits(f) ==
  {e \in UNION {ToSet(reported[n].edits) : n \in {k \in 1..Len(reported) : Selected(reported[k])}} :
     e.file = f}

\* What applying a set of disjoint edits to a text means: at every offset come
\* the insertions made there, then the replacement that starts there, then the
\* byte if no edit removes it.
MeaningAt(f, es, p) ==
  LET inserted == {e \in es : e.start = p /\ Empty(e)}
      replaced == {e \in es : e.start = p /\ ~Empty(e)}
      text(s) == IF s = {} THEN <<>> ELSE (CHOOSE e \in s : TRUE).text
      removed == \E e \in es : e.start <= p /\ p < e.end
  IN text(inserted) \o text(replaced)
       \o IF p < Len(Source[f]) /\ ~removed THEN <<Source[f][p + 1]>> ELSE <<>>
MeaningOf(f, es) == FlattenSeq([n \in 1..(Len(Source[f]) + 1) |-> MeaningAt(f, es, n - 1)])

\* The output is what the edits of every selected fix mean together, in every
\* file, however the fixes were reported and sorted (transformed_changes).
OutputIsMeaning ==
  phase = "applied" => \A f \in Files : output[f] = MeaningOf(f, SelectedEdits(f))

Permuted(s) == {[n \in 1..Len(s) |-> s[p[n]]] : p \in Permutations(1..Len(s))}

\* The plan, and whether there is one, does not depend on the order in which
\* the diagnostics were reported (first_key, the sorts of build).
PlanIsOrderIndependent ==
  phase \in {"planned", "rejected"} =>
    \A other \in Permuted(reported) :
      LET built == Build(other) IN (built.error = NoError) = (error = NoError) /\ built.plan = plan
=============================================================================
