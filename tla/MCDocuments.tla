---------------------------- MODULE MCDocuments ----------------------------
(***************************************************************************)
(* The documents of a session, the text of one document and the plan of    *)
(* fixes, one at a time: while one part runs the others rest.              *)
(***************************************************************************)
EXTENDS LspDocuments, Utf16Text, FixPlan

\* Two documents over two texts, a change that does not apply to one of them
\* and one that always does, and settings with a route of every sort: not a
\* model, repeated, and to no document.
CONSTANTS u1, u2, NoUri

TwoUris == {u1, u2}
TwoTexts == {"", "x"}

TypeX == [t \in TwoTexts |-> IF t = "" THEN "x" ELSE Reject]
Flip == [t \in TwoTexts |-> IF t = "" THEN "x" ELSE ""]
TwoChanges == {TypeX, Flip}

Route(u, k) == [uri |-> u, kind |-> k]
OneSetting ==
  {<<Route(u2, "other"), Route(u1, "pure"), Route(NoUri, "pure"), Route(u1, "pmcd")>>}

-----------------------------------------------------------------------------

\* A newline, letters of one, two and three bytes, and a character of four
\* bytes and two code units.
FiveChars == {"newline", "a", "e_acute", "euro", "astral"}
Bytes5 == [c \in FiveChars |->
  IF c = "astral" THEN 4 ELSE IF c = "euro" THEN 3 ELSE IF c = "e_acute" THEN 2 ELSE 1]
Units5 == [c \in FiveChars |-> IF c = "astral" THEN 2 ELSE 1]

\* Two files: four bytes, of which the middle two are one character, and two
\* bytes.  Every edit inserts its own text.
TwoFiles == {1, 2}
FileTexts == <<<<"a", "b1", "b2", "c">>, <<"x", "y">>>>
FileBoundaries == <<{0, 1, 3, 4}, {0, 1, 2}>>
ChangedText == <<"other">>

E(f, s, e, t) == [file |-> f, start |-> s, end |-> e, text |-> <<t>>]
Fix(title, edits) ==
  [title |-> title, applicability |-> "MachineApplicable", provenance |-> "SyntaxOnly",
   edits |-> edits]

\* Insertions and replacements that touch, nest, cross files or repeat.
ValidFixes ==
  {Fix(1, <<E(1, 0, 1, "p")>>), Fix(2, <<E(1, 0, 0, "q")>>),
   Fix(2, <<E(1, 1, 1, "r"), E(1, 1, 3, "s")>>), Fix(3, <<E(1, 1, 3, "t")>>),
   Fix(3, <<E(1, 3, 3, "u"), E(2, 0, 2, "v")>>), Fix(4, <<E(2, 1, 1, "w")>>),
   Fix(4, <<E(2, 2, 2, "k"), E(1, 4, 4, "l")>>), Fix(5, <<E(2, 2, 2, "m")>>),
   Fix(5, <<E(2, 2, 2, "n")>>)}

\* One fix for every reason to reject or to leave out.
OddFixes ==
  {Fix(6, <<>>), Fix(6, <<E(3, 0, 0, "x")>>), Fix(6, <<E(1, 0, 2, "x")>>),
   Fix(6, <<E(2, 0, 3, "x")>>), Fix(6, <<E(1, 3, 4, "x"), E(1, 0, 1, "y")>>),
   [Fix(7, <<E(1, 0, 1, "x")>>) EXCEPT !.provenance = "ModelDependent"],
   [Fix(7, <<E(1, 0, 1, "x")>>) EXCEPT !.applicability = "Suggested"]}

AllFixes == ValidFixes \cup OddFixes

-----------------------------------------------------------------------------

VARIABLE part
allVars == <<part, vars, text, planVars>>

SessionPart == part = "session" /\ Next /\ UNCHANGED <<part, text, planVars>>
TextPart == part = "text" /\ DocumentNext /\ UNCHANGED <<part, vars, planVars>>
PlanPart == part = "plan" /\ PlanNext /\ UNCHANGED <<part, vars, text>>

PartInit ==
  /\ part \in {"session", "text", "plan"}
  /\ Init
  /\ IF part = "text" THEN DocumentInit ELSE text = Nothing
  /\ PlanInit
PartNext == SessionPart \/ TextPart \/ PlanPart

DocumentsBehaviour == PartInit /\ [][PartNext]_allVars
=============================================================================
