-------------------------- MODULE CliCommandProofs --------------------------
(***************************************************************************)
(* The commands of `pure-analyzer`, for every command line, configuration, *)
(* set of files and text.                                                  *)
(*                                                                         *)
(* SafeToWrite and RefusalExplained are about the moment at which an       *)
(* effect happens, but are decided when the effects are planned.  The      *)
(* inductive invariant carries the decision from there: every replacement  *)
(* still to be made is sound, and a status that is not zero is announced   *)
(* or still to be announced.                                               *)
(* HighestLayerRules folds the layers of the configuration from the lowest *)
(* and shows by induction on their number that the last one wins.          *)
(* VerdictMatchesFiles needs VerdictInv: what was read is what the files   *)
(* hold, until the one write makes of each what was planned for it.        *)
(***************************************************************************)
EXTENDS CliCommand, SequenceTheorems, CountingInduction, TLAPS

\* A sequence, whatever its elements are.
Shaped(s) == s \in Seq(ToSet(s))

\* The replacements rewrite texts that needed no recovery, to what the command
\* makes of them; fmt makes none if any of its texts needed recovery.
Sound(c, texts, files) ==
  /\ \A r \in files : "recovery" \notin r.before /\ r.after = Outcome(c, r.before)
  /\ c.kind = "fmt" => \A n \in 1..Len(texts) : "recovery" \notin texts[n]

SoundEffects(c, texts, effects) ==
  \A e \in ToSet(effects) : e.to = "files" => Sound(c, texts, e.files)

Announces(effects) == \E e \in ToSet(effects) : e.to = "stderr"

WellFormed(c) ==
  /\ c = [kind |-> c.kind, mode |-> c.mode, stdin |-> c.stdin, given |-> c.given,
          args |-> c.args, models |-> c.models, policy |-> c.policy, strict |-> c.strict,
          quiet |-> c.quiet, sarif |-> c.sarif]
  /\ InPlace(c) => c.kind \in {"fmt", "lint"}

\* A plan as the invariant needs it.
GoodPlan(c, texts, plan) ==
  /\ Shaped(plan.todo)
  /\ SoundEffects(c, texts, plan.todo)
  /\ plan.exit # ExitSuccess /\ InPlace(c) /\ ~c.quiet => Announces(plan.todo)

WritesPlanned == pc = "perform" => SoundEffects(cmd, store, todo)
ReasonPlanned ==
  pc = "perform" /\ verdict # ExitSuccess /\ InPlace(cmd) /\ ~cmd.quiet =>
    err # <<>> \/ Announces(todo)

CommandInv ==
  /\ WellFormed(cmd)
  /\ Shaped(todo)
  /\ Shaped(err)
  /\ WritesPlanned
  /\ ReasonPlanned
  /\ RefusalExplained

-----------------------------------------------------------------------------
(* Sequences *)

\* An effect that happens under a condition is a sequence of at most one.
LEMMA WhenShaped ==
  ASSUME NEW b, NEW e
  PROVE  /\ Shaped(When(b, e))
         /\ ToSet(When(b, e)) = IF b THEN {e} ELSE {}
<1>1. ToSet(<<e>>) = {e} /\ ToSet(<<>>) = {}
  BY DEF ToSet
<1>2. <<e>> \in Seq({e}) /\ <<>> \in Seq({})
  OBVIOUS
<1> QED BY <1>1, <1>2 DEF When, Shaped

\* The effects of two sequences, one after the other, are those of both.
LEMMA ConcatShaped ==
  ASSUME NEW s, NEW t, Shaped(s), Shaped(t)
  PROVE  Shaped(s \o t) /\ ToSet(s \o t) = ToSet(s) \cup ToSet(t)
<1> DEFINE E == ToSet(s) \cup ToSet(t)
<1>1. s \in Seq(E) /\ t \in Seq(E)
  BY DEF Shaped
<1>2. s \o t \in Seq(E) /\ Len(s \o t) = Len(s) + Len(t)
  BY <1>1
<1>3. \A i \in 1..Len(s) : (s \o t)[i] = s[i]
  BY <1>1
<1>4. \A i \in 1..Len(t) : (s \o t)[Len(s) + i] = t[i]
  BY <1>1
<1>5. DOMAIN s = 1..Len(s) /\ DOMAIN t = 1..Len(t) /\ DOMAIN (s \o t) = 1..Len(s) + Len(t)
  BY <1>1, <1>2
<1>6. Len(s) \in Nat /\ Len(t) \in Nat
  BY <1>1
<1>7. ToSet(s \o t) \subseteq E
  BY <1>2, <1>5 DEF ToSet
<1>8. ASSUME NEW x \in ToSet(s) PROVE x \in ToSet(s \o t)
  <2>1. PICK i \in 1..Len(s) : x = s[i]
    BY <1>5 DEF ToSet
  <2>2. i \in DOMAIN (s \o t) /\ (s \o t)[i] = x
    BY <2>1, <1>3, <1>5, <1>6
  <2> QED BY <2>2 DEF ToSet
<1>9. ASSUME NEW x \in ToSet(t) PROVE x \in ToSet(s \o t)
  <2>1. PICK i \in 1..Len(t) : x = t[i]
    BY <1>5 DEF ToSet
  <2>2. Len(s) + i \in DOMAIN (s \o t) /\ (s \o t)[Len(s) + i] = x
    BY <2>1, <1>4, <1>5, <1>6
  <2> QED BY <2>2 DEF ToSet
<1>10. ToSet(s \o t) = E
  BY <1>7, <1>8, <1>9
<1> QED BY <1>2, <1>10 DEF Shaped

\* A sequence over any set is one over its own elements.
LEMMA OwnElements ==
  ASSUME NEW S, NEW s \in Seq(S)
  PROVE  Shaped(s) /\ DOMAIN s = 1..Len(s) /\ Len(s) \in Nat
<1>1. Len(s) \in Nat /\ DOMAIN s = 1..Len(s) /\ s \in [1..Len(s) -> S]
  BY LenProperties
<1>2. \A i \in 1..Len(s) : s[i] \in ToSet(s)
  BY <1>1 DEF ToSet
<1>3. s \in [1..Len(s) -> ToSet(s)]
  BY <1>1, <1>2
<1>4. s \in Seq(ToSet(s))
  BY <1>1, <1>3
<1> QED BY <1>1, <1>4 DEF Shaped

\* Two effects, one after the other.
LEMMA PairShaped ==
  ASSUME NEW a, NEW b
  PROVE  Shaped(<<a, b>>) /\ ToSet(<<a, b>>) = {a, b}
<1>1. <<a, b>> \in Seq({a, b})
  OBVIOUS
<1>2. DOMAIN <<a, b>> = 1..2 /\ <<a, b>>[1] = a /\ <<a, b>>[2] = b
  OBVIOUS
<1>3. ToSet(<<a, b>>) = {a, b}
  BY <1>2 DEF ToSet
<1> QED BY <1>1, <1>3, OwnElements

\* A message appended to a stream makes it non-empty.
LEMMA AppendShaped ==
  ASSUME NEW s, NEW e, Shaped(s)
  PROVE  Shaped(Append(s, e)) /\ Append(s, e) # <<>>
<1> DEFINE E == ToSet(s) \cup {e}
<1>1. s \in Seq(E) /\ e \in E
  BY DEF Shaped
<1>2. Append(s, e) \in Seq(E) /\ Append(s, e) # <<>>
  BY <1>1, AppendProperties
<1> HIDE DEF E
<1> QED BY <1>2, OwnElements

\* What is left after the first effect is part of what there was.
LEMMA TailShaped ==
  ASSUME NEW s, Shaped(s), s # <<>>
  PROVE  /\ Shaped(Tail(s))
         /\ Head(s) \in ToSet(s)
         /\ ToSet(s) = {Head(s)} \cup ToSet(Tail(s))
<1> DEFINE E == ToSet(s)
<1>1. s \in Seq(E)
  BY DEF Shaped
<1>2. Len(s) \in Nat /\ Len(s) > 0 /\ DOMAIN s = 1..Len(s)
  BY <1>1, EmptySeq, OwnElements
<1>3. /\ Tail(s) \in Seq(E) /\ Len(Tail(s)) = Len(s) - 1
      /\ \A i \in 1..Len(Tail(s)) : Tail(s)[i] = s[i + 1]
  BY <1>1, HeadTailProperties
<1>4. Shaped(Tail(s)) /\ DOMAIN Tail(s) = 1..Len(Tail(s))
  BY <1>3, OwnElements
<1>5. Head(s) = s[1]
  BY <1>1, <1>2
<1>6. Head(s) \in ToSet(s)
  BY <1>2, <1>5 DEF ToSet
<1>7. PICK t : t = Tail(s)
  OBVIOUS
<1>8. ToSet(t) \subseteq ToSet(s)
  BY <1>2, <1>3, <1>4, <1>7 DEF ToSet
<1>9. ASSUME NEW x \in ToSet(s), x # Head(s) PROVE x \in ToSet(t)
  <2>1. PICK i \in 1..Len(s) : x = s[i]
    BY <1>2 DEF ToSet
  <2>2. i # 1
    BY <2>1, <1>5, <1>9
  <2>3. PICK k \in 1..Len(t) : i = k + 1
    BY <2>1, <2>2, <1>2, <1>3, <1>7
  <2>4. t[k] = x
    BY <2>1, <2>3, <1>3, <1>7
  <2> QED BY <2>3, <2>4, <1>4, <1>7 DEF ToSet
<1> QED BY <1>4, <1>6, <1>7, <1>8, <1>9

-----------------------------------------------------------------------------
(* Fixes *)

\* What the policy keeps of what the passes report: each diagnostic is of a code
\* the text shows, and only a missing date in a text without recovery has a fix.
LEMMA KeptReports ==
  ASSUME NEW c, NEW codes, NEW n, NEW t
  PROVE  /\ \A d \in Apply(c, Reports(codes, n, t)) :
              /\ d.file = n /\ d.code \in t \cap codes /\ ~Suppressed(c.policy, d.code)
              /\ d.fix <=> d.code = "arity" /\ "recovery" \notin t
         /\ \A x \in t \cap codes :
              ~Suppressed(c.policy, x) =>
                \E d \in Apply(c, Reports(codes, n, t)) :
                  d.code = x /\ d.file = n /\ (d.fix <=> x = "arity" /\ "recovery" \notin t)
<1> DEFINE Raw(x) == [file |-> n, code |-> x,
                      severity |-> IF x = "merge" THEN "warning" ELSE "error",
                      fix |-> x = "arity" /\ "recovery" \notin t]
           Kept(x) == [Raw(x) EXCEPT !.severity = Severity(c, Raw(x))]
<1>1. \A x : /\ Kept(x).file = n /\ Kept(x).code = x /\ Raw(x).code = x
             /\ Kept(x).fix = (x = "arity" /\ "recovery" \notin t)
  OBVIOUS
<1>2. Reports(codes, n, t) = {Raw(x) : x \in t \cap codes}
  BY DEF Reports
<1>3. Apply(c, Reports(codes, n, t))
        = {[f EXCEPT !.severity = Severity(c, f)] :
             f \in {g \in Reports(codes, n, t) : ~Suppressed(c.policy, g.code)}}
  BY DEF Apply
<1>4. \A d \in Apply(c, Reports(codes, n, t)) :
        \E x \in t \cap codes : ~Suppressed(c.policy, x) /\ d = Kept(x)
  <2> SUFFICES ASSUME NEW d \in Apply(c, Reports(codes, n, t))
               PROVE  \E x \in t \cap codes : ~Suppressed(c.policy, x) /\ d = Kept(x)
    OBVIOUS
  <2>1. PICK f \in Reports(codes, n, t) :
          ~Suppressed(c.policy, f.code) /\ d = [f EXCEPT !.severity = Severity(c, f)]
    BY <1>3
  <2>2. PICK x \in t \cap codes : f = Raw(x)
    BY <1>2
  <2>3. f.code = x
    BY <2>2
  <2> QED BY <2>1, <2>2, <2>3
<1>5. \A x \in t \cap codes :
        ~Suppressed(c.policy, x) => Kept(x) \in Apply(c, Reports(codes, n, t))
  <2> SUFFICES ASSUME NEW x \in t \cap codes, ~Suppressed(c.policy, x)
               PROVE  Kept(x) \in Apply(c, Reports(codes, n, t))
    OBVIOUS
  <2>1. PICK f : f = Raw(x)
    OBVIOUS
  <2>2. f \in Reports(codes, n, t) /\ ~Suppressed(c.policy, f.code)
    BY <2>1, <1>1, <1>2
  <2>3. [f EXCEPT !.severity = Severity(c, f)] \in Apply(c, Reports(codes, n, t))
    BY <2>2, <1>3
  <2>4. Kept(x) = [f EXCEPT !.severity = Severity(c, f)]
    BY <2>1
  <2> HIDE DEF Kept, Raw
  <2> QED BY <2>3, <2>4
<1> HIDE DEF Kept, Raw
<1>6. ASSUME NEW d \in Apply(c, Reports(codes, n, t))
      PROVE  /\ d.file = n /\ d.code \in t \cap codes /\ ~Suppressed(c.policy, d.code)
             /\ d.fix <=> d.code = "arity" /\ "recovery" \notin t
  <2>1. PICK x \in t \cap codes : ~Suppressed(c.policy, x) /\ d = Kept(x)
    BY <1>4
  <2>2. d.file = n /\ d.code = x /\ d.fix = (x = "arity" /\ "recovery" \notin t)
    BY <2>1, <1>1
  <2>3. d.fix <=> d.code = "arity" /\ "recovery" \notin t
    BY <2>2, Zenon
  <2> QED BY <2>1, <2>2, <2>3
<1>7. ASSUME NEW x \in t \cap codes, ~Suppressed(c.policy, x)
      PROVE  \E d \in Apply(c, Reports(codes, n, t)) :
               d.code = x /\ d.file = n /\ (d.fix <=> x = "arity" /\ "recovery" \notin t)
  <2>1. Kept(x) \in Apply(c, Reports(codes, n, t))
    BY <1>5, <1>7
  <2>2. Kept(x).file = n /\ Kept(x).code = x
    BY <1>1
  <2>3. Kept(x).fix <=> x = "arity" /\ "recovery" \notin t
    BY <1>1, Zenon
  <2> QED BY <2>1, <2>2, <2>3
<1> QED BY <1>6, <1>7

\* A query that lint --fix changes needed no recovery, and becomes what the fixes
\* of a query make of it; a model is never changed.
LEMMA FixIsSound ==
  ASSUME NEW c, NEW texts, NEW n \in Changed(texts, FixedTexts(c, texts)), c.kind = "lint"
  PROVE  "recovery" \notin texts[n] /\ FixedTexts(c, texts)[n] = Outcome(c, texts[n])
<1> DEFINE t == texts[n]
           fixes == {x \in Diagnostics(c, texts) : x.file = n /\ x.fix}
           codes == IF IsQuery(c, n) THEN QueryCodes(c) ELSE ModelCodes(c)
           reported == {g \in Apply(c, Reports(QueryCodes(c), 0, t)) : g.fix}
<1>1. n \in 1..Len(texts) /\ texts[n] # FixedTexts(c, texts)[n]
  BY DEF Changed
<1>2. FixedTexts(c, texts)[n] = t \ {d.code : d \in fixes}
  BY <1>1 DEF FixedTexts
<1>3. Outcome(c, t) = t \ {f.code : f \in reported}
  BY DEF Outcome
<1>4. \A d : d \in Diagnostics(c, texts) /\ d.file = n => d \in Apply(c, Reports(codes, n, t))
  <2> SUFFICES ASSUME NEW d \in Diagnostics(c, texts), d.file = n
               PROVE  d \in Apply(c, Reports(codes, n, t))
    OBVIOUS
  <2>1. PICK m \in 1..Len(texts) : d \in Apply(c, Findings(c, m, texts[m]))
    BY DEF Diagnostics
  <2>2. d.file = m
    BY <2>1, KeptReports DEF Findings
  <2> QED BY <2>1, <2>2 DEF Findings
<1>5. \A d \in fixes : /\ d.code = "arity" /\ "recovery" \notin t
                       /\ "arity" \in t \cap codes /\ ~Suppressed(c.policy, "arity")
  BY <1>4, KeptReports
<1>6. PICK d \in fixes : TRUE
  BY <1>1, <1>2
<1>7. IsQuery(c, n) /\ "arity" \in t \cap QueryCodes(c)
  BY <1>5, <1>6 DEF ModelCodes
<1>8. "recovery" \notin t /\ ~Suppressed(c.policy, "arity")
  BY <1>5, <1>6
<1>9. {x.code : x \in fixes} = {"arity"}
  BY <1>5, <1>6
<1>10. \A g \in reported : g.code = "arity"
  BY KeptReports
<1>11. \E g \in reported : TRUE
  BY <1>7, <1>8, KeptReports
<1>12. {f.code : f \in reported} = {"arity"}
  BY <1>10, <1>11
<1> QED BY <1>2, <1>3, <1>8, <1>9, <1>12

-----------------------------------------------------------------------------
(* Plans *)

\* Where each kind of effect goes.
LEMMA EffectKinds ==
  /\ \A item, texts : ToStdout(item, texts).to = "stdout"
  /\ \A item : ToStderr(item).to = "stderr"
  /\ \A files : Replace(files).to = "files" /\ Replace(files).files = files
  /\ Relint.to = "relint"
BY DEF ToStdout, ToStderr, Replace, Relint, Effect

\* A report on standard output only: no command that rewrites files ends with it.
LEMMA OutputGood ==
  ASSUME NEW c, NEW texts, NEW b, NEW item, NEW shown, NEW status, ~InPlace(c)
  PROVE  GoodPlan(c, texts, Plan(When(b, ToStdout(item, shown)), status))
<1> DEFINE effects == When(b, ToStdout(item, shown))
<1>1. Shaped(effects) /\ ToSet(effects) \subseteq {ToStdout(item, shown)}
  BY WhenShaped
<1>2. SoundEffects(c, texts, effects)
  BY <1>1, EffectKinds DEF SoundEffects
<1> QED BY <1>1, <1>2 DEF GoodPlan, Plan

\* The report of lint --fix is the announcement.
LEMMA FixReportGood ==
  ASSUME NEW c, NEW texts
  PROVE  /\ Shaped(FixReport(c))
         /\ \A e \in ToSet(FixReport(c)) : e.to = "stderr"
         /\ ~c.quiet => Announces(FixReport(c))
         /\ \A status : GoodPlan(c, texts, Plan(FixReport(c), status))
<1>1. Shaped(FixReport(c)) /\ ToSet(FixReport(c)) = IF ~c.quiet THEN {ToStderr("report")} ELSE {}
  BY WhenShaped DEF FixReport
<1>2. \A e \in ToSet(FixReport(c)) : e.to = "stderr"
  BY <1>1, EffectKinds
<1>3. ~c.quiet => Announces(FixReport(c))
  BY <1>1, EffectKinds DEF Announces
<1>4. SoundEffects(c, texts, FixReport(c))
  BY <1>2 DEF SoundEffects
<1> QED BY <1>1, <1>2, <1>3, <1>4 DEF GoodPlan, Plan

\* The replacements of lint --fix are sound, and every way it ends is announced.
LEMMA LintFixGood ==
  ASSUME NEW c, NEW texts, c.kind = "lint"
  PROVE  GoodPlan(c, texts, LintFixPlan(c, texts))
<1> DEFINE fixed == FixedTexts(c, texts)
           changes == Changed(texts, fixed)
           plan == LintFixPlan(c, texts)
<1>1. CASE c.mode = "write" /\ changes = {}
  <2>1. plan = Plan(FixReport(c), DiagnosticExit(Diagnostics(c, texts)))
    BY <1>1 DEF LintFixPlan
  <2> QED BY <2>1, FixReportGood
<1>2. CASE c.mode = "check"
  <2>1. plan = Plan(FixReport(c), FixPreviewExit(c, Diagnostics(c, texts), changes))
    BY <1>2 DEF LintFixPlan
  <2> QED BY <2>1, FixReportGood
<1>3. CASE c.mode \in {"diff", "stdout"}
  <2>1. PICK b, item, shown, status :
          plan = Plan(When(b, ToStdout(item, shown)) \o FixReport(c), status)
    <3>1. CASE c.mode = "diff"
      <4>1. plan = Plan(When(changes # {}, ToStdout("diff", Rendered(fixed, changes)))
                          \o FixReport(c),
                        FixPreviewExit(c, Diagnostics(c, texts), changes))
        BY <3>1 DEF LintFixPlan
      <4> QED BY <4>1
    <3>2. CASE c.mode = "stdout"
      <4>1. plan = Plan(<<ToStdout("text", <<Last(fixed)>>)>> \o FixReport(c),
                        DiagnosticExit(PreviewDiagnostics(c, fixed)))
        BY <3>2 DEF LintFixPlan
      <4>2. <<ToStdout("text", <<Last(fixed)>>)>> = When(TRUE, ToStdout("text", <<Last(fixed)>>))
        BY DEF When
      <4> HIDE DEF plan
      <4> QED BY <4>1, <4>2
    <3> QED BY <1>3, <3>1, <3>2
  <2> DEFINE first == When(b, ToStdout(item, shown))
  <2>2. Shaped(first) /\ ToSet(first) \subseteq {ToStdout(item, shown)}
    BY WhenShaped
  <2>3. Shaped(first \o FixReport(c)) /\ ToSet(first \o FixReport(c)) = ToSet(first) \cup ToSet(FixReport(c))
    BY <2>2, FixReportGood, ConcatShaped
  <2>4. \A e \in ToSet(first \o FixReport(c)) : e.to # "files"
    BY <2>2, <2>3, FixReportGood, EffectKinds
  <2>5. plan.todo = first \o FixReport(c)
    BY <2>1 DEF Plan
  <2>6. SoundEffects(c, texts, plan.todo)
    BY <2>4, <2>5 DEF SoundEffects
  <2> QED BY <1>3, <2>3, <2>5, <2>6 DEF GoodPlan, InPlace
<1>4. CASE c.mode \notin {"diff", "stdout", "check"} /\ ~(c.mode = "write" /\ changes = {})
  <2> DEFINE files == Replacements(c, texts, fixed, changes)
             effects == <<Replace(files), Relint>>
  <2>1. plan = Plan(effects, ExitSuccess)
    BY <1>4 DEF LintFixPlan
  <2>2. Shaped(effects) /\ ToSet(effects) = {Replace(files), Relint}
    BY PairShaped
  <2>3. ASSUME NEW r \in files
        PROVE  "recovery" \notin r.before /\ r.after = Outcome(c, r.before)
    <3>1. PICK n \in changes : r.before = texts[n] /\ r.after = fixed[n]
      BY DEF Replacements
    <3> QED BY <3>1, FixIsSound
  <2>4. Sound(c, texts, files)
    BY <2>3 DEF Sound
  <2>5. SoundEffects(c, texts, effects)
    BY <2>2, <2>4, EffectKinds DEF SoundEffects
  <2>6. plan.todo = effects /\ plan.exit = ExitSuccess
    BY <2>1 DEF Plan
  <2> QED BY <2>2, <2>5, <2>6 DEF GoodPlan
<1> QED BY <1>1, <1>2, <1>3, <1>4

\* If parsing needed no recovery before the policy was applied, no text of fmt has it.
LEMMA NothingRecovered ==
  ASSUME NEW c, NEW texts, c.kind = "fmt", WritesAreSafe(c, texts), NEW n \in 1..Len(texts)
  PROVE  "recovery" \notin texts[n]
<1>1. Models(c) = <<>>
  BY DEF Models
<1>2. IsQuery(c, n)
  BY <1>1 DEF IsQuery
<1>3. QueryCodes(c) = {"recovery"}
  BY DEF QueryCodes
<1>4. Reports({"recovery"}, n, texts[n]) = {}
  BY <1>2, <1>3 DEF WritesAreSafe, HasRecovery, Findings
<1> QED BY <1>4 DEF Reports

\* fmt replaces nothing unless all of its texts are safe to write, and says why its
\* status is not zero even if the policy hides every diagnostic.
LEMMA FormatGood ==
  ASSUME NEW c, NEW texts, c.kind = "fmt"
  PROVE  GoodPlan(c, texts, FormatPlan(c, texts))
<1> DEFINE
      found == Diagnostics(c, texts)
      formatted == [n \in 1..Len(texts) |-> Formatted(texts[n])]
      changes == Changed(texts, formatted)
      printed == {n \in 1..Len(texts) :
                    c.mode = "stdout" \/ (InPlace(c) /\ Inputs(c)[n] = Stdin)}
      shown == IF c.mode = "diff" THEN changes ELSE printed
      wanted == IF InPlace(c) THEN changes \ printed ELSE {}
      blocked == IF WritesAreSafe(c, texts) THEN {} ELSE wanted
      written == wanted \ blocked
      report == When(~c.quiet /\ found # {}, ToStderr("report"))
      view == ToStdout(IF c.mode = "diff" THEN "diff" ELSE "text", Rendered(formatted, shown))
      output == When(shown # {}, view)
      files == Replacements(c, texts, formatted, written)
      install == When(written # {}, Replace(files))
      message == BlockedMessage(c, texts, blocked)
      effects == report \o output \o install \o message
      status == IF HasErrors(found) \/ (changes # {} /\ PreviewsChanges(c.mode)) \/ blocked # {}
                THEN ExitActionable ELSE ExitSuccess
<1>1. FormatPlan(c, texts) = Plan(effects, status)
  BY DEF FormatPlan
<1>2. /\ Shaped(report)
      /\ ToSet(report) = IF ~c.quiet /\ found # {} THEN {ToStderr("report")} ELSE {}
  BY WhenShaped
<1>3. Shaped(output) /\ ToSet(output) \subseteq {view}
  BY WhenShaped
<1>4. Shaped(install) /\ ToSet(install) = IF written # {} THEN {Replace(files)} ELSE {}
  BY WhenShaped
<1>5. /\ Shaped(message)
      /\ ToSet(message) = IF blocked # {} /\ HasRecovery(c, texts) /\ found = {}
                          THEN {ToStderr("blocked")} ELSE {}
  BY WhenShaped DEF BlockedMessage
<1>6. /\ Shaped(effects)
      /\ ToSet(effects) = ToSet(report) \cup ToSet(output) \cup ToSet(install) \cup ToSet(message)
  <2> HIDE DEF report, output, install, message
  <2>1. /\ Shaped(report \o output)
        /\ ToSet(report \o output) = ToSet(report) \cup ToSet(output)
    BY <1>2, <1>3, ConcatShaped
  <2>2. /\ Shaped(report \o output \o install)
        /\ ToSet(report \o output \o install) = ToSet(report \o output) \cup ToSet(install)
    BY <1>4, <2>1, ConcatShaped
  <2>3. Shaped(effects) /\ ToSet(effects) = ToSet(report \o output \o install) \cup ToSet(message)
    BY <1>5, <2>2, ConcatShaped
  <2> QED BY <2>1, <2>2, <2>3
<1>7. SoundEffects(c, texts, effects)
  <2> SUFFICES ASSUME NEW e \in ToSet(effects), e.to = "files"
               PROVE  Sound(c, texts, e.files)
    BY DEF SoundEffects
  <2>1. e \in ToSet(install)
    <3> HIDE DEF report, output, install, message, view, effects
    <3>1. \A x \in ToSet(report) \cup ToSet(message) : x.to = "stderr"
      BY <1>2, <1>5, EffectKinds
    <3>2. view.to = "stdout"
      BY EffectKinds DEF view
    <3> QED BY <1>3, <1>6, <3>1, <3>2
  <2>2. e.files = files /\ written # {}
    BY <1>4, <2>1, EffectKinds
  <2>3. WritesAreSafe(c, texts)
    BY <2>2
  <2>4. \A n \in 1..Len(texts) : "recovery" \notin texts[n]
    BY <2>3, NothingRecovered
  <2>5. ASSUME NEW r \in files
        PROVE  "recovery" \notin r.before /\ r.after = Outcome(c, r.before)
    <3>1. PICK n \in written : r.before = texts[n] /\ r.after = formatted[n]
      BY DEF Replacements
    <3>2. n \in 1..Len(texts)
      BY DEF Changed
    <3>3. r.after = Formatted(texts[n])
      BY <3>1, <3>2
    <3> QED BY <2>4, <3>1, <3>2, <3>3 DEF Outcome
  <2> QED BY <2>2, <2>4, <2>5 DEF Sound
<1>8. status # ExitSuccess /\ InPlace(c) /\ ~c.quiet => Announces(effects)
  <2> SUFFICES ASSUME status # ExitSuccess, InPlace(c), ~c.quiet
               PROVE  \E e \in ToSet(report) \cup ToSet(message) : e.to = "stderr"
    BY <1>6 DEF Announces
  <2>1. HasErrors(found) \/ blocked # {}
    BY DEF PreviewsChanges, InPlace
  <2>2. CASE found # {}
    BY <1>2, <2>2, EffectKinds
  <2>3. CASE found = {}
    <3>1. blocked # {}
      BY <2>1, <2>3 DEF HasErrors
    <3>2. HasRecovery(c, texts)
      BY <3>1 DEF WritesAreSafe
    <3> QED BY <1>5, <2>3, <3>1, <3>2, EffectKinds
  <2> QED BY <2>2, <2>3
<1> HIDE DEF effects, status
<1>9. Plan(effects, status).todo = effects /\ Plan(effects, status).exit = status
  BY DEF Plan
<1> QED BY <1>1, <1>6, <1>7, <1>8, <1>9 DEF GoodPlan

\* Every plan of a command is good, whichever analysis it follows.
LEMMA PlansGood ==
  ASSUME NEW c, NEW texts, NEW second, WellFormed(c), NEW plan \in Plans(c, texts, second)
  PROVE  GoodPlan(c, texts, plan)
<1>1. CASE second
  <2>1. plan = Plan(FixReport(c), DiagnosticExit(Diagnostics(c, texts)))
    BY <1>1 DEF Plans, RelintPlan
  <2> QED BY <2>1, FixReportGood
<1>2. CASE ~second /\ c.kind \in {"eq", "canonical"}
  <2>1. plan \in OutcomePlans(c, texts)
    BY <1>2 DEF Plans
  <2>2. PICK o : plan = Plan(When(~c.quiet, ToStdout("outcome", <<>>)), OutcomeExit(o))
    BY <2>1 DEF OutcomePlans
  <2>3. ~InPlace(c)
    BY <1>2 DEF WellFormed
  <2> QED BY <2>2, <2>3, OutputGood
<1>3. CASE ~second /\ c.kind = "fmt"
  <2>1. plan = FormatPlan(c, texts)
    BY <1>3 DEF Plans
  <2> QED BY <2>1, <1>3, FormatGood
<1>4. CASE ~second /\ c.kind = "lint" /\ c.mode # "report"
  <2>1. plan = LintFixPlan(c, texts)
    BY <1>4 DEF Plans
  <2> QED BY <2>1, <1>4, LintFixGood
<1>5. CASE /\ ~second /\ c.kind \notin {"eq", "canonical", "fmt"}
           /\ ~(c.kind = "lint" /\ c.mode # "report")
  <2>1. plan = Plan(When(~c.quiet, ToStdout("report", <<>>)), DiagnosticExit(Diagnostics(c, texts)))
    BY <1>5 DEF Plans, ReportPlan
  <2>2. ~InPlace(c)
    BY <1>5 DEF WellFormed, InPlace
  <2> QED BY <2>1, <2>2, OutputGood
<1> QED BY <1>1, <1>2, <1>3, <1>4, <1>5

-----------------------------------------------------------------------------
(* The invariant *)

\* A configured command is well formed if the command line is one that is parsed.
LEMMA ConfiguredWellFormed ==
  ASSUME NEW c, NEW config, c.mode = "write" => c.kind \in {"fmt", "lint"}
  PROVE  /\ WellFormed(Configured(c, config))
         /\ Configured(c, config).mode = c.mode /\ Configured(c, config).kind = c.kind
<1> DEFINE k == Configured(c, config)
<1>1. k = [kind |-> c.kind, mode |-> c.mode, stdin |-> c.stdin, given |-> c.given,
           args |-> c.given.args, models |-> config["models"], policy |-> CompiledPolicy(config),
           strict |-> config["strict"], quiet |-> config["quiet"],
           sarif |-> config["format"] = "sarif"]
  BY DEF Configured
<1>2. k.kind = c.kind /\ k.mode = c.mode
  BY <1>1
<1>3. k = [kind |-> k.kind, mode |-> k.mode, stdin |-> k.stdin, given |-> k.given,
           args |-> k.args, models |-> k.models, policy |-> k.policy, strict |-> k.strict,
           quiet |-> k.quiet, sarif |-> k.sarif]
  BY <1>1
<1> QED BY <1>2, <1>3 DEF WellFormed, InPlace

\* Before its effects, a command has nothing to keep.
LEMMA BeforeEffects ==
  ASSUME WellFormed(cmd'), Shaped(todo'), Shaped(err'), pc' \notin {"perform", "exited"}
  PROVE  CommandInv'
BY DEF CommandInv, WritesPlanned, ReasonPlanned, RefusalExplained

\* A failure is explained by the message of main.
LEMMA FailKeeps ==
  ASSUME CommandInv, NEW status, Fail(status), UNCHANGED cmd
  PROVE  CommandInv'
<1>1. Shaped(err') /\ err' # <<>>
  BY AppendShaped DEF CommandInv, Fail
<1>2. pc' = "exited" /\ UNCHANGED todo
  BY DEF Fail
<1> QED BY <1>1, <1>2 DEF CommandInv, WritesPlanned, ReasonPlanned, RefusalExplained

\* A text that is only printed is no replacement, and ends with success.
LEMMA PrintsKeeps ==
  ASSUME CommandInv, NEW item, Prints(item), UNCHANGED cmd
  PROVE  CommandInv'
<1>1. /\ pc' = "perform" /\ verdict' = ExitSuccess
      /\ todo' = <<ToStdout(item, <<>>)>> /\ UNCHANGED err
  BY DEF Prints
<1>2. todo' = When(TRUE, ToStdout(item, <<>>))
  BY <1>1 DEF When
<1>3. Shaped(todo') /\ ToSet(todo') = {ToStdout(item, <<>>)}
  BY <1>2, WhenShaped
<1>4. SoundEffects(cmd', store', todo')
  BY <1>3, EffectKinds DEF SoundEffects
<1> QED BY <1>1, <1>3, <1>4
        DEF CommandInv, WritesPlanned, ReasonPlanned, RefusalExplained

\* Once an effect is had, the others are what they were.
LEMMA OneEffectLess ==
  ASSUME CommandInv, pc = "perform", todo # <<>>, todo' = Tail(todo), UNCHANGED <<pc, cmd, store, verdict>>,
         Shaped(err'), err # <<>> => err' # <<>>, Head(todo).to = "stderr" => err' # <<>>
  PROVE  CommandInv'
<1>1. Shaped(todo') /\ ToSet(todo) = {Head(todo)} \cup ToSet(todo')
  BY TailShaped DEF CommandInv
<1>2. SoundEffects(cmd', store', todo')
  BY <1>1 DEF CommandInv, WritesPlanned, SoundEffects
<1>3. Announces(todo) => err' # <<>> \/ Announces(todo')
  BY <1>1 DEF Announces
<1>4. ReasonPlanned'
  BY <1>3 DEF CommandInv, ReasonPlanned
<1> QED BY <1>1, <1>2, <1>4 DEF CommandInv, WritesPlanned, RefusalExplained

\* The invariant holds at the start and every step keeps it.
LEMMA CommandInvariant == Spec => []CommandInv
<1>1. Init => CommandInv
  <2> SUFFICES ASSUME Init PROVE CommandInv
    OBVIOUS
  <2>1. PICK c \in Commands : cmd = Configured(c, Defaults)
    BY CommandsAssumption DEF Init
  <2>2. WellFormed(cmd)
    BY <2>1, CommandsAssumption, ConfiguredWellFormed
  <2>3. Shaped(<<>>)
    BY WhenShaped DEF When
  <2> QED BY <2>2, <2>3
          DEF Init, CommandInv, WritesPlanned, ReasonPlanned, RefusalExplained
<1>2. CommandInv /\ [Next]_vars => CommandInv'
  <2> SUFFICES ASSUME CommandInv, [Next]_vars PROVE CommandInv'
    OBVIOUS
  <2> USE DEF history
  <2>1. ASSUME NEW c \in Commands, Invoke(c) PROVE CommandInv'
    <3>1. WellFormed(cmd')
      BY <2>1, CommandsAssumption, ConfiguredWellFormed DEF Invoke
    <3>2. Shaped(todo') /\ Shaped(err')
      BY <2>1, WhenShaped DEF Invoke, When
    <3> QED BY <2>1, <3>1, <3>2, BeforeEffects DEF Invoke
  <2>2. CASE Configure
    <3>1. CASE UNCHANGED cmd /\ Prints("completions")
      BY <3>1, PrintsKeeps
    <3>2. CASE UNCHANGED cmd /\ Prints("configuration")
      BY <3>2, PrintsKeeps
    <3>3. CASE UNCHANGED cmd /\ Fail(ExitUsage)
      BY <3>3, FailKeeps
    <3>4. CASE /\ pc' = "resolve" /\ UNCHANGED <<todo, err>>
               /\ \E config : cmd' = Configured(cmd, config)
      <4>1. WellFormed(cmd')
        BY <3>4, ConfiguredWellFormed DEF CommandInv, WellFormed, InPlace
      <4> QED BY <3>4, <4>1, BeforeEffects DEF CommandInv
    <3> QED BY <2>2, <3>1, <3>2, <3>3, <3>4 DEF Configure
  <2>3. CASE Explain
    BY <2>3, FailKeeps, PrintsKeeps DEF Explain
  <2>4. CASE Resolve
    <3>1. CASE UNCHANGED cmd /\ Fail(ExitUsage)
      BY <3>1, FailKeeps
    <3>2. CASE /\ pc' = "load" /\ UNCHANGED <<todo, err>>
               /\ \E args : cmd' = [cmd EXCEPT !.args = args]
      <4>1. PICK args : cmd' = [cmd EXCEPT !.args = args]
        BY <3>2
      <4>2. cmd' = [kind |-> cmd.kind, mode |-> cmd.mode, stdin |-> cmd.stdin,
                    given |-> cmd.given, args |-> args, models |-> cmd.models,
                    policy |-> cmd.policy, strict |-> cmd.strict, quiet |-> cmd.quiet,
                    sarif |-> cmd.sarif]
        BY <4>1 DEF CommandInv, WellFormed
      <4>3. WellFormed(cmd')
        BY <4>2 DEF CommandInv, WellFormed, InPlace
      <4> QED BY <3>2, <4>3, BeforeEffects DEF CommandInv
    <3>3. (UNCHANGED cmd /\ Fail(ExitUsage))
            \/ (/\ pc' = "load" /\ UNCHANGED <<todo, err>>
                /\ cmd' = [cmd EXCEPT !.args = Expanded(cmd.args)])
      BY <2>4 DEF Resolve
    <3> QED BY <3>1, <3>2, <3>3
  <2>5. CASE Load
    <3>1. CASE \E status : Fail(status) /\ UNCHANGED cmd
      BY <3>1, FailKeeps
    <3>2. CASE pc' = "load" /\ UNCHANGED <<cmd, todo, err>>
      BY <3>2, BeforeEffects DEF CommandInv
    <3> QED BY <2>5, <3>1, <3>2 DEF Load, Loading
  <2>6. CASE Analyse
    <3>1. CASE \E status : Fail(status) /\ UNCHANGED cmd
      BY <3>1, FailKeeps
    <3>2. CASE \E plan \in Plans(cmd, store, again) :
                 /\ pc' = "perform" /\ todo' = plan.todo /\ verdict' = plan.exit
                 /\ UNCHANGED <<cmd, store, err>>
      <4>1. PICK plan \in Plans(cmd, store, again) :
              /\ pc' = "perform" /\ todo' = plan.todo /\ verdict' = plan.exit
              /\ UNCHANGED <<cmd, store, err>>
        BY <3>2
      <4>2. GoodPlan(cmd, store, plan)
        BY PlansGood DEF CommandInv
      <4>3. SoundEffects(cmd', store', todo') /\ Shaped(todo')
        BY <4>1, <4>2 DEF GoodPlan
      <4>4. ReasonPlanned'
        BY <4>1, <4>2 DEF GoodPlan, ReasonPlanned
      <4> QED BY <4>1, <4>3, <4>4 DEF CommandInv, WritesPlanned, RefusalExplained
    <3> QED BY <2>6, <3>1, <3>2 DEF Analyse
  <2>7. CASE Emit
    <3>1. Shaped(err') /\ (err # <<>> => err' # <<>>) /\ (Head(todo).to = "stderr" => err' # <<>>)
      <4>1. CASE Performs("stdout") /\ UNCHANGED err
        BY <4>1 DEF Performs, CommandInv
      <4>2. CASE Performs("stderr") /\ err' = Append(err, Head(todo))
        BY <4>2, AppendShaped DEF CommandInv
      <4> QED BY <2>7, <4>1, <4>2 DEF Emit
    <3> QED BY <2>7, <3>1, OneEffectLess DEF Emit, Performs
  <2>8. CASE InstallAll
    <3>1. CASE Fail(ExitInternal) /\ UNCHANGED cmd
      BY <3>1, FailKeeps
    <3>2. CASE todo' = Tail(todo) /\ UNCHANGED <<pc, cmd, store, verdict, err>>
      BY <2>8, <3>2, OneEffectLess DEF InstallAll, Performs, CommandInv
    <3> QED BY <2>8, <3>1, <3>2 DEF InstallAll
  <2>9. CASE StartRelint
    <3>1. Shaped(todo')
      BY <2>9, WhenShaped DEF StartRelint, When
    <3> QED BY <2>9, <3>1, BeforeEffects DEF StartRelint, CommandInv
  <2>10. CASE Exit
    <3>1. RefusalExplained'
      <4>1. ToSet(<<>>) = {}
        BY DEF ToSet
      <4>2. ~Announces(todo)
        BY <2>10, <4>1 DEF Exit, Announces
      <4> QED BY <2>10, <4>2 DEF Exit, CommandInv, ReasonPlanned, RefusalExplained
    <3> QED BY <2>10, <3>1 DEF Exit, CommandInv, WritesPlanned, ReasonPlanned
  <2>11. ASSUME NEW f \in Files, NEW t \in EditTexts, Edit(f, t) PROVE CommandInv'
    BY <2>11 DEF Edit, CommandInv, WritesPlanned, ReasonPlanned, RefusalExplained
  <2>12. CASE Fault
    BY <2>12, FailKeeps DEF Fault
  <2>13. CASE UNCHANGED vars
    BY <2>13 DEF vars, CommandInv, WritesPlanned, ReasonPlanned, RefusalExplained
  <2> QED BY <2>1, <2>2, <2>3, <2>4, <2>5, <2>6, <2>7, <2>8, <2>9, <2>10, <2>11, <2>12, <2>13
          DEF Next, Process
<1> QED BY <1>1, <1>2, PTL DEF Spec

\* A command that rewrites files says on standard error why its status is not zero,
\* whatever the policy hides (blocked_write_message, main).
THEOREM FailuresAreExplained == Spec => []RefusalExplained
<1>1. CommandInv => RefusalExplained
  BY DEF CommandInv
<1> QED BY <1>1, CommandInvariant, PTL

\* A command replaces a file only by what it makes of the text that the file holds
\* then, and never a text that needed recovery (has_recovery_diagnostics,
\* finish_format, fix_replacements, replace_all).
THEOREM WritesAreSound == Spec => SafeToWrite
<1> DEFINE Safe == disk' # disk /\ Performs("files") /\ (todo' # todo \/ pc' # pc) =>
             /\ \A f \in Files :
                  disk'[f] # disk[f] => "recovery" \notin disk[f] /\ disk'[f] = Outcome(cmd, disk[f])
             /\ cmd.kind = "fmt" => \A n \in 1..Len(store) : "recovery" \notin store[n]
<1>1. CommandInv /\ [Next]_vars => [Safe]_vars
  <2> SUFFICES ASSUME CommandInv, Next, disk' # disk, Performs("files"),
                      todo' # todo \/ pc' # pc
               PROVE  /\ \A f \in Files :
                           disk'[f] # disk[f] =>
                             "recovery" \notin disk[f] /\ disk'[f] = Outcome(cmd, disk[f])
                      /\ cmd.kind = "fmt" => \A n \in 1..Len(store) : "recovery" \notin store[n]
    OBVIOUS
  <2> DEFINE files == Head(todo).files
  <2>1. disk' = Installed(files) /\ StillAsRead(files)
    <3>1. pc = "perform" /\ todo # <<>> /\ Head(todo).to = "files"
      BY DEF Performs
    <3>2. CASE InstallAll
      BY <3>2 DEF InstallAll
    <3>3. CASE Fault
      BY <3>3 DEF Fault
    <3>4. ASSUME NEW c \in Commands PROVE ~Invoke(c)
      BY <3>1 DEF Invoke
    <3>5. ASSUME NEW f \in Files, NEW t \in EditTexts PROVE ~Edit(f, t)
      BY DEF Edit
    <3>6. ~Configure /\ ~Explain /\ ~Resolve /\ ~Load /\ ~Analyse
      BY <3>1 DEF Configure, Explain, Resolve, Load, Loading, Analyse, Loaded
    <3>7. ~Emit /\ ~StartRelint /\ ~Exit
      BY <3>1 DEF Emit, StartRelint, Exit, Performs
    <3> QED BY <3>2, <3>3, <3>4, <3>5, <3>6, <3>7 DEF Next, Process
  <2>2. Sound(cmd, store, files)
    <3>1. Head(todo) \in ToSet(todo)
      BY TailShaped DEF CommandInv, Performs
    <3> QED BY <3>1 DEF CommandInv, WritesPlanned, SoundEffects, Performs
  <2>3. ASSUME NEW f \in Files, disk'[f] # disk[f]
        PROVE  "recovery" \notin disk[f] /\ disk'[f] = Outcome(cmd, disk[f])
    <3> DEFINE here == {r \in files : Key(r.name) = f}
    <3>1. disk'[f] = IF here = {} THEN disk[f] ELSE (CHOOSE r \in here : TRUE).after
      BY <2>1 DEF Installed
    <3>2. here # {}
      BY <2>3, <3>1
    <3>3. PICK r \in here : disk'[f] = r.after
      <4> HIDE DEF here
      <4> QED BY <3>1, <3>2
    <3>4. disk[f] = r.before
      BY <2>1 DEF StillAsRead
    <3> QED BY <2>2, <3>3, <3>4 DEF Sound
  <2> QED BY <2>2, <2>3 DEF Sound
<1> QED BY <1>1, CommandInvariant, PTL DEF Spec, SafeToWrite

-----------------------------------------------------------------------------
(* The sum of the layers of a configuration *)

\* The recursive definition of Sums has a solution, so that it defines it.
LEMMA SumsDefined ==
  ASSUME NEW layers, Len(layers) \in Nat
  PROVE  Sums(layers) = [n \in 0..Len(layers) |->
           IF n = 0 THEN Resolution(NoFault, Defaults)
           ELSE ApplyLayer(Sums(layers)[n - 1], layers[n])]
<1> DEFINE c == Resolution(NoFault, Defaults)
           Solves(f, m) == f = [n \in 0..m |-> IF n = 0 THEN c ELSE ApplyLayer(f[n - 1], layers[n])]
<1> HIDE DEF c
<1>1. PICK S : S = {m \in Nat : \E f : Solves(f, m)}
  OBVIOUS
<1>2. 0 \in S
  <2>1. PICK f : f = [n \in 0..0 |-> c]
    OBVIOUS
  <2>2. Solves(f, 0)
    BY <2>1
  <2> QED BY <1>1, <2>2
<1>3. ASSUME NEW m \in Nat, m \in S PROVE m + 1 \in S
  <2>1. PICK f : Solves(f, m)
    BY <1>1, <1>3
  <2>2. PICK g : g = [n \in 0..(m + 1) |-> IF n = m + 1 THEN ApplyLayer(f[m], layers[n]) ELSE f[n]]
    OBVIOUS
  <2>3. \A n \in 0..m : g[n] = f[n]
    BY <2>2
  <2>4. ASSUME NEW n \in 0..(m + 1)
        PROVE  g[n] = IF n = 0 THEN c ELSE ApplyLayer(g[n - 1], layers[n])
    <3>1. CASE n = m + 1
      <4>1. n # 0 /\ n - 1 = m /\ m \in 0..m
        BY <3>1
      <4> QED BY <2>2, <2>3, <3>1, <4>1
    <3>2. CASE n \in 1..m
      <4>1. n \in 0..m /\ n - 1 \in 0..m /\ n # 0
        BY <3>2
      <4> QED BY <2>1, <2>3, <4>1
    <3>3. CASE n = 0
      <4>1. n \in 0..m
        BY <3>3
      <4> QED BY <2>1, <2>3, <3>3, <4>1
    <3> QED BY <3>1, <3>2, <3>3
  <2>5. Solves(g, m + 1)
    BY <2>2, <2>4
  <2> QED BY <1>1, <2>5
<1>4. Len(layers) \in S
  <2>1. \A n \in 0..(Len(layers) - 1) : n \in S => n + 1 \in S
    BY <1>3
  <2>2. \A n \in 0..Len(layers) : n \in S
    BY <1>2, <2>1, UpTo
  <2>3. Len(layers) \in 0..Len(layers)
    OBVIOUS
  <2> QED BY <2>2, <2>3
<1>5. \E f : Solves(f, Len(layers))
  BY <1>1, <1>4
<1> QED BY <1>5 DEF Sums, c

\* The sum goes layer by layer.
LEMMA SumSteps ==
  ASSUME NEW layers, Len(layers) \in Nat
  PROVE  /\ Sums(layers)[0] = Resolution(NoFault, Defaults)
         /\ \A n \in 0..(Len(layers) - 1) :
              Sums(layers)[n + 1] = ApplyLayer(Sums(layers)[n], layers[n + 1])
<1>1. PICK sum : sum = Sums(layers)
  OBVIOUS
<1>2. sum = [n \in 0..Len(layers) |->
               IF n = 0 THEN Resolution(NoFault, Defaults) ELSE ApplyLayer(sum[n - 1], layers[n])]
  BY <1>1, SumsDefined
<1>3. 0 \in 0..Len(layers)
  OBVIOUS
<1>4. ASSUME NEW n \in 0..(Len(layers) - 1)
      PROVE  sum[n + 1] = ApplyLayer(sum[n], layers[n + 1])
  <2>1. n + 1 \in 0..Len(layers) /\ n + 1 # 0 /\ (n + 1) - 1 = n
    OBVIOUS
  <2> QED BY <1>2, <2>1
<1> QED BY <1>1, <1>2, <1>3, <1>4

\* What one layer that is read and applied without fault does.
LEMMA OneLayer ==
  ASSUME NEW resolved, NEW stated, ApplyLayer(resolved, stated).error = NoFault
  PROVE  /\ resolved.error = NoFault /\ stated.error = NoFault
         /\ ApplyLayer(resolved, stated).config
              = [s \in Settings |->
                   IF s \in DOMAIN stated.layer THEN stated.layer[s] ELSE resolved.config[s]]
<1>1. resolved.error = NoFault
  BY DEF ApplyLayer
<1>2. stated.error = NoFault
  BY <1>1 DEF ApplyLayer, Resolution
<1> QED BY <1>1, <1>2 DEF ApplyLayer, Resolution

\* A fault stays: if there is none at the end there never was one.
LEMMA NoFaultBefore ==
  ASSUME NEW layers, Len(layers) \in Nat, Sums(layers)[Len(layers)].error = NoFault
  PROVE  /\ \A n \in 0..Len(layers) : Sums(layers)[n].error = NoFault
         /\ \A n \in 1..Len(layers) : layers[n].error = NoFault
<1>1. PICK S : S = {k \in Nat : k <= Len(layers) /\ Sums(layers)[Len(layers) - k].error = NoFault}
  OBVIOUS
<1>2. 0 \in S
  BY <1>1
<1>3. ASSUME NEW k \in 0..(Len(layers) - 1), k \in S PROVE k + 1 \in S
  <2>1. PICK n \in 0..(Len(layers) - 1) : n = Len(layers) - (k + 1) /\ n + 1 = Len(layers) - k
    <3>1. PICK n : n = Len(layers) - (k + 1)
      OBVIOUS
    <3>2. n \in 0..(Len(layers) - 1) /\ n + 1 = Len(layers) - k
      BY <3>1
    <3> QED BY <3>1, <3>2
  <2>2. Sums(layers)[n + 1].error = NoFault
    BY <1>1, <1>3, <2>1
  <2>3. ApplyLayer(Sums(layers)[n], layers[n + 1]).error = NoFault
    BY <2>2, SumSteps
  <2>4. Sums(layers)[n].error = NoFault
    BY <2>3, OneLayer
  <2> QED BY <1>1, <2>1, <2>4
<1>4. \A k \in 0..Len(layers) : k \in S
  BY <1>2, <1>3, UpTo
<1>5. ASSUME NEW n \in 0..Len(layers) PROVE Sums(layers)[n].error = NoFault
  <2>1. PICK k \in 0..Len(layers) : n = Len(layers) - k
    <3>1. Len(layers) - n \in 0..Len(layers) /\ n = Len(layers) - (Len(layers) - n)
      OBVIOUS
    <3> QED BY <3>1
  <2> QED BY <1>1, <1>4, <2>1
<1>6. ASSUME NEW n \in 1..Len(layers) PROVE layers[n].error = NoFault
  <2>1. PICK k \in 0..(Len(layers) - 1) : n = k + 1
    <3>1. n - 1 \in 0..(Len(layers) - 1) /\ n = (n - 1) + 1
      OBVIOUS
    <3> QED BY <3>1
  <2>2. n \in 0..Len(layers)
    OBVIOUS
  <2>3. ApplyLayer(Sums(layers)[k], layers[n]).error = NoFault
    BY <1>5, <2>1, <2>2, SumSteps
  <2> QED BY <2>3, OneLayer
<1> QED BY <1>5, <1>6

\* The value of a setting after n layers is what the last of them that states it says.
LastOf(layers, s, n, value) ==
  \/ value = Defaults[s] /\ \A i \in 1..n : s \notin DOMAIN layers[i].layer
  \/ \E i \in 1..n :
       /\ s \in DOMAIN layers[i].layer /\ value = layers[i].layer[s]
       /\ \A j \in (i + 1)..n : s \notin DOMAIN layers[j].layer

\* Without a fault, the sum has of every setting what the last layer says of it.
LEMMA SumIsLast ==
  ASSUME NEW layers, Len(layers) \in Nat, Sums(layers)[Len(layers)].error = NoFault,
         NEW s \in Settings
  PROVE  LastOf(layers, s, Len(layers), Sums(layers)[Len(layers)].config[s])
<1>1. PICK S : S = {n \in Nat : n <= Len(layers) => LastOf(layers, s, n, Sums(layers)[n].config[s])}
  OBVIOUS
<1>2. 0 \in S
  <2>1. Sums(layers)[0].config[s] = Defaults[s]
    BY SumSteps DEF Resolution
  <2> QED BY <1>1, <2>1 DEF LastOf
<1>3. ASSUME NEW n \in 0..(Len(layers) - 1), n \in S PROVE n + 1 \in S
  <2>1. n + 1 \in 0..Len(layers) /\ n + 1 \in Nat /\ n \in Nat /\ n <= Len(layers)
    OBVIOUS
  <2>2. PICK before : before = Sums(layers)[n].config[s]
    OBVIOUS
  <2>3. PICK after : after = Sums(layers)[n + 1].config[s]
    OBVIOUS
  <2>4. LastOf(layers, s, n, before)
    BY <1>1, <1>3, <2>1, <2>2
  <2>5. after = IF s \in DOMAIN layers[n + 1].layer THEN layers[n + 1].layer[s] ELSE before
    <3>1. ApplyLayer(Sums(layers)[n], layers[n + 1]).error = NoFault
      BY <2>1, SumSteps, NoFaultBefore
    <3>2. ApplyLayer(Sums(layers)[n], layers[n + 1]).config
            = [x \in Settings |->
                 IF x \in DOMAIN layers[n + 1].layer THEN layers[n + 1].layer[x]
                 ELSE Sums(layers)[n].config[x]]
      BY <3>1, OneLayer
    <3>3. after = ApplyLayer(Sums(layers)[n], layers[n + 1]).config[s]
      BY <2>3, SumSteps
    <3> QED BY <2>2, <3>2, <3>3
  <2>6. LastOf(layers, s, n + 1, after)
    <3>1. CASE s \in DOMAIN layers[n + 1].layer
      <4>1. n + 1 \in 1..(n + 1) /\ \A j \in ((n + 1) + 1)..(n + 1) : FALSE
        BY <2>1
      <4> QED BY <2>5, <3>1, <4>1 DEF LastOf
    <3>2. CASE s \notin DOMAIN layers[n + 1].layer
      <4>1. after = before
        BY <2>5, <3>2
      <4>2. \A i \in 1..(n + 1) : i \in 1..n \/ i = n + 1
        BY <2>1
      <4>3. CASE before = Defaults[s] /\ \A i \in 1..n : s \notin DOMAIN layers[i].layer
        BY <3>2, <4>1, <4>2, <4>3 DEF LastOf
      <4>4. ASSUME NEW i \in 1..n, s \in DOMAIN layers[i].layer, before = layers[i].layer[s],
                   \A j \in (i + 1)..n : s \notin DOMAIN layers[j].layer
            PROVE  LastOf(layers, s, n + 1, after)
        <5>1. i \in 1..(n + 1)
          BY <2>1
        <5>2. \A j \in (i + 1)..(n + 1) : j \in (i + 1)..n \/ j = n + 1
          BY <2>1
        <5>3. \A j \in (i + 1)..(n + 1) : s \notin DOMAIN layers[j].layer
          BY <5>2, <4>4, <3>2
        <5> QED BY <4>1, <4>4, <5>1, <5>3 DEF LastOf
      <4> QED BY <2>4, <4>3, <4>4 DEF LastOf
    <3> QED BY <3>1, <3>2
  <2> QED BY <1>1, <2>1, <2>3, <2>6
<1>4. \A n \in 0..Len(layers) : n \in S
  BY <1>2, <1>3, UpTo
<1>5. Len(layers) \in 0..Len(layers) /\ Len(layers) <= Len(layers)
  OBVIOUS
<1>6. Len(layers) \in S
  BY <1>4, <1>5
<1> QED BY <1>1, <1>5, <1>6

-----------------------------------------------------------------------------
(* The configuration a command runs with *)

\* The layers of an invocation, above the defaults.
LEMMA LayersShape ==
  ASSUME NEW given
  PROVE  /\ Len(Layers(given)) \in Nat
         /\ LET ranked == <<Stated(Defaults)>> \o Layers(given) IN
              /\ Len(ranked) = Len(Layers(given)) + 1
              /\ ranked[1] = Stated(Defaults)
              /\ \A i \in 1..Len(Layers(given)) : ranked[i + 1] = Layers(given)[i]
<1>1. \E S : Layers(given) \in Seq(S)
  <2>1. PICK files : files = [i \in 1..Len(ConfigFiles(given)) |-> FileLayer(given, ConfigFiles(given)[i])]
    OBVIOUS
  <2>2. Len(ConfigFiles(given)) \in Nat
    <3>1. PICK near : near = given.ancestors[Min(Discovered(given))]
      OBVIOUS
    <3>2. PICK D : D = {given.user, given.config, near}
      OBVIOUS
    <3>3. <<>> \in Seq(D) /\ <<given.user>> \in Seq(D) /\ <<given.config>> \in Seq(D) /\ <<near>> \in Seq(D)
      BY <3>2
    <3>4. UserConfig(given) \in Seq(D)
      BY <3>3 DEF UserConfig
    <3>5. RepositoryConfig(given) \in Seq(D)
      BY <3>1, <3>3 DEF RepositoryConfig
    <3>6. UserConfig(given) \o RepositoryConfig(given) \in Seq(D)
      BY <3>4, <3>5
    <3>7. ConfigFiles(given) \in Seq(D)
      BY <3>3, <3>6 DEF ConfigFiles
    <3> QED BY <3>7
  <2>3. PICK E : E = {FileLayer(given, ConfigFiles(given)[i]) : i \in 1..Len(ConfigFiles(given))}
                      \cup {EnvironmentLayer(given), FlagLayer(given)}
    OBVIOUS
  <2>4. files \in [1..Len(ConfigFiles(given)) -> E]
    BY <2>1, <2>3
  <2>5. files \in Seq(E)
    BY <2>2, <2>4
  <2>6. <<EnvironmentLayer(given), FlagLayer(given)>> \in Seq(E)
    BY <2>3
  <2>7. Layers(given) = files \o <<EnvironmentLayer(given), FlagLayer(given)>>
    BY <2>1 DEF Layers
  <2> QED BY <2>5, <2>6, <2>7
<1>2. PICK S : Layers(given) \in Seq(S) /\ Stated(Defaults) \in S
  <2>1. PICK S : Layers(given) \in Seq(S)
    BY <1>1
  <2>2. Layers(given) \in Seq(S \cup {Stated(Defaults)})
    BY <2>1
  <2> QED BY <2>2
<1>3. PICK layers : layers = Layers(given)
  OBVIOUS
<1>4. <<Stated(Defaults)>> \in Seq(S) /\ layers \in Seq(S)
  BY <1>2, <1>3
<1>5. /\ Len(layers) \in Nat
      /\ Len(<<Stated(Defaults)>> \o layers) = Len(layers) + 1
      /\ (<<Stated(Defaults)>> \o layers)[1] = Stated(Defaults)
      /\ \A i \in 1..Len(layers) : (<<Stated(Defaults)>> \o layers)[i + 1] = layers[i]
  BY <1>4
<1> QED BY <1>3, <1>5

\* Of the layers that state a setting, Ruling takes the last one.
LEMMA RulingIsLast ==
  ASSUME Sums(Layers(cmd.given))[Len(Layers(cmd.given))].error = NoFault, NEW s \in Settings
  PROVE  Ruling(s) = Sums(Layers(cmd.given))[Len(Layers(cmd.given))].config[s]
<1>1. PICK layers : layers = Layers(cmd.given)
  OBVIOUS
<1>2. PICK value : value = Sums(layers)[Len(layers)].config[s]
  OBVIOUS
<1>3. PICK ranked : ranked = Ranked
  OBVIOUS
<1>4. /\ Len(layers) \in Nat /\ Len(ranked) = Len(layers) + 1
      /\ ranked[1] = Stated(Defaults)
      /\ \A i \in 1..Len(layers) : ranked[i + 1] = layers[i]
  BY <1>1, <1>3, LayersShape DEF Ranked
<1>5. LastOf(layers, s, Len(layers), value)
  BY <1>1, <1>2, <1>4, SumIsLast
<1>6. PICK T : T = {i \in 1..Len(ranked) : s \in DOMAIN ranked[i].layer}
  OBVIOUS
<1>7. 1 \in T /\ ranked[1].layer[s] = Defaults[s]
  BY <1>4, <1>6 DEF Stated, Settings, Parsed, PolicyLists, Defaults
<1>8. \A k \in T : k = 1 \/ (k - 1 \in 1..Len(layers) /\ s \in DOMAIN layers[k - 1].layer)
  <2> SUFFICES ASSUME NEW k \in T, k # 1
               PROVE  k - 1 \in 1..Len(layers) /\ s \in DOMAIN layers[k - 1].layer
    OBVIOUS
  <2>1. k \in 1..(Len(layers) + 1)
    BY <1>4, <1>6
  <2>2. k - 1 \in 1..Len(layers) /\ (k - 1) + 1 = k
    BY <1>4, <2>1
  <2>3. ranked[k] = layers[k - 1]
    BY <1>4, <2>2
  <2> QED BY <1>6, <2>2, <2>3
<1>9. \E m \in T : (\A k \in T : k <= m) /\ ranked[m].layer[s] = value
  <2>1. CASE value = Defaults[s] /\ \A i \in 1..Len(layers) : s \notin DOMAIN layers[i].layer
    <3>1. \A k \in T : k = 1
      BY <1>8, <2>1
    <3> QED BY <1>7, <2>1, <3>1
  <2>2. ASSUME NEW i \in 1..Len(layers), s \in DOMAIN layers[i].layer, value = layers[i].layer[s],
               \A j \in (i + 1)..Len(layers) : s \notin DOMAIN layers[j].layer
        PROVE  \E m \in T : (\A k \in T : k <= m) /\ ranked[m].layer[s] = value
    <3>1. i + 1 \in 1..Len(ranked) /\ ranked[i + 1] = layers[i]
      BY <1>4
    <3>2. i + 1 \in T /\ ranked[i + 1].layer[s] = value
      BY <1>6, <2>2, <3>1
    <3>3. ASSUME NEW k \in T PROVE k <= i + 1
      <4>1. k \in Nat
        BY <1>6, <1>4
      <4>2. CASE k - 1 \in 1..Len(layers) /\ s \in DOMAIN layers[k - 1].layer
        <5>1. k - 1 \notin (i + 1)..Len(layers)
          BY <2>2, <4>2
        <5> QED BY <1>4, <4>1, <4>2, <5>1
      <4> QED BY <1>8, <4>1, <4>2
    <3> QED BY <3>2, <3>3
  <2> QED BY <1>5, <2>1, <2>2 DEF LastOf
<1>10. T \subseteq Nat
  BY <1>4, <1>6
<1>11. PICK m \in T : (\A k \in T : k <= m) /\ ranked[m].layer[s] = value
  BY <1>9
<1>12. Max(T) = m
  <2>1. \A x \in T : (\A y \in T : x >= y) => x = m
    BY <1>10, <1>11
  <2>2. \A y \in T : m >= y
    BY <1>10, <1>11
  <2> QED BY <2>1, <2>2, <1>11 DEF Max
<1>13. Ruling(s) = ranked[Max(T)].layer[s]
  BY <1>3, <1>6 DEF Ruling
<1> QED BY <1>1, <1>2, <1>11, <1>12, <1>13

\* Damage to a file that is not among the layers leaves the layers as they are.
LEMMA HiddenIsUnread ==
  ASSUME NEW c \in Commands, NEW given, given = c.given, NEW d \in DOMAIN given.files,
         IsFile(given, d), d \notin ToSet(ConfigFiles(given))
  PROVE  ResolveConfig([given EXCEPT !.files[d] = Damaged]) = ResolveConfig(given)
<1>1. PICK damaged : damaged = [given EXCEPT !.files[d] = Damaged]
  OBVIOUS
<1>2. /\ DOMAIN given = {"args", "noConfig", "print", "config", "flags", "user", "ancestors",
                         "files", "env", "garbled"}
      /\ {given.user, given.config} \subseteq DOMAIN given.files \cup {None}
      /\ given.ancestors \in Seq(DOMAIN given.files)
  BY GivenAssumption
<1>3. /\ damaged.noConfig = given.noConfig /\ damaged.config = given.config
      /\ damaged.flags = given.flags /\ damaged.user = given.user
      /\ damaged.ancestors = given.ancestors /\ damaged.env = given.env
      /\ damaged.garbled = given.garbled
      /\ damaged.files = [given.files EXCEPT ![d] = Damaged]
  BY <1>1, <1>2
<1>4. \A x \in DOMAIN given.files :
        /\ IsFile(damaged, x) <=> IsFile(given, x)
        /\ x # d => damaged.files[x] = given.files[x]
  BY <1>3 DEF IsFile, Damaged
<1>5. UserConfig(damaged) = UserConfig(given)
  BY <1>2, <1>3, <1>4 DEF UserConfig
<1>6. Discovered(damaged) = Discovered(given)
  <2>1. \A i \in 1..Len(given.ancestors) : given.ancestors[i] \in DOMAIN given.files
    BY <1>2
  <2> QED BY <1>3, <1>4, <2>1 DEF Discovered
<1>7. RepositoryConfig(damaged) = RepositoryConfig(given)
  BY <1>3, <1>6 DEF RepositoryConfig
<1>8. ConfigFiles(damaged) = ConfigFiles(given)
  BY <1>3, <1>5, <1>7 DEF ConfigFiles
<1>9. ASSUME NEW x \in DOMAIN given.files, x # d
      PROVE  FileLayer(damaged, x) = FileLayer(given, x)
  BY <1>4, <1>9 DEF FileLayer
<1>10. ConfigFiles(given) \in Seq(DOMAIN given.files)
  <2>1. PICK D : D = DOMAIN given.files
    OBVIOUS
  <2>2. /\ given.user # None => given.user \in D
        /\ given.config # None => given.config \in D
        /\ given.ancestors \in Seq(D)
    BY <1>2, <2>1
  <2>3. <<>> \in Seq(D) /\ \A x \in D : <<x>> \in Seq(D)
    OBVIOUS
  <2>4. UserConfig(given) \in Seq(D)
    BY <2>2, <2>3 DEF UserConfig
  <2>5. Discovered(given) # {} => given.ancestors[Min(Discovered(given))] \in D
    <3> SUFFICES ASSUME Discovered(given) # {}
                 PROVE  given.ancestors[Min(Discovered(given))] \in D
      OBVIOUS
    <3>1. Discovered(given) \subseteq Nat
      BY DEF Discovered
    <3>2. Min(Discovered(given)) \in Discovered(given)
      BY <3>1, Least DEF Min
    <3>3. Min(Discovered(given)) \in 1..Len(given.ancestors)
      BY <3>2 DEF Discovered
    <3> QED BY <2>2, <3>3
  <2>6. RepositoryConfig(given) \in Seq(D)
    BY <2>2, <2>3, <2>5 DEF RepositoryConfig
  <2>7. UserConfig(given) \o RepositoryConfig(given) \in Seq(D)
    BY <2>4, <2>6
  <2> QED BY <2>1, <2>3, <2>7 DEF ConfigFiles
<1>11. \A i \in 1..Len(ConfigFiles(given)) :
         ConfigFiles(given)[i] \in DOMAIN given.files /\ ConfigFiles(given)[i] # d
  BY <1>10 DEF ToSet
<1>12. EnvironmentLayer(damaged) = EnvironmentLayer(given) /\ FlagLayer(damaged) = FlagLayer(given)
  BY <1>3 DEF EnvironmentLayer, FlagLayer
<1>13. \A i \in 1..Len(ConfigFiles(given)) :
         FileLayer(damaged, ConfigFiles(damaged)[i]) = FileLayer(given, ConfigFiles(given)[i])
  BY <1>8, <1>9, <1>11
<1>14. Layers(damaged) = Layers(given)
  BY <1>8, <1>12, <1>13 DEF Layers
<1> QED BY <1>1, <1>14 DEF ResolveConfig

\* A command that is configured has the sum of its layers.
Given == \E c \in Commands : cmd.given = c.given
ConfigInv ==
  /\ Given
  /\ pc = "configure" => cmd.args = cmd.given.args
  /\ pc = "resolve" =>
       /\ ResolveConfig(cmd.given).error = NoFault
       /\ cmd = Configured(cmd, ResolveConfig(cmd.given).config)

\* It is set by Configure and lasts until the inputs are resolved.
LEMMA ConfigInvariant == Spec => []ConfigInv
<1>1. Init => ConfigInv
  <2> SUFFICES ASSUME Init PROVE ConfigInv
    OBVIOUS
  <2>1. PICK c \in Commands : cmd = Configured(c, Defaults)
    BY CommandsAssumption DEF Init
  <2>2. cmd.given = c.given
    BY <2>1 DEF Configured
  <2>3. pc = "idle"
    BY DEF Init
  <2> QED BY <2>2, <2>3 DEF ConfigInv, Given
<1>2. ConfigInv /\ [Next]_vars => ConfigInv'
  <2> SUFFICES ASSUME ConfigInv, [Next]_vars PROVE ConfigInv'
    OBVIOUS
  <2>1. ASSUME NEW c \in Commands, Invoke(c) PROVE ConfigInv'
    BY <2>1 DEF Invoke, ConfigInv, Given, Configured
  <2>2. CASE Configure
    <3>1. CASE UNCHANGED cmd /\ pc' \notin {"configure", "resolve"}
      BY <3>1 DEF ConfigInv, Given
    <3>2. CASE /\ pc' = "resolve" /\ ResolveConfig(cmd.given).error = NoFault
               /\ cmd' = Configured(cmd, ResolveConfig(cmd.given).config)
      <4>1. cmd'.given = cmd.given /\ cmd' = Configured(cmd', ResolveConfig(cmd'.given).config)
        BY <3>2 DEF Configured
      <4> QED BY <3>2, <4>1 DEF ConfigInv, Given
    <3> QED BY <2>2, <3>1, <3>2 DEF Configure, Prints, Fail
  <2>3. CASE Resolve
    <3>1. cmd'.given = cmd.given /\ pc' \notin {"configure", "resolve"}
      <4>1. CASE UNCHANGED cmd /\ Fail(ExitUsage)
        BY <4>1 DEF Fail
      <4>2. CASE pc' = "load" /\ cmd' = [cmd EXCEPT !.args = Expanded(cmd.args)]
        BY <4>2
      <4> QED BY <2>3, <4>1, <4>2 DEF Resolve
    <3> QED BY <3>1 DEF ConfigInv, Given
  <2>4. CASE UNCHANGED cmd /\ (UNCHANGED pc \/ pc' \notin {"configure", "resolve"})
    BY <2>4 DEF ConfigInv, Given
  <2>5. CASE Explain \/ Load \/ Analyse \/ Emit \/ InstallAll \/ StartRelint \/ Exit \/ Fault
    BY <2>5, <2>4 DEF Explain, Load, Analyse, Emit, InstallAll, StartRelint, Exit, Fault, Fail, Prints
  <2>6. ASSUME NEW f \in Files, NEW t \in EditTexts, Edit(f, t) PROVE ConfigInv'
    BY <2>6, <2>4 DEF Edit
  <2>7. CASE UNCHANGED vars
    BY <2>7, <2>4 DEF vars
  <2> QED BY <2>1, <2>2, <2>3, <2>5, <2>6, <2>7 DEF Next, Process
<1> QED BY <1>1, <1>2, PTL DEF Spec

\* A command runs with what the highest layer that states a setting says of it, no
\* layer that counts was faulty, and what is hidden is not read, for every set of layers
\* (ConfigResolver::resolve, apply, discover_repository_config).
THEOREM HighestLayerWins == Spec => []HighestLayerRules
<1>1. ConfigInv => HighestLayerRules
  <2> SUFFICES ASSUME ConfigInv, pc = "resolve"
               PROVE  /\ \A i \in 1..Len(Ranked) : Ranked[i].error = NoFault
                      /\ cmd = Configured(cmd, [s \in DOMAIN Defaults |-> Ruling(s)])
                      /\ \A d \in Hidden :
                           ResolveConfig([cmd.given EXCEPT !.files[d] = Damaged])
                             = ResolveConfig(cmd.given)
    BY DEF HighestLayerRules
  <2>1. PICK layers : layers = Layers(cmd.given)
    OBVIOUS
  <2>2. PICK sum : sum = Sums(layers)[Len(layers)]
    OBVIOUS
  <2>3. /\ Len(layers) \in Nat /\ Len(Ranked) = Len(layers) + 1
        /\ Ranked[1] = Stated(Defaults)
        /\ \A i \in 1..Len(layers) : Ranked[i + 1] = layers[i]
    BY <2>1, LayersShape DEF Ranked
  <2>4. sum.error = NoFault /\ ResolveConfig(cmd.given).config = sum.config
    <3>1. ResolveConfig(cmd.given)
            = IF sum.error # NoFault THEN sum ELSE Resolution(PolicyFault(sum.config), sum.config)
      BY <2>1, <2>2 DEF ResolveConfig
    <3> QED BY <3>1 DEF ConfigInv, Resolution
  <2>5. ASSUME NEW i \in 1..Len(Ranked) PROVE Ranked[i].error = NoFault
    <3>1. CASE i = 1
      BY <3>1, <2>3 DEF Stated
    <3>2. CASE i # 1
      <4>1. i - 1 \in 1..Len(layers) /\ (i - 1) + 1 = i
        BY <2>3, <3>2
      <4>2. layers[i - 1].error = NoFault
        BY <2>2, <2>3, <2>4, <4>1, NoFaultBefore
      <4> QED BY <2>3, <4>1, <4>2
    <3> QED BY <3>1, <3>2
  <2>6. PICK config : config = [s \in DOMAIN Defaults |-> Ruling(s)]
    OBVIOUS
  <2>7. DOMAIN Defaults = Settings
    BY DEF Defaults, Settings, Parsed, PolicyLists
  <2>8. \A s \in Settings : config[s] = sum.config[s]
    BY <2>1, <2>2, <2>4, <2>6, <2>7, RulingIsLast
  <2>9. cmd = Configured(cmd, config)
    <3>1. \A s \in {"models", "strict", "quiet", "format"} \cup PolicyLists : config[s] = sum.config[s]
      BY <2>8 DEF Settings, Parsed
    <3>2. CompiledPolicy(config) = CompiledPolicy(sum.config)
      BY <3>1 DEF CompiledPolicy
    <3>3. Configured(cmd, config) = Configured(cmd, sum.config)
      BY <3>1, <3>2 DEF Configured
    <3> QED BY <2>4, <3>3 DEF ConfigInv
  <2>10. ASSUME NEW d \in Hidden
         PROVE  ResolveConfig([cmd.given EXCEPT !.files[d] = Damaged]) = ResolveConfig(cmd.given)
    BY HiddenIsUnread DEF Hidden, ConfigInv, Given
  <2> QED BY <2>5, <2>6, <2>9, <2>10
<1> QED BY <1>1, ConfigInvariant, PTL
-----------------------------------------------------------------------------
(* The status of a command that rewrites files *)

\* The command would leave every query of these texts as it is.
Settled(c, texts) ==
  \A n \in 1..Len(texts) : IsQuery(c, n) => Outcome(c, texts[n]) = texts[n]

\* The status of a check of these texts.
Status(c, texts) ==
  IF HasErrors(Diagnostics(c, texts)) \/ ~Settled(c, texts) THEN ExitActionable ELSE ExitSuccess

Rewrites(c) == c.kind \in {"fmt", "lint"}
AsCheck(c) == [c EXCEPT !.mode = "check"]

\* The mode of a command decides nothing about what it finds or makes of a text.
LEMMA ModeFindsTheSame ==
  ASSUME NEW c, WellFormed(c)
  PROVE  /\ AsCheck(c).mode = "check" /\ AsCheck(c).kind = c.kind /\ Models(AsCheck(c)) = Models(c)
         /\ \A texts : Diagnostics(AsCheck(c), texts) = Diagnostics(c, texts)
         /\ \A t : Outcome(AsCheck(c), t) = Outcome(c, t)
         /\ \A n : IsQuery(AsCheck(c), n) <=> IsQuery(c, n)
<1>1. PICK k : k = AsCheck(c)
  OBVIOUS
<1>2. /\ k.mode = "check" /\ k.kind = c.kind /\ k.models = c.models /\ k.policy = c.policy
      /\ k.strict = c.strict
  BY <1>1 DEF AsCheck, WellFormed
<1>3. Models(k) = Models(c)
  BY <1>2 DEF Models
<1>4. QueryCodes(k) = QueryCodes(c) /\ ModelCodes(k) = ModelCodes(c)
  BY <1>2, <1>3 DEF QueryCodes, ModelCodes
<1>5. \A n : IsQuery(k, n) <=> IsQuery(c, n)
  BY <1>3 DEF IsQuery
<1>6. \A f : Severity(k, f) = Severity(c, f)
  BY <1>2 DEF Severity
<1>7. \A fs : Apply(k, fs) = Apply(c, fs)
  BY <1>2, <1>6 DEF Apply
<1>8. \A n, t : Findings(k, n, t) = Findings(c, n, t)
  BY <1>4, <1>5 DEF Findings
<1>9. \A texts : Diagnostics(k, texts) = Diagnostics(c, texts)
  BY <1>7, <1>8 DEF Diagnostics
<1>10. \A t : Outcome(k, t) = Outcome(c, t)
  BY <1>2, <1>4, <1>7 DEF Outcome
<1> QED BY <1>1, <1>2, <1>3, <1>5, <1>9, <1>10

\* The fixes that lint applies to a text are the one of the missing date or none.
LEMMA FixedCodes ==
  ASSUME NEW c, NEW t, c.kind = "lint"
  PROVE  Outcome(c, t) =
           IF /\ "arity" \in t \cap QueryCodes(c) /\ "recovery" \notin t
              /\ ~Suppressed(c.policy, "arity")
           THEN t \ {"arity"} ELSE t
<1> DEFINE reported == {g \in Apply(c, Reports(QueryCodes(c), 0, t)) : g.fix}
<1>1. Outcome(c, t) = t \ {f.code : f \in reported}
  BY DEF Outcome
<1>2. \A g \in reported : /\ g.code = "arity" /\ "arity" \in t \cap QueryCodes(c)
                          /\ "recovery" \notin t /\ ~Suppressed(c.policy, "arity")
  BY KeptReports
<1>3. CASE /\ "arity" \in t \cap QueryCodes(c) /\ "recovery" \notin t
           /\ ~Suppressed(c.policy, "arity")
  <2>1. \E g \in reported : TRUE
    BY <1>3, KeptReports
  <2>2. {f.code : f \in reported} = {"arity"}
    BY <1>2, <2>1
  <2> QED BY <1>1, <1>3, <2>2
<1>4. CASE ~(/\ "arity" \in t \cap QueryCodes(c) /\ "recovery" \notin t
             /\ ~Suppressed(c.policy, "arity"))
  <2>1. reported = {}
    BY <1>2, <1>4
  <2>2. t \ {f.code : f \in reported} = t
    BY <2>1, Zenon
  <2> QED BY <1>1, <1>4, <2>2
<1> QED BY <1>3, <1>4

\* What a command makes of a text it would leave alone from then on, and takes
\* nothing out of it but what a layout or a fix changes.
LEMMA OutcomeIsFinal ==
  ASSUME NEW c, NEW t, Rewrites(c)
  PROVE  /\ Outcome(c, Outcome(c, t)) = Outcome(c, t)
         /\ \A x : x \notin {"layout", "arity"} => (x \in Outcome(c, t) <=> x \in t)
<1>1. CASE c.kind = "fmt"
  BY <1>1 DEF Outcome, Formatted
<1>2. CASE c.kind = "lint"
  <2>1. PICK u : u = Outcome(c, t)
    OBVIOUS
  <2>2. u = IF /\ "arity" \in t \cap QueryCodes(c) /\ "recovery" \notin t
               /\ ~Suppressed(c.policy, "arity")
            THEN t \ {"arity"} ELSE t
    BY <1>2, <2>1, FixedCodes
  <2>3. Outcome(c, u) = IF /\ "arity" \in u \cap QueryCodes(c) /\ "recovery" \notin u
                           /\ ~Suppressed(c.policy, "arity")
                        THEN u \ {"arity"} ELSE u
    BY <1>2, FixedCodes
  <2> QED BY <2>1, <2>2, <2>3
<1> QED BY <1>1, <1>2 DEF Rewrites

\* lint --fix makes of each query what its fixes make of it, and leaves the models.
LEMMA FixedIsOutcome ==
  ASSUME NEW c, NEW texts, NEW n \in 1..Len(texts), c.kind = "lint"
  PROVE  FixedTexts(c, texts)[n] = IF IsQuery(c, n) THEN Outcome(c, texts[n]) ELSE texts[n]
<1> DEFINE t == texts[n]
           fixes == {x \in Diagnostics(c, texts) : x.file = n /\ x.fix}
           codes == IF IsQuery(c, n) THEN QueryCodes(c) ELSE ModelCodes(c)
<1>1. FixedTexts(c, texts)[n] = t \ {d.code : d \in fixes}
  BY DEF FixedTexts
<1>2. \A d : d \in Diagnostics(c, texts) /\ d.file = n => d \in Apply(c, Reports(codes, n, t))
  <2> SUFFICES ASSUME NEW d \in Diagnostics(c, texts), d.file = n
               PROVE  d \in Apply(c, Reports(codes, n, t))
    OBVIOUS
  <2>1. PICK m \in 1..Len(texts) : d \in Apply(c, Findings(c, m, texts[m]))
    BY DEF Diagnostics
  <2>2. d.file = m
    BY <2>1, KeptReports DEF Findings
  <2> QED BY <2>1, <2>2 DEF Findings
<1>3. \A d \in fixes : /\ d.code = "arity" /\ "recovery" \notin t
                       /\ "arity" \in t \cap codes /\ ~Suppressed(c.policy, "arity")
  BY <1>2, KeptReports
<1>4. CASE "arity" \in t \cap codes /\ "recovery" \notin t /\ ~Suppressed(c.policy, "arity")
  <2>1. PICK d \in Apply(c, Reports(codes, n, t)) : d.code = "arity" /\ d.file = n /\ d.fix
    <3> HIDE DEF codes, t
    <3>1. "arity" \in t \cap codes /\ ~Suppressed(c.policy, "arity")
      BY <1>4
    <3>2. PICK d \in Apply(c, Reports(codes, n, t)) :
            d.code = "arity" /\ d.file = n /\ (d.fix <=> "arity" = "arity" /\ "recovery" \notin t)
      BY <3>1, KeptReports
    <3>3. d.fix
      BY <1>4, <3>2
    <3> QED BY <3>2, <3>3
  <2>2. Apply(c, Findings(c, n, texts[n])) \subseteq Diagnostics(c, texts)
    BY DEF Diagnostics
  <2>3. d \in fixes
    BY <2>1, <2>2 DEF Findings
  <2>4. {x.code : x \in fixes} = {"arity"}
    BY <1>3, <2>1, <2>3
  <2>5. IsQuery(c, n) /\ codes = QueryCodes(c)
    BY <1>4 DEF ModelCodes
  <2>6. Outcome(c, t) = t \ {"arity"}
    BY <1>4, <2>5, FixedCodes
  <2> QED BY <1>1, <2>4, <2>5, <2>6
<1>5. CASE ~("arity" \in t \cap codes /\ "recovery" \notin t /\ ~Suppressed(c.policy, "arity"))
  <2>1. fixes = {}
    BY <1>3, <1>5
  <2>2. t \ {d.code : d \in fixes} = t
    BY <2>1, Zenon
  <2>3. IsQuery(c, n) => Outcome(c, t) = t
    BY <1>5, FixedCodes
  <2> QED BY <1>1, <2>2, <2>3
<1> QED BY <1>4, <1>5

\* Which texts fmt and lint --fix change.
LEMMA ChangesAreOutcomes ==
  ASSUME NEW c, NEW texts
  PROVE  /\ c.kind = "lint" =>
              Changed(texts, FixedTexts(c, texts)) =
                {n \in 1..Len(texts) : IsQuery(c, n) /\ Outcome(c, texts[n]) # texts[n]}
         /\ c.kind = "fmt" =>
              /\ \A n \in 1..Len(texts) : IsQuery(c, n)
              /\ Changed(texts, [n \in 1..Len(texts) |-> Formatted(texts[n])]) =
                   {n \in 1..Len(texts) : IsQuery(c, n) /\ Outcome(c, texts[n]) # texts[n]}
<1>1. CASE c.kind = "lint"
  <2>1. \A n \in 1..Len(texts) :
          FixedTexts(c, texts)[n] = IF IsQuery(c, n) THEN Outcome(c, texts[n]) ELSE texts[n]
    BY <1>1, FixedIsOutcome
  <2> QED BY <1>1, <2>1 DEF Changed
<1>2. CASE c.kind = "fmt"
  <2>1. Models(c) = <<>>
    BY <1>2 DEF Models
  <2>2. \A n \in 1..Len(texts) : IsQuery(c, n)
    BY <2>1 DEF IsQuery
  <2>3. \A n \in 1..Len(texts) : Outcome(c, texts[n]) = Formatted(texts[n])
    BY <1>2 DEF Outcome
  <2> QED BY <1>2, <2>2, <2>3 DEF Changed
<1> QED BY <1>1, <1>2

\* A check ends with the status it should.
LEMMA CheckedStatus ==
  ASSUME NEW c, NEW texts, WellFormed(c), Rewrites(c)
  PROVE  (CHOOSE p \in Plans(AsCheck(c), texts, FALSE) : TRUE).exit = Status(c, texts)
<1>1. PICK k : k = AsCheck(c)
  OBVIOUS
<1>2. /\ k.mode = "check" /\ k.kind = c.kind
      /\ Diagnostics(k, texts) = Diagnostics(c, texts)
      /\ \A n : IsQuery(k, n) <=> IsQuery(c, n)
      /\ \A t : Outcome(k, t) = Outcome(c, t)
  BY <1>1, ModeFindsTheSame
<1>3. PreviewsChanges(k.mode) /\ ~InPlace(k)
  BY <1>2 DEF PreviewsChanges, InPlace
<1>4. PICK changes : changes =
        {n \in 1..Len(texts) : IsQuery(k, n) /\ Outcome(k, texts[n]) # texts[n]}
  OBVIOUS
<1>5. changes # {} <=> ~Settled(c, texts)
  BY <1>2, <1>4 DEF Settled
<1>6. CASE c.kind = "lint"
  <2>1. Plans(k, texts, FALSE) = {LintFixPlan(k, texts)}
    BY <1>2, <1>6 DEF Plans
  <2>2. LintFixPlan(k, texts) =
          Plan(FixReport(k), FixPreviewExit(k, Diagnostics(k, texts), Changed(texts, FixedTexts(k, texts))))
    BY <1>2 DEF LintFixPlan
  <2>3. LintFixPlan(k, texts).exit = FixPreviewExit(k, Diagnostics(k, texts), changes)
    <3>1. Changed(texts, FixedTexts(k, texts)) = changes
      BY <1>2, <1>4, <1>6, ChangesAreOutcomes
    <3> QED BY <2>2, <3>1 DEF Plan
  <2>4. LintFixPlan(k, texts).exit = Status(c, texts)
    BY <1>2, <1>3, <1>5, <2>3 DEF FixPreviewExit, Status
  <2> QED BY <1>1, <2>1, <2>4
<1>7. CASE c.kind = "fmt"
  <2>1. Plans(k, texts, FALSE) = {FormatPlan(k, texts)}
    BY <1>2, <1>7 DEF Plans
  <2>2. FormatPlan(k, texts).exit =
          IF HasErrors(Diagnostics(k, texts)) \/ changes # {} THEN ExitActionable ELSE ExitSuccess
    <3>1. Changed(texts, [n \in 1..Len(texts) |-> Formatted(texts[n])]) = changes
      BY <1>2, <1>4, <1>7, ChangesAreOutcomes
    <3> QED BY <1>3, <3>1 DEF FormatPlan, Plan
  <2>3. FormatPlan(k, texts).exit = Status(c, texts)
    BY <1>2, <1>5, <2>2 DEF Status
  <2> QED BY <1>1, <2>1, <2>3
<1> QED BY <1>6, <1>7 DEF Rewrites

\* The inputs of a command as they are once these files have been replaced.
After(c, files) == [n \in 1..Len(Inputs(c)) |-> Installed(files)[Key(Inputs(c)[n])]]

\* The texts are what the inputs of the command hold, all of them files.
ReadFrom(c, texts) ==
  /\ Len(texts) \in Nat /\ Len(texts) = Len(Inputs(c))
  /\ \A n \in 1..Len(texts) : Inputs(c)[n] \in Names /\ texts[n] = disk[Key(Inputs(c)[n])]
  /\ texts = [n \in 1..Len(texts) |-> texts[n]]

\* Everything is in the files if nothing is left to be replaced.
LEMMA AfterNothing ==
  ASSUME NEW c, NEW texts, ReadFrom(c, texts)
  PROVE  After(c, {}) = texts
<1>1. ASSUME NEW n \in 1..Len(texts) PROVE Installed({})[Key(Inputs(c)[n])] = texts[n]
  <2>1. Inputs(c)[n] \in Names /\ texts[n] = disk[Key(Inputs(c)[n])]
    BY DEF ReadFrom
  <2>2. Key(Inputs(c)[n]) \in Files
    BY <2>1, NamesAssumption DEF Key, Files
  <2> QED BY <2>1, <2>2 DEF Installed
<1> QED BY <1>1 DEF After, ReadFrom

\* Once what the command changes has been replaced it would change no more, whichever
\* names lead to the same file.
LEMMA AfterReplacing ==
  ASSUME NEW c, NEW texts, NEW made, NEW chosen, ReadFrom(c, texts), Rewrites(c),
         chosen = {n \in 1..Len(texts) : IsQuery(c, n) /\ Outcome(c, texts[n]) # texts[n]},
         \A n \in chosen : made[n] = Outcome(c, texts[n])
  PROVE  LET after == After(c, Replacements(c, texts, made, chosen)) IN
           /\ Len(after) = Len(texts)
           /\ Settled(c, after)
           /\ \A n \in 1..Len(texts) :
                /\ after[n] \in {texts[n], Outcome(c, texts[n])}
                /\ IsQuery(c, n) => after[n] = Outcome(c, texts[n])
<1>1. PICK files : files = Replacements(c, texts, made, chosen)
  OBVIOUS
<1>2. PICK after : after = After(c, files)
  OBVIOUS
<1>3. Len(after) = Len(texts)
  BY <1>2 DEF After, ReadFrom
<1>4. ASSUME NEW n \in 1..Len(texts)
      PROVE  /\ after[n] \in {texts[n], Outcome(c, texts[n])}
             /\ IsQuery(c, n) => after[n] = Outcome(c, texts[n])
  <2>1. PICK f : f = Key(Inputs(c)[n])
    OBVIOUS
  <2>2. Inputs(c)[n] \in Names /\ texts[n] = disk[f]
    BY <2>1 DEF ReadFrom
  <2>3. f \in Files
    BY <2>1, <2>2, NamesAssumption DEF Key, Files
  <2>4. after[n] = Installed(files)[f]
    BY <1>2, <2>1 DEF After, ReadFrom
  <2>5. PICK here : here = {r \in files : Key(r.name) = f}
    OBVIOUS
  <2>6. after[n] = IF here = {} THEN disk[f] ELSE (CHOOSE r \in here : TRUE).after
    BY <2>3, <2>4, <2>5 DEF Installed
  <2>7. CASE here = {}
    <3>1. n \notin chosen
      <4> SUFFICES ASSUME n \in chosen PROVE FALSE
        OBVIOUS
      <4>1. PICK r : r = [name |-> Inputs(c)[n], before |-> texts[n], after |-> made[n]]
        OBVIOUS
      <4>2. r \in files /\ r.name = Inputs(c)[n]
        BY <1>1, <4>1 DEF Replacements
      <4> QED BY <2>1, <2>5, <2>7, <4>2
    <3> QED BY <2>2, <2>6, <2>7, <3>1
  <2>8. CASE here # {}
    <3>1. PICK r \in here : after[n] = r.after
      BY <2>6, <2>8
    <3>2. PICK m \in chosen : r = [name |-> Inputs(c)[m], before |-> texts[m], after |-> made[m]]
      BY <1>1, <2>5, <3>1 DEF Replacements
    <3>3. Key(Inputs(c)[m]) = f /\ after[n] = made[m]
      BY <2>5, <3>1, <3>2
    <3>4. m \in 1..Len(texts) /\ texts[m] = texts[n]
      BY <2>2, <3>3 DEF ReadFrom
    <3> QED BY <3>3, <3>4
  <2> QED BY <2>7, <2>8
<1>5. Settled(c, after)
  BY <1>3, <1>4, OutcomeIsFinal DEF Settled
<1> QED BY <1>1, <1>2, <1>3, <1>4, <1>5

\* What is to be known of effects: there is one replacement of files at most, and
\* no other effect has files.
OneWrite(effects) ==
  \A e \in ToSet(effects) :
    IF e.to = "files" THEN \A x \in ToSet(effects) : x.to = "files" => x = e ELSE e.files = {}
Relints(effects) == \E e \in ToSet(effects) : e.to = "relint"
Pending(effects) == UNION {e.files : e \in ToSet(effects)}

\* The effects end with the status of a check of what they leave, or with a second
\* analysis of files that the command would change no more.
Truthful(c, effects, status) ==
  /\ OneWrite(effects)
  /\ Relints(effects) => effects \in {<<Relint>>, <<Replace(Pending(effects)), Relint>>}
  /\ IF Relints(effects) THEN c.kind = "lint" /\ Settled(c, After(c, Pending(effects)))
     ELSE status = Status(c, After(c, Pending(effects)))

\* Only a replacement of files has files.
LEMMA EffectFiles ==
  /\ \A item, texts : ToStdout(item, texts).files = {}
  /\ \A item : ToStderr(item).files = {}
  /\ Relint.files = {}
BY DEF ToStdout, ToStderr, Relint, Effect

\* A report on standard error leaves the files.
LEMMA ReportIsTruthful ==
  ASSUME NEW c, NEW texts, ReadFrom(c, texts), NEW status, status = Status(c, texts)
  PROVE  Truthful(c, FixReport(c), status)
<1>1. ToSet(FixReport(c)) \subseteq {ToStderr("report")}
  BY WhenShaped DEF FixReport
<1>2. OneWrite(FixReport(c)) /\ ~Relints(FixReport(c))
  BY <1>1, EffectKinds, EffectFiles DEF OneWrite, Relints
<1>3. Pending(FixReport(c)) = {}
  BY <1>1, EffectFiles DEF Pending
<1> QED BY <1>2, <1>3, AfterNothing DEF Truthful

\* lint --fix is truthful: what it leaves is analysed again unless it changes nothing.
LEMMA LintIsTruthful ==
  ASSUME NEW c, NEW texts, c.kind = "lint", InPlace(c), ReadFrom(c, texts)
  PROVE  LET plan == LintFixPlan(c, texts) IN Truthful(c, plan.todo, plan.exit)
<1>1. PICK fixed : fixed = FixedTexts(c, texts)
  OBVIOUS
<1>2. PICK changes : changes = Changed(texts, fixed)
  OBVIOUS
<1>3. changes = {n \in 1..Len(texts) : IsQuery(c, n) /\ Outcome(c, texts[n]) # texts[n]}
  BY <1>1, <1>2, ChangesAreOutcomes
<1>4. CASE changes = {}
  <2>1. LintFixPlan(c, texts) = Plan(FixReport(c), DiagnosticExit(Diagnostics(c, texts)))
    BY <1>1, <1>2, <1>4 DEF LintFixPlan, InPlace
  <2>2. Settled(c, texts)
    BY <1>3, <1>4 DEF Settled
  <2>3. DiagnosticExit(Diagnostics(c, texts)) = Status(c, texts)
    BY <2>2 DEF DiagnosticExit, Status
  <2> QED BY <2>1, <2>3, ReportIsTruthful DEF Plan
<1>5. CASE changes # {}
  <2>1. PICK files : files = Replacements(c, texts, fixed, changes)
    OBVIOUS
  <2>2. PICK effects : effects = <<Replace(files), Relint>>
    OBVIOUS
  <2>3. LintFixPlan(c, texts) = Plan(effects, ExitSuccess)
    BY <1>1, <1>2, <1>5, <2>1, <2>2 DEF LintFixPlan, InPlace
  <2>4. ToSet(effects) = {Replace(files), Relint}
    BY <2>2, PairShaped
  <2>5. OneWrite(effects) /\ Relints(effects)
    BY <2>4, EffectKinds, EffectFiles DEF OneWrite, Relints
  <2>6. Pending(effects) = files
    BY <2>4, EffectKinds, EffectFiles DEF Pending
  <2>7. \A n \in changes : fixed[n] = Outcome(c, texts[n])
    BY <1>1, <1>3, FixedIsOutcome
  <2>8. Settled(c, After(c, files))
    BY <1>3, <2>1, <2>7, AfterReplacing DEF Rewrites
  <2>9. LintFixPlan(c, texts).todo = effects
    BY <2>3 DEF Plan
  <2> QED BY <2>2, <2>5, <2>6, <2>8, <2>9 DEF Truthful
<1> QED BY <1>4, <1>5

\* If no text needed recovery, fmt has nothing to report.
LEMMA NothingFound ==
  ASSUME NEW c, NEW texts, c.kind = "fmt", \A n \in 1..Len(texts) : "recovery" \notin texts[n]
  PROVE  ~HasErrors(Diagnostics(c, texts)) /\ Diagnostics(c, texts) = {}
<1>1. Models(c) = <<>> /\ QueryCodes(c) = {"recovery"}
  BY DEF Models, QueryCodes
<1>2. ASSUME NEW n \in 1..Len(texts) PROVE Apply(c, Findings(c, n, texts[n])) = {}
  <2>1. IsQuery(c, n)
    BY <1>1 DEF IsQuery
  <2>2. Findings(c, n, texts[n]) = Reports({"recovery"}, n, texts[n])
    BY <1>1, <2>1 DEF Findings
  <2> QED BY <2>2, KeptReports
<1>3. Diagnostics(c, texts) = {}
  BY <1>2 DEF Diagnostics
<1> QED BY <1>3 DEF HasErrors

\* fmt is truthful: it writes everything, or writes nothing and says so.
LEMMA FormatIsTruthful ==
  ASSUME NEW c, NEW texts, c.kind = "fmt", InPlace(c), ReadFrom(c, texts)
  PROVE  LET plan == FormatPlan(c, texts) IN Truthful(c, plan.todo, plan.exit)
<1>1. PICK found : found = Diagnostics(c, texts)
  OBVIOUS
<1>2. PICK formatted : formatted = [n \in 1..Len(texts) |-> Formatted(texts[n])]
  OBVIOUS
<1>3. PICK changes : changes = Changed(texts, formatted)
  OBVIOUS
<1>4. /\ changes = {n \in 1..Len(texts) : IsQuery(c, n) /\ Outcome(c, texts[n]) # texts[n]}
      /\ \A n \in 1..Len(texts) : IsQuery(c, n)
  BY <1>2, <1>3, ChangesAreOutcomes
<1>5. c.mode = "write"
  BY DEF InPlace
<1>6. {n \in 1..Len(texts) : c.mode = "stdout" \/ (InPlace(c) /\ Inputs(c)[n] = Stdin)} = {}
  BY <1>5, NamesAssumption DEF ReadFrom
<1>7. PICK blocked : blocked = IF WritesAreSafe(c, texts) THEN {} ELSE changes
  OBVIOUS
<1>8. PICK written : written = changes \ blocked
  OBVIOUS
<1>9. PICK status : status = IF HasErrors(found) \/ blocked # {} THEN ExitActionable ELSE ExitSuccess
  OBVIOUS
<1>10. PICK files : files = Replacements(c, texts, formatted, written)
  OBVIOUS
<1>11. PICK report : report = When(~c.quiet /\ found # {}, ToStderr("report"))
  OBVIOUS
<1>12. PICK install : install = When(written # {}, Replace(files))
  OBVIOUS
<1>13. PICK message : message = BlockedMessage(c, texts, blocked)
  OBVIOUS
<1>14. PICK output : output = When(FALSE, ToStdout("text", Rendered(formatted, {})))
  OBVIOUS
<1>15. FormatPlan(c, texts) = Plan(report \o output \o install \o message, status)
  <2> DEFINE printed == {n \in 1..Len(texts) :
                           c.mode = "stdout" \/ (InPlace(c) /\ Inputs(c)[n] = Stdin)}
             shown == IF c.mode = "diff" THEN changes ELSE printed
             wanted == IF InPlace(c) THEN changes \ printed ELSE {}
             kept == IF WritesAreSafe(c, texts) THEN {} ELSE wanted
  <2>1. FormatPlan(c, texts) =
          Plan(When(~c.quiet /\ found # {}, ToStderr("report"))
                 \o When(shown # {}, ToStdout(IF c.mode = "diff" THEN "diff" ELSE "text",
                                              Rendered(formatted, shown)))
                 \o When(wanted \ kept # {}, Replace(Replacements(c, texts, formatted, wanted \ kept)))
                 \o BlockedMessage(c, texts, kept),
               IF HasErrors(found) \/ (changes # {} /\ PreviewsChanges(c.mode)) \/ kept # {}
               THEN ExitActionable ELSE ExitSuccess)
    BY <1>1, <1>2, <1>3 DEF FormatPlan
  <2>2. printed = {} /\ shown = {} /\ wanted = changes /\ kept = blocked
    BY <1>5, <1>6, <1>7
  <2>3. ~PreviewsChanges(c.mode)
    BY <1>5 DEF PreviewsChanges
  <2>4. (IF c.mode = "diff" THEN "diff" ELSE "text") = "text"
    BY <1>5
  <2> HIDE DEF printed, shown, wanted, kept
  <2>5. /\ output = When(shown # {}, ToStdout(IF c.mode = "diff" THEN "diff" ELSE "text",
                                              Rendered(formatted, shown)))
        /\ install = When(wanted \ kept # {}, Replace(Replacements(c, texts, formatted, wanted \ kept)))
        /\ message = BlockedMessage(c, texts, kept)
        /\ status = IF HasErrors(found) \/ (changes # {} /\ PreviewsChanges(c.mode)) \/ kept # {}
                    THEN ExitActionable ELSE ExitSuccess
    BY <1>8, <1>9, <1>10, <1>12, <1>13, <1>14, <2>2, <2>3, <2>4 DEF When
  <2> QED BY <1>11, <2>1, <2>5
<1>16. PICK effects : effects = report \o output \o install \o message
  OBVIOUS
<1>17. ToSet(effects) = ToSet(report) \cup ToSet(output) \cup ToSet(install) \cup ToSet(message)
  <2>1. Shaped(report) /\ Shaped(output) /\ Shaped(install) /\ Shaped(message)
    BY <1>11, <1>12, <1>13, <1>14, WhenShaped DEF BlockedMessage
  <2>2. Shaped(report \o output) /\ ToSet(report \o output) = ToSet(report) \cup ToSet(output)
    BY <2>1, ConcatShaped
  <2>3. /\ Shaped(report \o output \o install)
        /\ ToSet(report \o output \o install) = ToSet(report \o output) \cup ToSet(install)
    BY <2>1, <2>2, ConcatShaped
  <2> QED BY <1>16, <2>1, <2>2, <2>3, ConcatShaped
<1>18. /\ ToSet(report) \subseteq {ToStderr("report")} /\ ToSet(output) = {}
       /\ ToSet(install) = IF written # {} THEN {Replace(files)} ELSE {}
       /\ ToSet(message) \subseteq {ToStderr("blocked")}
  BY <1>11, <1>12, <1>13, <1>14, WhenShaped DEF BlockedMessage
<1>19. OneWrite(effects) /\ ~Relints(effects)
  BY <1>17, <1>18, EffectKinds, EffectFiles DEF OneWrite, Relints
<1>20. written = {} => files = {}
  BY <1>10 DEF Replacements
<1>21. Pending(effects) = files
  <2>1. \A e \in ToSet(report) \cup ToSet(output) \cup ToSet(message) : e.files = {}
    BY <1>18, EffectFiles
  <2>2. CASE written = {}
    BY <1>17, <1>18, <1>20, <2>1, <2>2 DEF Pending
  <2>3. CASE written # {}
    BY <1>17, <1>18, <2>1, <2>3, EffectKinds DEF Pending
  <2> QED BY <2>2, <2>3
<1>22. status = Status(c, After(c, files))
  <2>1. CASE WritesAreSafe(c, texts)
    <3>1. \A n \in 1..Len(texts) : "recovery" \notin texts[n]
      BY <2>1, NothingRecovered
    <3>2. status = ExitSuccess
      BY <1>1, <1>7, <1>9, <2>1, <3>1, NothingFound
    <3>3. PICK after : after = After(c, files)
      OBVIOUS
    <3>4. written = changes
      BY <1>7, <1>8, <2>1
    <3>5. \A n \in changes : formatted[n] = Outcome(c, texts[n])
      BY <1>2, <1>4 DEF Outcome
    <3>6. /\ Len(after) = Len(texts) /\ Settled(c, after)
          /\ \A n \in 1..Len(texts) : after[n] \in {texts[n], Outcome(c, texts[n])}
      BY <1>4, <1>10, <3>3, <3>4, <3>5, AfterReplacing DEF Rewrites
    <3>7. \A n \in 1..Len(after) : "recovery" \notin after[n]
      <4>1. \A n \in 1..Len(texts) : "recovery" \notin Outcome(c, texts[n])
        BY <3>1 DEF Outcome, Formatted
      <4> QED BY <3>1, <3>6, <4>1
    <3> QED BY <3>2, <3>3, <3>6, <3>7, NothingFound DEF Status
  <2>2. CASE ~WritesAreSafe(c, texts)
    <3>1. written = {} /\ blocked = changes
      BY <1>7, <1>8, <2>2
    <3>2. After(c, files) = texts
      BY <1>20, <3>1, AfterNothing
    <3>3. changes # {} <=> ~Settled(c, texts)
      BY <1>4 DEF Settled
    <3> QED BY <1>1, <1>9, <3>1, <3>2, <3>3 DEF Status
  <2> QED BY <2>1, <2>2
<1>23. FormatPlan(c, texts).todo = effects /\ FormatPlan(c, texts).exit = status
  BY <1>15, <1>16 DEF Plan
<1> QED BY <1>19, <1>21, <1>22, <1>23 DEF Truthful

\* Every plan of a command that rewrites files is truthful.
LEMMA PlansAreTruthful ==
  ASSUME NEW c, NEW texts, NEW second, WellFormed(c), InPlace(c), ReadFrom(c, texts),
         second => c.kind = "lint" /\ Settled(c, texts),
         NEW plan \in Plans(c, texts, second)
  PROVE  Truthful(c, plan.todo, plan.exit)
<1>1. CASE second
  <2>1. plan = Plan(FixReport(c), DiagnosticExit(Diagnostics(c, texts)))
    BY <1>1 DEF Plans, RelintPlan
  <2>2. DiagnosticExit(Diagnostics(c, texts)) = Status(c, texts)
    BY <1>1 DEF DiagnosticExit, Status
  <2> QED BY <2>1, <2>2, ReportIsTruthful DEF Plan
<1>2. CASE ~second /\ c.kind = "fmt"
  <2>1. plan = FormatPlan(c, texts)
    BY <1>2 DEF Plans
  <2> QED BY <1>2, <2>1, FormatIsTruthful
<1>3. CASE ~second /\ c.kind = "lint"
  <2>1. plan = LintFixPlan(c, texts)
    BY <1>3 DEF Plans, InPlace
  <2> QED BY <1>3, <2>1, LintIsTruthful
<1> QED BY <1>1, <1>2, <1>3 DEF WellFormed

\* A command that rewrites files, all of them named, and that nothing has disturbed.
Calm == ~disturbed /\ InPlace(cmd) /\ ~cmd.given.print /\ ~ReadsStdin(cmd)

\* What has been read is what the files hold.
StoreIsDisk ==
  /\ Shaped(store)
  /\ \A n \in 1..Len(store) :
       /\ Inputs(cmd)[n] \in Names \cup {Stdin}
       /\ Inputs(cmd)[n] # Stdin => store[n] = disk[Key(Inputs(cmd)[n])]

AllNamed == Len(Inputs(cmd)) \in Nat /\ \A n \in 1..Len(Inputs(cmd)) : Inputs(cmd)[n] \in Names

\* What is left to be done is truthful, and so is the status in the end.
VerdictInv ==
  /\ pc \in {"idle", "configure", "resolve"} => store = <<>> /\ again = FALSE
  /\ pc = "load" /\ Calm =>
       StoreIsDisk /\ (again => cmd.kind = "lint" /\ Settled(cmd, After(cmd, {})))
  /\ pc = "perform" /\ Calm => AllNamed /\ Truthful(cmd, todo, verdict)
  /\ pc = "exited" /\ Calm =>
       exit \in {ExitUsage, ExitInternal} \/ (AllNamed /\ exit = Status(cmd, After(cmd, {})))

\* A failure has a status of its own.
LEMMA FailTells ==
  ASSUME NEW status \in {ExitUsage, ExitInternal}, Fail(status)
  PROVE  VerdictInv'
BY DEF VerdictInv, Fail

\* A text that is only printed ends no command that rewrites files.
LEMMA PrintsTells ==
  ASSUME NEW item, Prints(item), ~Calm'
  PROVE  VerdictInv'
BY DEF VerdictInv, Prints

\* The files a command leaves depend on the disk, the command and what it replaces.
LEMMA SameAfter ==
  ASSUME UNCHANGED <<disk, cmd>>
  PROVE  \A files : After(cmd, files)' = After(cmd, files)
<1>1. \A files : Installed(files)' = Installed(files)
  BY DEF Installed
<1> QED BY <1>1 DEF After

\* An effect on a stream changes nothing about what the others leave.
LEMMA EmitTells ==
  ASSUME Shaped(todo), todo # <<>>, Head(todo).to \in {"stdout", "stderr"}, todo' = Tail(todo),
         UNCHANGED <<disk, cmd, verdict>>, Truthful(cmd, todo, verdict)
  PROVE  Truthful(cmd, todo, verdict)'
<1>1. ToSet(todo) = {Head(todo)} \cup ToSet(todo')
  BY TailShaped
<1>2. Head(todo).files = {}
  BY <1>1 DEF Truthful, OneWrite
<1>3. OneWrite(todo') /\ (Relints(todo') <=> Relints(todo))
  BY <1>1 DEF Truthful, OneWrite, Relints
<1>4. Pending(todo') = Pending(todo)
  BY <1>1, <1>2 DEF Pending
<1>5. ~Relints(todo)
  <2> SUFFICES ASSUME Relints(todo) PROVE FALSE
    OBVIOUS
  <2>1. Head(todo) \in {Relint, Replace(Pending(todo))}
    BY DEF Truthful
  <2> QED BY <2>1, EffectKinds
<1>6. PICK files : files = Pending(todo)
  OBVIOUS
<1>7. After(cmd, files)' = After(cmd, files)
  BY SameAfter
<1> QED BY <1>3, <1>4, <1>5, <1>6, <1>7 DEF Truthful

\* Replacing the files leaves what was foreseen.
LEMMA InstallTells ==
  ASSUME Shaped(todo), todo # <<>>, Head(todo).to = "files", todo' = Tail(todo),
         disk' = Installed(Head(todo).files), UNCHANGED <<cmd, verdict>>,
         AllNamed, Truthful(cmd, todo, verdict)
  PROVE  Truthful(cmd, todo, verdict)'
<1>1. ToSet(todo) = {Head(todo)} \cup ToSet(todo')
  BY TailShaped
<1>2. PICK files : files = Head(todo).files
  OBVIOUS
<1>3. \A e \in ToSet(todo') : e.files \in {{}, files}
  BY <1>1, <1>2 DEF Truthful, OneWrite
<1>4. Pending(todo) = files
  BY <1>1, <1>2, <1>3 DEF Pending
<1>5. PICK left : left = Pending(todo')
  OBVIOUS
<1>6. left \in {{}, files}
  BY <1>3, <1>5 DEF Pending
<1>7. OneWrite(todo') /\ (Relints(todo') <=> Relints(todo))
  BY <1>1 DEF Truthful, OneWrite, Relints
<1>8. Relints(todo) => todo' = <<Relint>>
  <2> SUFFICES ASSUME Relints(todo) PROVE todo' = <<Relint>>
    OBVIOUS
  <2>1. todo # <<Relint>>
    BY EffectKinds
  <2>2. todo = <<Replace(Pending(todo)), Relint>>
    BY <2>1 DEF Truthful
  <2>3. PICK a, b : a = Replace(Pending(todo)) /\ b = Relint
    OBVIOUS
  <2>4. Tail(<<a, b>>) = <<b>>
    OBVIOUS
  <2>5. todo = <<a, b>>
    BY <2>2, <2>3
  <2> QED BY <2>3, <2>4, <2>5
<1>9. After(cmd, left)' = After(cmd, files)
  <2>1. ASSUME NEW n \in 1..Len(Inputs(cmd))
        PROVE  Installed(left)'[Key(Inputs(cmd)[n])] = Installed(files)[Key(Inputs(cmd)[n])]
    <3>1. PICK f : f = Key(Inputs(cmd)[n])
      OBVIOUS
    <3>2. f \in Files
      BY <3>1, NamesAssumption DEF AllNamed, Key, Files
    <3>3. PICK here : here = {r \in left : Key(r.name) = f}
      OBVIOUS
    <3>4. Installed(left)'[f] = IF here = {} THEN disk'[f] ELSE (CHOOSE r \in here : TRUE).after
      BY <3>2, <3>3 DEF Installed
    <3>5. PICK there : there = {r \in files : Key(r.name) = f}
      OBVIOUS
    <3>6. Installed(files)[f] = IF there = {} THEN disk[f] ELSE (CHOOSE r \in there : TRUE).after
      BY <3>2, <3>5 DEF Installed
    <3>7. disk'[f] = Installed(files)[f]
      BY <1>2
    <3>8. here = {} \/ here = there
      BY <1>6, <3>3, <3>5
    <3> QED BY <3>1, <3>4, <3>6, <3>7, <3>8
  <2> QED BY <2>1 DEF After
<1> QED BY <1>4, <1>5, <1>7, <1>8, <1>9 DEF Truthful

\* The invariant holds at the start and every step keeps it.
LEMMA VerdictInvariant == Spec => []VerdictInv
<1>1. Init => VerdictInv
  BY DEF Init, VerdictInv
<1>2. CommandInv /\ VerdictInv /\ [Next]_vars => VerdictInv'
  <2> SUFFICES ASSUME CommandInv, VerdictInv, [Next]_vars PROVE VerdictInv'
    OBVIOUS
  <2> USE DEF history
  <2>1. ASSUME NEW c \in Commands, Invoke(c) PROVE VerdictInv'
    BY <2>1 DEF Invoke, VerdictInv
  <2>2. CASE Configure
    <3>1. CASE UNCHANGED cmd /\ Prints("completions") /\ cmd.kind = "completions"
      <4>1. ~Calm'
        BY <3>1 DEF Calm, CommandInv, WellFormed, InPlace
      <4> QED BY <3>1, <4>1, PrintsTells
    <3>2. CASE UNCHANGED cmd /\ Prints("configuration") /\ cmd.given.print
      <4>1. ~Calm'
        BY <3>2 DEF Calm
      <4> QED BY <3>2, <4>1, PrintsTells
    <3>3. CASE Fail(ExitUsage)
      BY <3>3, FailTells
    <3>4. CASE pc' = "resolve" /\ UNCHANGED <<store, again>>
      BY <2>2, <3>4 DEF VerdictInv, Configure
    <3> QED BY <2>2, <3>1, <3>2, <3>3, <3>4 DEF Configure
  <2>3. CASE Explain
    <3>1. CASE Fail(ExitUsage)
      BY <3>1, FailTells
    <3>2. CASE Prints("explanation")
      <4>1. ~Calm'
        BY <2>3 DEF Explain, Calm, CommandInv, WellFormed, InPlace
      <4> QED BY <3>2, <4>1, PrintsTells
    <3> QED BY <2>3, <3>1, <3>2 DEF Explain
  <2>4. CASE Resolve
    <3>1. CASE Fail(ExitUsage)
      BY <3>1, FailTells
    <3>2. CASE pc' = "load" /\ UNCHANGED <<store, again>>
      <4>1. store' = <<>> /\ ~again'
        BY <2>4, <3>2 DEF Resolve, VerdictInv
      <4>2. Shaped(<<>>) /\ 1..Len(<<>>) = {}
        <5>1. Shaped(<<>>)
          BY WhenShaped DEF When
        <5>2. 1..Len(<<>>) = {}
          OBVIOUS
        <5> QED BY <5>1, <5>2
      <4>3. StoreIsDisk'
        BY <4>1, <4>2 DEF StoreIsDisk
      <4> QED BY <3>2, <4>1, <4>3 DEF VerdictInv
    <3>3. Fail(ExitUsage) \/ (pc' = "load" /\ UNCHANGED <<store, again>>)
      BY <2>4 DEF Resolve
    <3> QED BY <3>1, <3>2, <3>3
  <2>5. CASE Load
    <3> DEFINE name == Inputs(cmd)[Len(store) + 1]
    <3>1. CASE Unreadable(name)
      <4>1. Fail(ExitUsage)
        BY <2>5, <3>1 DEF Load, DriverFailure
      <4> QED BY <4>1, FailTells
    <3>2. CASE ~Unreadable(name)
      <4>1. /\ pc = "load" /\ UNCHANGED <<pc, again, cmd, disk, disturbed>>
            /\ store' = Append(store, IF name = Stdin THEN cmd.stdin ELSE disk[Key(name)])
        BY <2>5, <3>2 DEF Load, Loading
      <4> SUFFICES ASSUME Calm' PROVE StoreIsDisk' /\ (again => cmd.kind = "lint" /\ Settled(cmd, After(cmd, {})))'
        BY <4>1 DEF VerdictInv
      <4>2. Calm
        BY <4>1 DEF Calm
      <4>3. StoreIsDisk /\ (again => cmd.kind = "lint" /\ Settled(cmd, After(cmd, {})))
        BY <4>1, <4>2 DEF VerdictInv
      <4>4. After(cmd, {})' = After(cmd, {})
        BY <4>1, SameAfter
      <4>5. name \in Names \cup {Stdin}
        BY <3>2 DEF Unreadable
      <4>6. PICK t : t = IF name = Stdin THEN cmd.stdin ELSE disk[Key(name)]
        OBVIOUS
      <4>7. PICK E : E = ToSet(store) \cup {t}
        OBVIOUS
      <4>8. store \in Seq(E) /\ t \in E
        BY <4>3, <4>7 DEF StoreIsDisk, Shaped
      <4>9. /\ store' \in Seq(E) /\ Len(store') = Len(store) + 1 /\ Len(store) \in Nat
            /\ \A n \in 1..Len(store) : store'[n] = store[n]
            /\ store'[Len(store) + 1] = t
        BY <4>1, <4>6, <4>8
      <4>10. Shaped(store')
        BY <4>9, OwnElements
      <4>11. ASSUME NEW n \in 1..Len(store')
             PROVE  /\ Inputs(cmd)[n] \in Names \cup {Stdin}
                    /\ Inputs(cmd)[n] # Stdin => store'[n] = disk[Key(Inputs(cmd)[n])]
        <5>1. CASE n \in 1..Len(store)
          BY <4>3, <4>9, <5>1 DEF StoreIsDisk
        <5>2. CASE n = Len(store) + 1
          BY <4>5, <4>6, <4>9, <5>2
        <5> QED BY <4>9, <5>1, <5>2
      <4>12. StoreIsDisk'
        BY <4>1, <4>10, <4>11 DEF StoreIsDisk
      <4> QED BY <4>1, <4>3, <4>4, <4>12
    <3> QED BY <3>1, <3>2
  <2>6. CASE Analyse
    <3>1. CASE DriverErrors(cmd, store) # {}
      <4>1. PICK error : Fail(DriverFailure(error))
        BY <2>6, <3>1 DEF Analyse
      <4>2. DriverFailure(error) \in {ExitUsage, ExitInternal}
        BY DEF DriverFailure
      <4> QED BY <4>1, <4>2, FailTells
    <3>2. CASE DriverErrors(cmd, store) = {}
      <4>1. PICK plan \in Plans(cmd, store, again) :
              pc' = "perform" /\ todo' = plan.todo /\ verdict' = plan.exit
        BY <2>6, <3>2 DEF Analyse
      <4>2. UNCHANGED <<disk, cmd, disturbed>> /\ pc = "load" /\ Len(store) = Len(Inputs(cmd))
        BY <2>6 DEF Analyse, Loaded
      <4> SUFFICES ASSUME Calm' PROVE AllNamed' /\ Truthful(cmd, todo, verdict)'
        BY <4>1 DEF VerdictInv
      <4>3. Calm
        BY <4>2 DEF Calm
      <4>4. StoreIsDisk /\ (again => cmd.kind = "lint" /\ Settled(cmd, After(cmd, {})))
        BY <4>2, <4>3 DEF VerdictInv
      <4>5. store \in Seq(ToSet(store)) /\ Len(store) \in Nat
        BY <4>4 DEF StoreIsDisk, Shaped
      <4>6. \A n \in 1..Len(store) : Inputs(cmd)[n] # Stdin
        BY <4>2, <4>3 DEF Calm, ReadsStdin
      <4>7. ReadFrom(cmd, store)
        <5>1. store = [n \in 1..Len(store) |-> store[n]]
          BY <4>5
        <5> QED BY <4>2, <4>4, <4>5, <4>6, <5>1 DEF StoreIsDisk, ReadFrom
      <4>8. After(cmd, {}) = store
        BY <4>7, AfterNothing
      <4>9. WellFormed(cmd) /\ InPlace(cmd)
        BY <4>3 DEF CommandInv, Calm
      <4>10. Truthful(cmd, plan.todo, plan.exit)
        BY <4>4, <4>7, <4>8, <4>9, PlansAreTruthful
      <4>11. AllNamed'
        BY <4>2, <4>7 DEF AllNamed, ReadFrom
      <4>12. PICK files : files = Pending(plan.todo)
        OBVIOUS
      <4>13. After(cmd, files)' = After(cmd, files)
        BY <4>2, SameAfter
      <4> QED BY <4>1, <4>2, <4>10, <4>11, <4>12, <4>13 DEF Truthful
    <3> QED BY <3>1, <3>2
  <2>7. CASE Emit
    <3>1. /\ pc = "perform" /\ todo # <<>> /\ Head(todo).to \in {"stdout", "stderr"}
          /\ todo' = Tail(todo) /\ UNCHANGED <<disk, cmd, verdict, pc, disturbed>>
      BY <2>7 DEF Emit, Performs
    <3>2. Calm' => AllNamed' /\ Truthful(cmd, todo, verdict)'
      BY <3>1, EmitTells DEF VerdictInv, CommandInv, Calm, AllNamed
    <3> QED BY <3>1, <3>2 DEF VerdictInv
  <2>8. CASE InstallAll
    <3>1. CASE Fail(ExitInternal)
      BY <3>1, FailTells
    <3>2. CASE disk' = Installed(Head(todo).files) /\ todo' = Tail(todo) /\ UNCHANGED <<pc, verdict>>
      <4>1. pc = "perform" /\ todo # <<>> /\ Head(todo).to = "files" /\ UNCHANGED <<cmd, disturbed>>
        BY <2>8 DEF InstallAll, Performs
      <4>2. Calm' => AllNamed' /\ Truthful(cmd, todo, verdict)'
        BY <3>2, <4>1, InstallTells DEF VerdictInv, CommandInv, Calm, AllNamed
      <4> QED BY <3>2, <4>1, <4>2 DEF VerdictInv
    <3> QED BY <2>8, <3>1, <3>2 DEF InstallAll
  <2>9. CASE StartRelint
    <3>1. /\ pc = "perform" /\ todo # <<>> /\ Head(todo).to = "relint"
          /\ pc' = "load" /\ again' /\ store' = <<>> /\ UNCHANGED <<disk, cmd, disturbed>>
      BY <2>9 DEF StartRelint, Performs
    <3> SUFFICES ASSUME Calm'
                 PROVE  StoreIsDisk' /\ cmd'.kind = "lint" /\ Settled(cmd, After(cmd, {}))'
      BY <3>1 DEF VerdictInv
    <3>2. Truthful(cmd, todo, verdict)
      BY <3>1 DEF VerdictInv, Calm
    <3>3. Head(todo) \in ToSet(todo)
      BY <3>1, TailShaped DEF CommandInv
    <3>4. Relints(todo)
      BY <3>1, <3>3 DEF Relints
    <3>5. todo = <<Relint>>
      <4>1. todo # <<Replace(Pending(todo)), Relint>>
        BY <3>1, EffectKinds
      <4> QED BY <3>2, <3>4, <4>1 DEF Truthful
    <3>6. Pending(todo) = {}
      <4>1. ToSet(todo) = {Relint}
        BY <3>5 DEF ToSet
      <4> QED BY <4>1, EffectFiles DEF Pending
    <3>7. cmd.kind = "lint" /\ Settled(cmd, After(cmd, {}))
      BY <3>2, <3>4, <3>6 DEF Truthful
    <3>8. After(cmd, {})' = After(cmd, {})
      BY <3>1, SameAfter
    <3>9. StoreIsDisk'
      <4>1. Shaped(<<>>) /\ 1..Len(<<>>) = {}
        <5>1. Shaped(<<>>)
          BY WhenShaped DEF When
        <5>2. 1..Len(<<>>) = {}
          OBVIOUS
        <5> QED BY <5>1, <5>2
      <4> QED BY <3>1, <4>1 DEF StoreIsDisk
    <3> QED BY <3>1, <3>7, <3>8, <3>9
  <2>10. CASE Exit
    <3>1. pc = "perform" /\ todo = <<>> /\ pc' = "exited" /\ exit' = verdict /\ UNCHANGED <<disk, cmd, disturbed>>
      BY <2>10 DEF Exit
    <3> SUFFICES ASSUME Calm' PROVE AllNamed' /\ exit' = Status(cmd, After(cmd, {}))'
      BY <3>1 DEF VerdictInv
    <3>2. AllNamed /\ Truthful(cmd, todo, verdict)
      BY <3>1 DEF VerdictInv, Calm
    <3>3. ToSet(todo) = {}
      BY <3>1 DEF ToSet
    <3>4. Pending(todo) = {} /\ ~Relints(todo)
      BY <3>3 DEF Pending, Relints
    <3>5. After(cmd, {})' = After(cmd, {})
      BY <3>1, SameAfter
    <3> QED BY <3>1, <3>2, <3>4, <3>5 DEF Truthful, AllNamed
  <2>11. ASSUME NEW f \in Files, NEW t \in EditTexts, Edit(f, t) PROVE VerdictInv'
    <3>1. ~Calm' /\ UNCHANGED <<pc, store, again>>
      BY <2>11 DEF Edit, Trouble, Calm
    <3> QED BY <3>1 DEF VerdictInv
  <2>12. CASE Fault
    BY <2>12, FailTells DEF Fault
  <2>13. CASE UNCHANGED vars
    <3>1. After(cmd, {})' = After(cmd, {})
      BY <2>13, SameAfter DEF vars
    <3>2. Truthful(cmd, todo, verdict)' <=> Truthful(cmd, todo, verdict)
      <4>1. PICK files : files = Pending(todo)
        OBVIOUS
      <4>2. After(cmd, files)' = After(cmd, files)
        BY <2>13, SameAfter DEF vars
      <4> QED BY <2>13, <4>1, <4>2 DEF vars, Truthful
    <3>3. (Calm' <=> Calm) /\ (StoreIsDisk' <=> StoreIsDisk) /\ (AllNamed' <=> AllNamed)
      BY <2>13 DEF vars, Calm, StoreIsDisk, AllNamed
    <3> QED BY <2>13, <3>1, <3>2, <3>3 DEF vars, VerdictInv
  <2> QED BY <2>1, <2>2, <2>3, <2>4, <2>5, <2>6, <2>7, <2>8, <2>9, <2>10, <2>11, <2>12, <2>13
          DEF Next, Process
<1> QED BY <1>1, <1>2, CommandInvariant, PTL DEF Spec

\* The status of an undisturbed command that rewrites files is the one a check of
\* the files it leaves would end with (the second lint of finish_lint_fixes,
\* blocked_in_place_change).
THEOREM VerdictsAreTrue == Spec => []VerdictMatchesFiles
<1>1. CommandInv /\ VerdictInv => VerdictMatchesFiles
  <2> SUFFICES ASSUME CommandInv, VerdictInv, Rewrote, exit \in {ExitSuccess, ExitActionable}
               PROVE  LET now == [n \in 1..Len(Inputs(cmd)) |-> disk[Key(Inputs(cmd)[n])]]
                          checked == CHOOSE p \in Plans([cmd EXCEPT !.mode = "check"], now, FALSE) : TRUE
                      IN exit = checked.exit
    BY DEF VerdictMatchesFiles
  <2>1. PICK now : now = [n \in 1..Len(Inputs(cmd)) |-> disk[Key(Inputs(cmd)[n])]]
    OBVIOUS
  <2>2. exit \notin {ExitUsage, ExitInternal}
    BY DEF ExitUsage, ExitInternal, ExitSuccess, ExitActionable
  <2>3. AllNamed /\ exit = Status(cmd, After(cmd, {}))
    BY <2>2 DEF VerdictInv, Rewrote, Calm
  <2>4. ReadFrom(cmd, now)
    BY <2>1, <2>3 DEF AllNamed, ReadFrom
  <2>5. After(cmd, {}) = now
    BY <2>4, AfterNothing
  <2>6. WellFormed(cmd) /\ Rewrites(cmd)
    BY DEF CommandInv, WellFormed, Rewrote, Rewrites
  <2>7. (CHOOSE p \in Plans(AsCheck(cmd), now, FALSE) : TRUE).exit = Status(cmd, now)
    BY <2>6, CheckedStatus
  <2> QED BY <2>1, <2>3, <2>5, <2>7 DEF AsCheck
<1> QED BY <1>1, CommandInvariant, VerdictInvariant, PTL
=============================================================================
