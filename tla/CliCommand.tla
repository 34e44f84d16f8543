----------------------------- MODULE CliCommand -----------------------------
(***************************************************************************)
(* The commands of `pure-analyzer` that analyse, format and fix files      *)
(* (cli/src/main.rs, cli/src/workflow/mod.rs and input.rs), with the       *)
(* driver that loads and analyses for them (libpure/src/driver.rs,         *)
(* source.rs) and the diagnostic policy (analysis/src/pass.rs).            *)
(*                                                                         *)
(* One process runs at a time.  It resolves its inputs, reads them one     *)
(* after another, analyses what it read, and then has its effects in the   *)
(* order of the code: reports, texts and diffs on the two streams, and the *)
(* replacement of files.  Another program may write the files meanwhile,   *)
(* and a stream or the file writer may fail.                               *)
(*                                                                         *)
(* A text is the set of what the analyses tell apart in it:                *)
(*   "layout"      the formatter would lay it out otherwise                *)
(*   "recovery"    parsing it needs recovery                               *)
(*   "shape"       it has an expression Legend rejects without a model     *)
(*   "property"    a model shows that it uses a property that is not there *)
(*   "arity"       a model shows that one date is missing: the fixable one *)
(*   "unparsable"  no syntax tree can be built for it                      *)
(* and, of a model, "merge" (a definition is supplied twice) and           *)
(* "unusable".  The first five of a query and "merge" are the diagnostic   *)
(* codes too.                                                              *)
(*                                                                         *)
(* The writer of several files is StagedWrite; here it is what that module *)
(* shows of it: everything is replaced at once or nothing is.              *)
(***************************************************************************)
EXTENDS CliConfig

CONSTANTS
  Names,      \* paths that a command line may give
  Canonical,  \* path -> the file it leads to (Path::canonicalize)
  Links,      \* the paths that are symbolic links
  ModelNames, \* the paths with the extension of a model
  Tree,       \* the paths below the working directory, in path order
  Components, \* path in Tree -> its components
  Globs,      \* pattern -> its components: the set of names each one matches
  Outside,    \* the files that are not below the working directory
  Identifiers,\* what explain knows
  Stdin,      \* "-"
  NoFile,     \* the text of a file that cannot be read
  Disks,      \* what the files may hold before the first command
  Commands,   \* the command lines that are run
  EditTexts,  \* what another program may write
  Budget      \* bound on commands, writes of others and faults together

Files == {Canonical[n] : n \in Names}

ASSUME NamesAssumption ==
  /\ Canonical \in [Names -> Files]
  /\ Links \subseteq Names /\ ModelNames \subseteq Names
  /\ Stdin \notin Names \cup Files
  /\ ToSet(Tree) \subseteq Names /\ DOMAIN Components = ToSet(Tree)
  /\ DOMAIN Globs \cap (Names \cup {Stdin}) = {} /\ Outside \subseteq Files
ASSUME BudgetAssumption == Budget \in Nat
ASSUME CommandsAssumption ==
  /\ Commands # {}
  /\ \A c \in Commands : c.mode = "write" => c.kind \in {"fmt", "lint"}
ASSUME GivenAssumption ==
  \A c \in Commands :
    /\ DOMAIN c.given = {"args", "noConfig", "print", "config", "flags", "user", "ancestors",
                         "files", "env", "garbled"}
    /\ {c.given.user, c.given.config} \subseteq DOMAIN c.given.files \cup {None}
    /\ c.given.ancestors \in Seq(DOMAIN c.given.files)

VARIABLES
  disk,      \* file -> its text
  pc,        \* "idle", "configure", "resolve", "load", "perform", "exited"
  cmd,       \* the command that runs or ran last
  again,     \* is this the second analysis of a `lint --fix`?
  store,     \* SourceStore: the texts read, models before queries
  todo,      \* the effects still to be had
  verdict,   \* exit status if they all succeed
  out,       \* standard output
  err,       \* standard error
  exit,      \* exit status
  start,     \* history: the disk when the command started
  disturbed, \* history: a write of another program or a fault since then
  past,      \* history: the command before, as a sequence of at most one
  spent      \* commands, writes and faults so far

history == <<start, past>>
vars == <<disk, pc, cmd, again, store, todo, verdict, out, err, exit, start,
          disturbed, past, spent>>

ExitSuccess == 0
ExitActionable == 1
ExitIndecisive == 2
ExitUsage == 3
ExitInternal == 4

-----------------------------------------------------------------------------
(* The inputs of a command *)

Key(n) == IF n = Stdin THEN Stdin ELSE Canonical[n]
Unreadable(n) == n # Stdin /\ (n \notin Names \/ disk[Key(n)] = NoFile)

\* match_components: "**" is any number of components.
AnyDepth == {"**"}
PathMatches(pattern, path) ==
  LET Matches[i \in 1..Len(pattern) + 1, j \in 1..Len(path) + 1] ==
        IF i > Len(pattern) THEN j > Len(path)
        ELSE IF pattern[i] = AnyDepth
        THEN Matches[i + 1, j] \/ (j <= Len(path) /\ Matches[i, j + 1])
        ELSE j <= Len(path) /\ path[j] \in pattern[i] /\ Matches[i + 1, j + 1]
  IN Matches[1, 1]

\* collect_files: a link is there even if what it leads to is not.
Found(n) == n \in Links \/ ~Unreadable(n)

\* expand_argument: a pattern stands for the files it matches, in path order.
Expand(argument) ==
  IF argument \notin DOMAIN Globs THEN <<argument>>
  ELSE SelectSeq(Tree, LAMBDA n : Found(n) /\ PathMatches(Globs[argument], Components[n]))
Expanded(arguments) == FlattenSeq([i \in 1..Len(arguments) |-> Expand(arguments[i])])

\* reject_symlink_escapes: a file named outright may be anywhere.
Escapes(argument) ==
  argument \in DOMAIN Globs /\ \E n \in ToSet(Expand(argument)) : Key(n) \in Outside

\* A pattern that is malformed or matches nothing (neither is expanded), or leads
\* out of the working directory, or is not one operand of a comparison.
BadArgument(c, argument) ==
  \/ Expand(argument) = <<>> \/ Escapes(argument)
  \/ c.kind = "eq" /\ Len(Expand(argument)) # 1

\* query_sources, model_sources: a file counts once, under its first name.
FirstNames(names) ==
  LET kept[n \in 0..Len(names)] ==
        IF n = 0 THEN <<>>
        ELSE IF \E i \in 1..Len(kept[n - 1]) : Key(kept[n - 1][i]) = Key(names[n]) THEN kept[n - 1]
        ELSE Append(kept[n - 1], names[n])
  IN kept[Len(names)]

\* comparison_sources keeps its two operands apart.
Sources(c) == IF c.kind = "eq" THEN c.args ELSE FirstNames(c.args)
Models(c) == IF c.kind \in {"lint", "eq", "canonical"} THEN FirstNames(c.models) ELSE <<>>
Inputs(c) == Models(c) \o Sources(c)
IsQuery(c, n) == n > Len(Models(c))

ReadsStdin(c) == \E i \in 1..Len(Inputs(c)) : Inputs(c)[i] = Stdin
InPlace(c) == c.mode = "write"

\* What ends a command, its patterns expanded, before anything is read.
Refused(c) ==
  \/ c.sarif /\ c.kind \in {"eq", "canonical"}
  \/ c.args = <<>>
  \/ Cardinality({i \in 1..Len(c.args) : c.args[i] = Stdin}) > 1
  \/ \E i \in 1..Len(Inputs(c)) : Unreadable(Inputs(c)[i])
  \/ \E i \in 1..Len(Models(c)) : Models(c)[i] \notin ModelNames
  \/ InPlace(c) /\ ReadsStdin(c) /\ (c.kind = "lint" \/ Len(Sources(c)) > 1)
  \/ (c.mode = "stdout" \/ c.kind = "canonical") /\ Len(Sources(c)) # 1

-----------------------------------------------------------------------------
(* Analysis: driver.rs over the passes and the policy *)

\* The codes each analysis can raise.  ValidatePass needs no model, the two
\* lint passes do nothing without one, and the formatter only parses.
QueryCodes(c) ==
  CASE c.kind = "fmt" -> {"recovery"}
    [] c.kind = "lint" /\ Models(c) # <<>> -> {"recovery", "shape", "property", "arity"}
    [] OTHER -> {"recovery", "shape"}
ModelCodes(c) == IF c.kind = "lint" THEN {"merge"} ELSE {}

\* What the passes for these codes report of the n-th input.  A missing date comes
\* with a fix unless the text needed recovery (latest_argument_fix).
Reports(codes, n, t) ==
  {[file |-> n, code |-> x,
    severity |-> IF x = "merge" THEN "warning" ELSE "error",
    fix |-> x = "arity" /\ "recovery" \notin t] : x \in t \cap codes}
Findings(c, n, t) == Reports(IF IsQuery(c, n) THEN QueryCodes(c) ELSE ModelCodes(c), n, t)

\* FindingPolicy::apply, after DiagnosticPolicy::finding_policy.
Suppressed(p, code) == code \in p.ignore \/ (p.select # {} /\ code \notin p.select)
Severity(c, f) ==
  IF f.code \in c.policy.deny THEN "error"
  ELSE IF f.code \in c.policy.warn THEN "warning"
  ELSE IF c.kind = "validate" /\ c.strict THEN "error"
  ELSE f.severity
Apply(c, fs) ==
  {[f EXCEPT !.severity = Severity(c, f)] : f \in {g \in fs : ~Suppressed(c.policy, g.code)}}

Diagnostics(c, texts) == UNION {Apply(c, Findings(c, n, texts[n])) : n \in 1..Len(texts)}

\* has_actionable_diagnostics, diagnostic_exit.
HasErrors(ds) == \E d \in ds : d.severity = "error"
DiagnosticExit(ds) == IF HasErrors(ds) THEN ExitActionable ELSE ExitSuccess

\* plan_fixes: what the fixes of the retained diagnostics make of each text.
FixedTexts(c, texts) ==
  [n \in 1..Len(texts) |->
     texts[n] \ {d.code : d \in {x \in Diagnostics(c, texts) : x.file = n /\ x.fix}}]

\* format_source.
Formatted(t) == t \ {"layout"}

\* FormatOutput::has_recovery_diagnostics: before the policy.
HasRecovery(c, texts) == \E n \in 1..Len(texts) : Findings(c, n, texts[n]) # {}

-----------------------------------------------------------------------------
(* Effects *)

\* One write to a stream, one replacement of files, or the second analysis.
Effect(to, item, texts, files) == [to |-> to, item |-> item, texts |-> texts, files |-> files]
ToStdout(item, texts) == Effect("stdout", item, texts, {})
ToStderr(item) == Effect("stderr", item, <<>>, {})
Replace(files) == Effect("files", "replacements", <<>>, files)
Relint == Effect("relint", "inputs", <<>>, {})

When(condition, effect) == IF condition THEN <<effect>> ELSE <<>>
Plan(effects, status) == [todo |-> effects, exit |-> status]

Changed(before, after) == {n \in 1..Len(before) : before[n] # after[n]}
Rendered(texts, chosen) ==
  FlattenSeq([n \in 1..Len(texts) |-> When(n \in chosen, texts[n])])
Replacements(c, before, after, chosen) ==
  {[name |-> Inputs(c)[n], before |-> before[n], after |-> after[n]] : n \in chosen}

\* Variant used to test the properties: --check is forgotten.
PreviewsChangesDiffOnly(mode) == mode = "diff"
\* FormatMode and FixMode: previews_changes.
PreviewsChanges(mode) == mode \in {"check", "diff"}

\* validate, and lint without --fix: emit_analysis.
ReportPlan(c, texts) ==
  Plan(When(~c.quiet, ToStdout("report", <<>>)), DiagnosticExit(Diagnostics(c, texts)))

\* The report of every lint --fix goes to standard error: emit_fix_analysis.
FixReport(c) == When(~c.quiet, ToStderr("report"))

\* Variant used to test the properties: no second analysis after the write.
LintFixPlanWithoutRelint(c, texts) ==
  LET fixed == FixedTexts(c, texts)
      changes == Changed(texts, fixed)
  IN Plan(When(changes # {}, Replace(Replacements(c, texts, fixed, changes))) \o FixReport(c),
          DiagnosticExit(Diagnostics(c, texts)))

\* fix_preview_exit.
FixPreviewExit(c, found, changes) ==
  IF HasErrors(found) \/ (PreviewsChanges(c.mode) /\ changes # {})
  THEN ExitActionable ELSE ExitSuccess

\* lint_preview_request: the fixed texts are linted again as they would be
\* written, with the models as they were read.
PreviewDiagnostics(c, fixed) == Diagnostics(c, fixed)

\* finish_lint_fixes.
LintFixPlan(c, texts) ==
  LET found == Diagnostics(c, texts)
      fixed == FixedTexts(c, texts)
      changes == Changed(texts, fixed)
      preview == FixPreviewExit(c, found, changes)
  IN CASE c.mode = "diff" ->
            Plan(When(changes # {}, ToStdout("diff", Rendered(fixed, changes))) \o FixReport(c),
                 preview)
       [] c.mode = "stdout" ->
            Plan(<<ToStdout("text", <<Last(fixed)>>)>> \o FixReport(c),
                 DiagnosticExit(PreviewDiagnostics(c, fixed)))
       [] c.mode = "check" -> Plan(FixReport(c), preview)
       [] c.mode = "write" /\ changes = {} -> Plan(FixReport(c), DiagnosticExit(found))
       [] OTHER -> Plan(<<Replace(Replacements(c, texts, fixed, changes)), Relint>>, ExitSuccess)

\* The end of lint --fix, over the files as they are after the write.
RelintPlan(c, texts) == Plan(FixReport(c), DiagnosticExit(Diagnostics(c, texts)))

\* Variant used to test the properties: only what is still reported blocks.
WritesAreSafeAfterPolicy(c, texts) == Diagnostics(c, texts) = {}

\* A presentation policy cannot make recovered output safe to write.
WritesAreSafe(c, texts) == ~HasRecovery(c, texts)

\* Variant used to test the properties: the policy may hide the reason.
BlockedMessageMissing(c, texts, blocked) == <<>>
BlockedMessage(c, texts, blocked) ==
  When(blocked # {} /\ HasRecovery(c, texts) /\ Diagnostics(c, texts) = {}, ToStderr("blocked"))

\* format and finish_format.  A text whose layout is right is printed as it is;
\* standard input alone is formatted to standard output.
FormatPlan(c, texts) ==
  LET found == Diagnostics(c, texts)
      formatted == [n \in 1..Len(texts) |-> Formatted(texts[n])]
      changes == Changed(texts, formatted)
      printed == {n \in 1..Len(texts) :
                    c.mode = "stdout" \/ (InPlace(c) /\ Inputs(c)[n] = Stdin)}
      shown == IF c.mode = "diff" THEN changes ELSE printed
      wanted == IF InPlace(c) THEN changes \ printed ELSE {}
      blocked == IF WritesAreSafe(c, texts) THEN {} ELSE wanted
      written == wanted \ blocked
  IN Plan(When(~c.quiet /\ found # {}, ToStderr("report"))
            \o When(shown # {},
                    ToStdout(IF c.mode = "diff" THEN "diff" ELSE "text", Rendered(formatted, shown)))
            \o When(written # {}, Replace(Replacements(c, texts, formatted, written)))
            \o BlockedMessage(c, texts, blocked),
          IF HasErrors(found) \/ (changes # {} /\ PreviewsChanges(c.mode)) \/ blocked # {}
          THEN ExitActionable ELSE ExitSuccess)

\* lower_relational_source: a text that needs recovery is not lowered.
Lowers(c, texts) == \A n \in 1..Len(texts) : IsQuery(c, n) => "recovery" \notin texts[n]

\* AnalysisDriver::compare and emit_canonical: what the relational core may answer.
Outcomes(c, texts) ==
  {"indecisive"} \cup
  IF ~Lowers(c, texts) THEN {} ELSE IF c.kind = "eq" THEN {"equivalent", "different"} ELSE {"emitted"}

\* comparison_exit, canonical_emission_exit.
OutcomeExit(outcome) ==
  CASE outcome = "indecisive" -> ExitIndecisive
    [] outcome = "different" -> ExitActionable
    [] OTHER -> ExitSuccess

\* emit_comparison, emit_canonical_emission.
OutcomePlans(c, texts) ==
  {Plan(When(~c.quiet, ToStdout("outcome", <<>>)), OutcomeExit(o)) : o \in Outcomes(c, texts)}

Plans(c, texts, second) ==
  IF second THEN {RelintPlan(c, texts)} ELSE
  CASE c.kind \in {"eq", "canonical"} -> OutcomePlans(c, texts)
    [] c.kind = "fmt" -> {FormatPlan(c, texts)}
    [] c.kind = "lint" /\ c.mode # "report" -> {LintFixPlan(c, texts)}
    [] OTHER -> {ReportPlan(c, texts)}

-----------------------------------------------------------------------------
(* The process *)

\* main: the message of a failure goes to standard error.
Fail(status) ==
  /\ pc' = "exited"
  /\ exit' = status
  /\ err' = Append(err, ToStderr("error"))
  /\ UNCHANGED <<store, again, todo, verdict, out>>

\* A command with the settings that the workflows read.
Configured(c, config) ==
  [kind |-> c.kind, mode |-> c.mode, stdin |-> c.stdin, given |-> c.given, args |-> c.given.args,
   models |-> config["models"], policy |-> CompiledPolicy(config), strict |-> config["strict"],
   quiet |-> config["quiet"], sarif |-> config["format"] = "sarif"]

\* A second command takes the same inputs as the first, in any mode.
Follows(c) == c.kind = cmd.kind /\ c.given = cmd.given

Invoke(c) ==
  /\ pc = "idle" \/ (pc = "exited" /\ past = <<>> /\ Follows(c))
  /\ spent < Budget
  /\ pc' = "configure" /\ cmd' = Configured(c, Defaults) /\ again' = FALSE
  /\ store' = <<>> /\ todo' = <<>> /\ verdict' = ExitSuccess
  /\ out' = <<>> /\ err' = <<>> /\ exit' = ExitSuccess
  /\ start' = disk /\ disturbed' = FALSE
  /\ past' = IF pc = "idle" THEN <<>>
             ELSE <<[cmd |-> cmd, start |-> start, disk |-> disk, out |-> out, exit |-> exit,
                     disturbed |-> disturbed]>>
  /\ spent' = spent + 1
  /\ UNCHANGED disk

\* A command whose only effect is a text on standard output.
Prints(item) ==
  /\ pc' = "perform" /\ todo' = <<ToStdout(item, <<>>)>> /\ verdict' = ExitSuccess
  /\ UNCHANGED <<store, again, out, err, exit>>

\* run: completions need no configuration, and --print-config no command.
Configure ==
  /\ pc = "configure"
  /\ LET unconfigured == cmd.kind = "completions" /\ ~cmd.given.print
         resolved == ResolveConfig(cmd.given)
     IN \/ unconfigured /\ Prints("completions") /\ UNCHANGED cmd
        \/ /\ ~unconfigured /\ resolved.error # NoFault
           /\ Fail(ExitUsage) /\ UNCHANGED cmd
        \/ /\ resolved.error = NoFault /\ cmd.given.print
           /\ Prints("configuration") /\ UNCHANGED cmd
        \/ /\ resolved.error = NoFault /\ ~cmd.given.print /\ cmd.kind = "none"
           /\ Fail(ExitUsage) /\ UNCHANGED cmd
        \/ /\ resolved.error = NoFault /\ ~cmd.given.print /\ cmd.kind \notin {"none", "completions"}
           /\ pc' = "resolve" /\ cmd' = Configured(cmd, resolved.config)
           /\ UNCHANGED <<store, again, todo, verdict, out, err, exit>>
  /\ UNCHANGED <<disk, disturbed, spent, history>>

\* explain
Explain ==
  /\ pc = "resolve" /\ cmd.kind = "explain"
  /\ IF cmd.sarif \/ cmd.args[1] \notin Identifiers THEN Fail(ExitUsage) ELSE Prints("explanation")
  /\ UNCHANGED <<disk, cmd, disturbed, spent, history>>

\* query_sources or comparison_sources, the checks of the command, model_sources.
Resolve ==
  /\ pc = "resolve" /\ cmd.kind # "explain"
  /\ LET expanded == [cmd EXCEPT !.args = Expanded(@)] IN
       IF (\E i \in 1..Len(cmd.args) : BadArgument(cmd, cmd.args[i])) \/ Refused(expanded)
       THEN Fail(ExitUsage) /\ UNCHANGED cmd
       ELSE /\ pc' = "load" /\ cmd' = expanded
            /\ UNCHANGED <<store, again, todo, verdict, out, err, exit>>
  /\ UNCHANGED <<disk, disturbed, spent, history>>

Loading == pc = "load" /\ Len(store) < Len(Inputs(cmd))
Loaded == pc = "load" /\ Len(store) = Len(Inputs(cmd))

\* driver_failure.
DriverFailure(error) == IF error = "Parse" THEN ExitInternal ELSE ExitUsage

\* SourceFile::load of the next input; standard input was read by Resolve.
Load ==
  /\ Loading
  /\ LET name == Inputs(cmd)[Len(store) + 1] IN
       IF Unreadable(name) THEN Fail(DriverFailure("SourceLoad"))
       ELSE /\ store' = Append(store, IF name = Stdin THEN cmd.stdin ELSE disk[Key(name)])
            /\ UNCHANGED <<pc, again, todo, verdict, out, err, exit>>
  /\ UNCHANGED <<disk, cmd, disturbed, spent, history>>

\* DriverError of load_model, then of run_sources over the queries.
DriverErrors(c, texts) ==
  IF \E n \in 1..Len(texts) : ~IsQuery(c, n) /\ "unusable" \in texts[n] THEN {"ModelLoad"}
  ELSE IF \E n \in 1..Len(texts) : IsQuery(c, n) /\ "unparsable" \in texts[n] THEN {"Parse"}
  ELSE {}

\* load_model, then run_sources over the queries, then what follows from it.
Analyse ==
  /\ Loaded
  /\ IF DriverErrors(cmd, store) # {}
     THEN \E error \in DriverErrors(cmd, store) : Fail(DriverFailure(error))
     ELSE \E plan \in Plans(cmd, store, again) :
            /\ pc' = "perform" /\ todo' = plan.todo /\ verdict' = plan.exit
            /\ UNCHANGED <<store, again, out, err, exit>>
  /\ UNCHANGED <<disk, cmd, disturbed, spent, history>>

Performs(to) == pc = "perform" /\ todo # <<>> /\ Head(todo).to = to

Emit ==
  /\ \/ Performs("stdout") /\ out' = Append(out, Head(todo)) /\ UNCHANGED err
     \/ Performs("stderr") /\ err' = Append(err, Head(todo)) /\ UNCHANGED out
  /\ todo' = Tail(todo)
  /\ UNCHANGED <<disk, pc, cmd, again, store, verdict, exit, disturbed, spent, history>>

\* replace_all refuses a link and a text that is not the one analysed.
StillAsRead(files) ==
  \A r \in files : r.name \notin Links /\ disk[Key(r.name)] = r.before

Installed(files) ==
  [f \in Files |->
     LET here == {r \in files : Key(r.name) = f} IN
       IF here = {} THEN disk[f] ELSE (CHOOSE r \in here : TRUE).after]

InstallAll ==
  /\ Performs("files")
  /\ IF StillAsRead(Head(todo).files)
     THEN /\ disk' = Installed(Head(todo).files)
          /\ todo' = Tail(todo)
          /\ UNCHANGED <<pc, store, again, verdict, out, err, exit>>
     ELSE Fail(ExitInternal) /\ UNCHANGED disk
  /\ UNCHANGED <<cmd, disturbed, spent, history>>

\* driver.lint(request) once more: the files are read again.
StartRelint ==
  /\ Performs("relint")
  /\ pc' = "load" /\ again' = TRUE /\ store' = <<>> /\ todo' = <<>>
  /\ UNCHANGED <<disk, cmd, verdict, out, err, exit, disturbed, spent, history>>

Exit ==
  /\ pc = "perform" /\ todo = <<>>
  /\ pc' = "exited" /\ exit' = verdict
  /\ UNCHANGED <<disk, cmd, again, store, todo, verdict, out, err, disturbed, spent, history>>

-----------------------------------------------------------------------------
(* What goes wrong around it *)

Trouble == spent < Budget /\ spent' = spent + 1 /\ disturbed' = TRUE

\* Another program writes, creates or removes a file.
Edit(f, t) ==
  /\ pc \in {"resolve", "load", "perform"}
  /\ Trouble
  /\ disk' = [disk EXCEPT ![f] = t]
  /\ UNCHANGED <<pc, cmd, again, store, todo, verdict, out, err, exit, history>>

\* A stream cannot be written, or the writer meets an I/O error: it has put
\* everything back, or has replaced everything and cannot clean up.
Fault ==
  /\ pc = "perform" /\ todo # <<>> /\ Head(todo).to # "relint"
  /\ Trouble
  /\ Fail(ExitInternal)
  /\ \/ UNCHANGED disk
     \/ /\ Performs("files") /\ StillAsRead(Head(todo).files)
        /\ disk' = Installed(Head(todo).files)
  /\ UNCHANGED <<cmd, history>>

-----------------------------------------------------------------------------

Init ==
  /\ disk \in Disks
  /\ pc = "idle" /\ again = FALSE /\ store = <<>> /\ todo = <<>>
  /\ cmd = Configured(CHOOSE c \in Commands : TRUE, Defaults)
  /\ verdict = ExitSuccess /\ exit = ExitSuccess
  /\ out = <<>> /\ err = <<>>
  /\ start = disk /\ disturbed = FALSE /\ past = <<>> /\ spent = 0

Process == Configure \/ Explain \/ Resolve \/ Load \/ Analyse \/ Emit \/ InstallAll \/ StartRelint \/ Exit

Next ==
  \/ \E c \in Commands : Invoke(c)
  \/ Process
  \/ \E f \in Files, t \in EditTexts : Edit(f, t)
  \/ Fault

Spec == Init /\ [][Next]_vars

-----------------------------------------------------------------------------
(* Properties *)

\* The layers that count, from the lowest: "built-in defaults; the user config
\* file; the nearest repository config (or --config); PURE_ANALYZER_* environment
\* variables; command-line flags. --no-config disables only file layers".
Ranked == <<Stated(Defaults)>> \o Layers(cmd.given)
Damaged == [state |-> "malformed", version |-> ConfigVersion, layer |-> <<>>]
Ruling(setting) ==
  Ranked[Max({i \in 1..Len(Ranked) : setting \in DOMAIN Ranked[i].layer})].layer[setting]
Hidden ==
  {d \in DOMAIN cmd.given.files : IsFile(cmd.given, d)} \ ToSet(ConfigFiles(cmd.given))

\* A command runs with what the highest layer that states a setting says of it,
\* once every layer that counts has been read without fault; a file that a nearer
\* one, --config or --no-config hides is not read, so that damage to it changes
\* nothing (ConfigResolver::resolve, apply, discover_repository_config).
HighestLayerRules ==
  pc = "resolve" =>
    /\ \A i \in 1..Len(Ranked) : Ranked[i].error = NoFault
    /\ cmd = Configured(cmd, [s \in DOMAIN Defaults |-> Ruling(s)])
    /\ \A d \in Hidden :
         ResolveConfig([cmd.given EXCEPT !.files[d] = Damaged]) = ResolveConfig(cmd.given)

\* A command that rewrites files, all of them named, has come to its end alone.
Rewrote ==
  pc = "exited" /\ ~disturbed /\ InPlace(cmd) /\ ~cmd.given.print /\ ~ReadsStdin(cmd)

\* What a command may make of a text.
Outcome(c, t) ==
  IF c.kind = "fmt" THEN Formatted(t)
  ELSE t \ {f.code : f \in {g \in Apply(c, Reports(QueryCodes(c), 0, t)) : g.fix}}

\* A command overwrites a file only with the formatted or fixed form of the
\* text that the file holds at that moment, and never a text that needed
\* recovery, whatever the policy hides; fmt writes nothing at all then
\* (has_recovery_diagnostics, finish_format, fix_replacements, replace_all).
SafeToWrite ==
  [][disk' # disk /\ Performs("files") /\ (todo' # todo \/ pc' # pc) =>
       /\ \A f \in Files :
            disk'[f] # disk[f] => "recovery" \notin disk[f] /\ disk'[f] = Outcome(cmd, disk[f])
       /\ cmd.kind = "fmt" => \A n \in 1..Len(store) : "recovery" \notin store[n]]_vars

\* The exit status of a command that rewrites files speaks of the files it
\* leaves: a check of them right after it would end with the same status
\* (the second lint of finish_lint_fixes, blocked_in_place_change).
VerdictMatchesFiles ==
  Rewrote /\ exit \in {ExitSuccess, ExitActionable} =>
    LET now == [n \in 1..Len(Inputs(cmd)) |-> disk[Key(Inputs(cmd)[n])]]
        checked == CHOOSE p \in Plans([cmd EXCEPT !.mode = "check"], now, FALSE) : TRUE
    IN exit = checked.exit

Follow(mode) ==
  /\ Rewrote
  /\ past # <<>> /\ past[1].cmd.mode = mode /\ past[1].cmd.kind = cmd.kind
  /\ ~past[1].disturbed

\* A preview agrees with the command it previews.  A check or a diff succeeds
\* exactly when the command itself would succeed and leave every file alone; what
\* --stdout prints is what the command would write, and for lint the status is
\* the same too (previews_changes, fix_preview_exit, lint_preview_request, the
\* preview of finish_format).
PreviewIsWrite ==
  /\ Follow("check") \/ Follow("diff") =>
       ((past[1].exit = ExitSuccess) <=> (exit = ExitSuccess /\ disk = start))
  /\ Follow("stdout") /\ {exit, past[1].exit} \subseteq {ExitSuccess, ExitActionable} =>
       /\ cmd.kind = "lint" => past[1].exit = exit
       /\ cmd.kind = "lint" \/ exit = ExitSuccess =>
            \E i \in 1..Len(past[1].out) :
              past[1].out[i].texts = <<disk[Key(Last(Inputs(cmd)))]>>

\* A command that rewrites files never fails silently: unless it was told to
\* be quiet it says on standard error why its status is not zero, even if the
\* policy hides every diagnostic (blocked_write_message, main).
RefusalExplained ==
  pc = "exited" /\ exit # ExitSuccess /\ InPlace(cmd) /\ ~cmd.quiet => err # <<>>
=============================================================================
