---------------------------- MODULE MCCliCommand ----------------------------
(***************************************************************************)
(* Two query files, one of them with a second name and a link, and a model  *)
(* outside the working directory, with a link to it inside; and the layers  *)
(* of a configuration.                                                      *)
(***************************************************************************)
EXTENDS CliCommand

Paths == {"a", "./a", "link", "b", "model", "sub/away"}
Leads ==
  [n \in Paths |-> IF n \in {"./a", "link"} THEN "a" ELSE IF n = "sub/away" THEN "model" ELSE n]

\* * takes the top level, ** all of it.
MCTree == <<"a", "b", "link", "sub/away">>
Parts == [n \in ToSet(MCTree) |-> IF n = "sub/away" THEN <<"sub", "away">> ELSE <<n>>]
Patterns ==
  [p \in {"[ab]", "**/[ab]", "**/*", "z*"} |->
     CASE p = "[ab]" -> <<{"a", "b"}>>
       [] p = "**/[ab]" -> <<AnyDepth, {"a", "b"}>>
       [] p = "**/*" -> <<AnyDepth, {"a", "b", "link", "away"}>>
       [] p = "z*" -> <<{}>>]

Gone == {"gone"}
QueryTexts ==
  {{}, {"layout"}, {"arity"}, {"arity", "layout", "shape"}, {"recovery"},
   {"recovery", "layout", "arity"}, {"property"}, {"unparsable"}}
SomeTexts == {{}, {"arity", "layout", "shape"}, {"recovery", "layout", "arity"}}
OtherTexts == {{"layout", "arity"}, {"recovery"}}
Contents == {"a", "b", "model"}
AllDisks ==
  {[f \in Contents |-> IF f = "a" THEN pair[1] ELSE IF f = "b" THEN pair[2] ELSE {"merge"}] :
     pair \in (QueryTexts \X {{}}) \cup (SomeTexts \X OtherTexts)}
  \cup {[f \in Contents |-> IF f = "model" THEN m ELSE {}] : m \in {Gone, {"unusable"}}}
  \cup {[f \in Contents |-> IF f = "model" THEN {"merge"} ELSE Gone]}

\* The files of a configuration: the user's, and those of two directories.
Dirs == {"home", "work", "root"}
Bases == [d \in Dirs |-> "model" :> IF d = "work" THEN "model" ELSE "b"]
Codes ==
  [p \in {"recovery", "arity", "property", "merge", "PUR*", "nothing"} |->
     CASE p = "PUR*" -> {"recovery", "shape", "property", "arity", "merge"}
       [] p = "nothing" -> {}
       [] OTHER -> {p}]
NoSettings == [s \in {} |-> 0]
Absent == [state |-> "absent", version |-> 1, layer |-> NoSettings]
Toml(layer) == [state |-> "toml", version |-> 1, layer |-> layer]

Given(args, flags) ==
  [args |-> args, noConfig |-> FALSE, print |-> FALSE, config |-> None, flags |-> flags,
   user |-> "home", ancestors |-> <<"work", "root">>, files |-> [d \in Dirs |-> Absent],
   env |-> NoSettings, garbled |-> {}]

Line(kind, mode, given) ==
  [kind |-> kind, mode |-> mode, stdin |-> {"layout", "arity"}, given |-> given]

Keep == [models |-> <<"model">>]
Flags == {Keep, "ignore" :> {"recovery"} @@ Keep, "warn" :> {"arity", "recovery"} @@ Keep}
NoModels == [models |-> <<>>]

Modes == {"write", "check", "stdout", "diff"}
Args == {<<"a">>, <<"./a", "b", "a">>, <<"link">>}
Workflows ==
  {Line(k, m, Given(a, p)) : k \in {"lint", "fmt"}, m \in Modes, a \in Args, p \in Flags}
  \cup {Line(k, m, Given(a, NoModels)) :
          k \in {"lint", "fmt"}, m \in Modes, a \in {<<"-">>, <<"a", "-">>}}
  \cup {Line("fmt", "write", Given(<<p>>, NoModels)) : p \in DOMAIN Patterns}
  \cup {Line("lint", "report", Given(<<"a">>, "deny" :> {"merge"} @@ Keep)),
         Line("lint", "check", Given(<<"a">>, [models |-> <<"b">>])),
         Line("lint", "check", Given(<<"a">>, "select" :> {"property"} @@ Keep)),
         Line("fmt", "write", Given(<<"a", "b">>, [quiet |-> TRUE])),
         Line("validate", "report", Given(<<"a">>, [strict |-> TRUE])),
         Line("validate", "report", Given(<<>>, NoModels)),
         Line("validate", "report", Given(<<"-", "-">>, NoModels)),
         Line("eq", "report", Given(<<"a", "a">>, Keep)),
         Line("eq", "report", Given(<<"[ab]", "a">>, Keep)),
         Line("eq", "report", Given(<<"a", "b">>, [format |-> "sarif"])),
         Line("canonical", "report", Given(<<"a">>, [models |-> <<"model", "model">>])),
         Line("explain", "report", Given(<<"merge">>, NoModels)),
         Line("explain", "report", Given(<<"unknown">>, NoModels)),
         Line("completions", "report", Given(<<>>, NoModels)),
         Line("completions", "report", [Given(<<>>, NoModels) EXCEPT !.print = TRUE]),
         Line("none", "report", Given(<<>>, NoModels))}
  \cup {Line("fmt", m, [Given(<<"a">>, NoModels) EXCEPT !.print = TRUE]) : m \in {"write", "stdout"}}

\* A lint of one file, configured in every way: the layers state different
\* things of the same settings, some are faulty, some are hidden.
Low == Toml("warn" :> {"arity"} @@ "models" :> <<"b">> @@ [quiet |-> TRUE])
High == Toml("warn" :> {} @@ "ignore" :> {"PUR*"} @@ [models |-> <<"model">>])
Base == Given(<<"a">>, NoModels)
Layered ==
  {[Base EXCEPT !.files["home"] = Low, !.files["work"] = high, !.env = env] :
     high \in {Absent, High}, env \in {NoSettings, "ignore" :> {} @@ [quiet |-> FALSE]}}
Located ==
  {[Base EXCEPT !.files["home"] = Low, !.files["work"] = work, !.files["root"] = High,
                !.noConfig = none, !.config = config] :
     work \in {Absent, [High EXCEPT !.state = "malformed"]},
     none \in BOOLEAN, config \in {None, "root"}}
Faulty ==
  {[Base EXCEPT !.files["work"] = f] :
     f \in {[High EXCEPT !.state = "unreadable"], [High EXCEPT !.version = 2], Toml([jobs |-> 0])}}
  \cup {[Base EXCEPT !.files["work"] = Low, !.env = env] :
          env \in {[select |-> {"nothing"}], [models |-> <<"">>], [line_width |-> 0],
                  [deny |-> {"arity"}], [unheard |-> 0]}}
  \cup {[Base EXCEPT !.garbled = {"jobs"}], [Base EXCEPT !.config = "work", !.user = None]}
Configurations ==
  Layered \cup {g \in Located : g.noConfig => g.config = None} \cup Faulty
Lines == Workflows \cup {Line("lint", "report", given) : given \in Configurations}

Writes == {Gone, {"layout"}, {"recovery", "layout"}}
=============================================================================
