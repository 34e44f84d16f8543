---------------------------- MODULE MCAnalysis ----------------------------
(* Small models, written one declaration at a time, for the loader and the *)
(* analyses that run over a loaded graph.                                  *)
EXTENDS ModelLoader, LocalFlow, QueryCanonical, PureFileFacts

CONSTANT Parts  \* the machines a run is about

VARIABLE part   \* which of them this behaviour is about

vars == <<loaderVars, flowVars, queryVars, parserVars, domainVars, part>>

Member(name, target, kind) ==
  [name |-> name, target |-> target, mult |-> "one", kind |-> kind,
   arguments |-> IF kind = "user" THEN 1 ELSE 0]

ClassDecl(path, supers, temporal, members, unread) ==
  [what |-> "class", path |-> path, supers |-> supers, temporal |-> temporal,
   members |-> members, unread |-> unread]

AssociationDecl(path, temporal, members, unread) ==
  [what |-> "association", path |-> path, supers |-> {}, temporal |-> temporal,
   members |-> members, unread |-> unread]

OtherDecl == [what |-> "other", path |-> "Z", supers |-> {}, temporal |-> "none",
              members |-> <<>>, unread |-> "nothing"]

x(target, kind) == Member("x", target, kind)

MCDeclarations == <<
  ClassDecl("A", {"B"}, "none", <<>>, "nothing"),
  ClassDecl("A", {"B", "C"}, "none", <<>>, "nothing"),
  ClassDecl("A", {"B"}, "none", <<>>, "extends"),
  ClassDecl("A", {}, "none", <<x("C", "property")>>, "nothing"),
  ClassDecl("A", {}, "none", <<x("C", "property")>>, "member"),
  ClassDecl("A", {}, "none", <<x("C", "property"), x("B", "property")>>, "nothing"),
  ClassDecl("B", {"A"}, "none", <<>>, "nothing"),
  ClassDecl("B", {}, "none", <<x("C", "point")>>, "nothing"),
  ClassDecl("B", {}, "none", <<x("C", "user")>>, "name"),
  ClassDecl("C", {}, "none", <<x("C", "property")>>, "nothing"),
  ClassDecl("C", {}, "business", <<>>, "nothing"),
  ClassDecl("C", {}, "business", <<>>, "temporal"),
  AssociationDecl("P", "none", <<x("C", "property"), Member("y", "B", "property")>>, "nothing"),
  AssociationDecl("P", "none", <<x("C", "property"), Member("y", "B", "property")>>, "member"),
  AssociationDecl("Q", "bitemporal", <<x("C", "property"), Member("y", "A", "property")>>, "nothing"),
  AssociationDecl("Q", "none", <<x("C", "property"), Member("z", "B", "property")>>, "nothing"),
  AssociationDecl("R", "none", <<x("A", "property"), x("A", "property")>>, "nothing"),
  OtherDecl >>

MCBases == { <<>>,
             << ClassDecl("A", {"B"}, "none", <<>>, "nothing"),
                ClassDecl("B", {"C"}, "none", <<>>, "nothing"),
                ClassDecl("C", {"D"}, "none", <<>>, "nothing"),
                ClassDecl("D", {}, "none", <<>>, "nothing") >> }

MCPathOrder == <<"A", "B", "C", "D", "P", "Q", "R", "Z">>


\* A model under a query: A.d is a B reached through a generated date navigation,
\* B is an A that also declares an m, and C, the type of that m and of a relation's
\* column m, is partly read.
Loaded(decls, provenance) == Materialize(LowerSource(Source(provenance, decls), 1)).graph

FlowGraphs ==
  { Loaded(<< ClassDecl("A", {}, "none", <<Member("d", "B", "point")>>, "nothing"),
              ClassDecl("B", {"A"}, "business", <<Member("m", "C", "property")>>, "nothing"),
              ClassDecl("C", {}, "none", <<>>, "member") >>, "pure") }

FlowNames == {"d", "m"}

TypedParameter(name, typed) == [name |-> name, typed |-> typed]
PlainParameter(name) == TypedParameter(name, "no")

\* No parameter, one untyped, one with a type that is read, is not or is a
\* class's, two of them, two of one name.
MCParameterLists ==
  { <<>>, <<PlainParameter("p")>>, <<PlainParameter("q")>>,
    <<TypedParameter("p", "row")>>, <<TypedParameter("p", "unread")>>, <<TypedParameter("p", "B")>>,
    <<PlainParameter("p"), PlainParameter("q")>>, <<PlainParameter("p"), PlainParameter("p")>> }

\* A key and a comparator.
SortParameterLists == { <<PlainParameter("p")>>, <<PlainParameter("p"), PlainParameter("q")>> }

MCColumns == << [name |-> "m", type |-> "C", mult |-> "one"] >>

-----------------------------------------------------------------------------
(* Queries over two classes, A with properties of several multiplicities   *)
(* and B that points at A.                                                 *)

Field(name, target, mult) ==
  [name |-> name, target |-> target, mult |-> mult, kind |-> "property", arguments |-> 0]

MCQueryGraphs ==
  { Loaded(<< ClassDecl("A", {}, "none",
                        <<Field("name", "String", <<1, 1>>), Field("mgr", "A", <<1, 1>>),
                          Field("nick", "String", <<0, 1>>), Field("pals", "A", <<0, 9>>),
                          Field("flag", "Boolean", <<1, 1>>)>>, "nothing"),
              ClassDecl("B", {}, "none", <<Field("owner", "A", <<1, 1>>)>>, "nothing") >>, "pure") }

X == [k |-> "var", v |-> "x"]
Dot(input, name) == [k |-> "nav", input |-> input, name |-> name]
Lit(type, value) == [k |-> "lit", type |-> type, value |-> value]
Eq(left, right) == [k |-> "eq", left |-> left, right |-> right, negated |-> FALSE]
Neq(left, right) == [k |-> "eq", left |-> left, right |-> right, negated |-> TRUE]
Spec1(alias, body) == [alias |-> alias, body |-> body]
By(name, direction) == [name |-> name, direction |-> direction]
Par(v) == [k |-> "var", v |-> v]

MCFilterBodies == { Lit("Boolean", "true"), X, Dot(X, "flag"),
                    Eq(Dot(X, "name"), Lit("String", "s")),
                    Neq(Dot(X, "c"), Lit("String", "s")) }

MCMapBodies == { Dot(X, "mgr"), Dot(Dot(X, "mgr"), "name"), Lit("Boolean", "true"),
                 Dot(X, "c"), Dot(X, "nick"), Par("z") }

MCColumnSpecs == { <<Spec1("c", Dot(X, "name"))>>,
                   <<Spec1("c", Dot(X, "name")), Spec1("d", X)>>,
                   <<Spec1("c", Dot(X, "mgr")), Spec1("c d", Dot(X, "nick"))>> }

MCSelections == { <<"c">>, <<"d", "c">>, <<"B", "A">>, <<"A", "A">> }

MCSortLists == { <<By("c", "descending")>>, <<By("A", "ascending")>>, <<By("A", "descending")>>,
                 <<By("A", "descending"), By("B", "ascending")>> }

MCJoinCalls ==
  { [right |-> <<[op |-> "all", class |-> "B"]>>, body |-> Eq(Par("l"), Dot(Par("r"), "owner"))],
    [right |-> <<[op |-> "all", class |-> "B"]>>, body |-> Lit("Boolean", "true")],
    [right |-> <<[op |-> "paren", nodes |-> <<[op |-> "all", class |-> "B"], [op |-> "distinct"]>>]>>,
     body |-> Neq(Par("l"), Dot(Par("r"), "owner"))] }

Person(name, mgr, nick) ==
  [n \in {"name", "mgr", "nick"} |->
     CASE n = "name" -> name [] n = "mgr" -> mgr [] n = "nick" -> nick]

Database(first, second) ==
  [extent |-> [c \in {"A", "B"} |-> IF c = "A" THEN <<"a1", "a2">> ELSE <<"b1", "b2">>],
   attr |-> [o \in {"a1", "a2", "b1", "b2"} |->
               CASE o = "a1" -> first [] o = "a2" -> second
                 [] OTHER -> [n \in {"owner"} |-> IF o = "b1" THEN "a2" ELSE "a1"]]]

MCDatabases == { Database(Person("t", "a2", "null"), Person("s", "a2", "s")),
                 Database(Person("s", "a1", "t"), Person("s", "a1", "null")) }

MCValueOrder == <<"null", "a1", "a2", "b1", "b2", "false", "s", "t", "true">>

-----------------------------------------------------------------------------

LoaderRests == written = <<>> /\ elements = NoElements /\ graph = EmptyGraph /\ status = "reading"

FlowRests == /\ model = EmptyGraph /\ walk = <<>> /\ frames = <<>>
             /\ site = NoSite /\ visited = 0 /\ entered = 0

QueryRests == /\ catalog = EmptyGraph /\ texts = [s \in Sides |-> <<>>]
              /\ lowered = [s \in Sides |-> Nothing(0, 1)]

\* Drafts around each construct of the query grammar: operators, postfix
\* chains, argument lists, columns, collections, lambdas, types, blocks,
\* instances and islands.
Draft(opening, kinds, room) ==
  [opening |-> opening, kinds |-> kinds, room |-> room, closing |-> <<>>]

MCDrafts == {
  Draft(<<>>, {"id", "+", "*", "==", "(", ")", "-", "ws", ",", ";"}, 4),
  Draft(<<"id", "*", "id">>, {"id", "+", "*", "==", "-", "ws", ")"}, 4),
  Draft(<<>>, {"id", "->", "(", ")", "all", "allVersions", ".", "$", "[", "]"}, 4),
  Draft(<<"id", "(", "id">>, {"id", ",", ")", ";", "=", "}", "ws"}, 4),
  Draft(<<"~", "[">>, {"id", ",", "]", ":", "|", ";", "ws", "string"}, 4),
  Draft(<<"[">>, {"id", ",", "]", ";", "ws", ")"}, 4),
  Draft(<<"{">>, {"id", ":", "|", "<", ">", "[", "]", "int", ",", "}"}, 4),
  Draft(<<"id", ":", "id">>, {"id", "<", ">", "[", "]", "int", "|", ".", "*", ","}, 4),
  Draft(<<"@", "id", "<">>, {"id", "(", ":", ")", ">", ",", "<"}, 4),
  Draft(<<"|">>, {"let", "id", "=", ";", "$", "}", ",", "ws"}, 4),
  Draft(<<"^">>, {"id", "(", "=", ",", ")", "$", "ws"}, 4),
  Draft(<<"#>{">>, {"id", ".", "::", "}#", ";", "#", "#/", "error"}, 4),
  Draft(<<"#{">>, {"#{", "}#", "{", "}", "id", ";"}, 4) }

\* Drafts around each construct of a model source: the top level, headers,
\* members, types, multiplicities, parameters, bodies, annotations, profiles.
Around(opening, kinds, closing) ==
  [opening |-> opening, kinds |-> kinds, room |-> 4, closing |-> closing]

InClass == <<"Class", "id", "{">>

MCDomainDrafts == {
  Around(<<>>, {"Class", "import", "id", "{", "}", ";", "ws"}, <<>>),
  Around(<<"#", "#", "#">>, {"id", "{", "}", ";", "Class", "import"}, <<>>),
  Around(<<"Class", "id", "{", "}">>, {"Association", "id", "{", "}", ";", "ws"}, <<>>),
  Around(<<"Class", "id">>, {"extends", "id", ",", "::", "{", ";"}, <<"{", "}">>),
  Around(InClass, {"id", ":", "(", ";", "Class", "{", "}"},
         <<"id", ":", "id", "[", "int", "]", ";", "}">>),
  Around(InClass, {"<", ">", "id", "{", "}", ";"}, <<"x", ":", "id", "[", "int", "]", ";", "}">>),
  Around(InClass \o <<"x", ":">>, {"id", "<", ">", ",", "::", "error"},
         <<"[", "int", "]", ";", "}">>),
  Around(InClass \o <<"x", ":", "id", "<", "id", "<">>, {"id", "<", ">", ",", "ws"},
         <<">", ">", "[", "int", "]", ";", "}">>),
  Around(InClass \o <<"x", ":", "id", "[">>, {"int", "*", ".", "]", "ws", ";"}, <<"]", ";", "}">>),
  Around(InClass \o <<"x", ":", "id", "[", "int", "]", "=">>, {"(", ")", "{", "}", ";", "id"},
         <<";", "}">>),
  Around(InClass \o <<"x", "(", "id", ":", "id", "[", "int", "]">>,
         {"id", ":", ",", ")", "}", "["},
         <<")", ":", "id", "[", "int", "]", "{", "}", "}">>),
  Around(InClass \o <<"x", "(", ")", ":", "id", "[", "int", "]">>, {"{", "}", ";", "id", ":", "ws"},
         <<"}">>),
  Around(<<"Class", "<", "<">>, {"id", ".", ">", ",", "::", "ws"}, <<">", ">", "id", "{", "}">>),
  Around(<<"Class", "{">>, {"id", "=", "{", "}", ".", "int"}, <<"}", "id", "{", "}">>),
  Around(<<"Association", "id", "{", "x", ":", "id", "[", "int", "]", ";", "id", ":", "id">>,
         {"[", "int", "]", ";", "}", "id"}, <<"}">>),
  Around(<<"Profile", "id", "{">>, {"stereotypes", "tags", ":", "[", "id", ";"}, <<"]", "}">>),
  Around(<<"Profile", "id", "{", "stereotypes", ":", "[">>, {"id", ",", "]", ";", "ws", "Class"},
         <<"]", "}">>),
  Around(<<"Profile", "id", "{", "tags", ":", "[">>, {"id", "[", "]", "(", ")", "}"}, <<"]", "}">>) }

ParserRests == draft = Draft(<<>>, {}, 0) /\ source = <<>>

DomainRests == page = Draft(<<>>, {}, 0) /\ text = <<>>

Init == part \in Parts /\
  \/ part = "model" /\ LoaderInit /\ FlowRests /\ QueryRests /\ ParserRests /\ DomainRests
  \/ part = "flow" /\ FlowInit(FlowGraphs) /\ LoaderRests /\ QueryRests /\ ParserRests /\ DomainRests
  \/ part = "query" /\ QueryInit /\ LoaderRests /\ FlowRests /\ ParserRests /\ DomainRests
  \/ part = "parser" /\ ParserInit /\ LoaderRests /\ FlowRests /\ QueryRests /\ DomainRests
  \/ part = "domain" /\ DomainInit /\ LoaderRests /\ FlowRests /\ QueryRests /\ ParserRests

Next ==
  /\ UNCHANGED part
  /\ \/ part = "model" /\ LoaderNext /\ UNCHANGED <<flowVars, queryVars, parserVars, domainVars>>
     \/ part = "flow" /\ FlowNext(FlowNames)
          /\ UNCHANGED <<loaderVars, queryVars, parserVars, domainVars>>
     \/ part = "query" /\ QueryNext /\ UNCHANGED <<loaderVars, flowVars, parserVars, domainVars>>
     \/ part = "parser" /\ WriteToken /\ UNCHANGED <<loaderVars, flowVars, queryVars, domainVars>>
     \/ part = "domain" /\ WriteDomainToken
          /\ UNCHANGED <<loaderVars, flowVars, queryVars, parserVars>>

Spec == Init /\ [][Next]_vars
=============================================================================
