-------------------------- MODULE MCSchemaSession --------------------------
(***************************************************************************)
(* One schema: a class x with a String, an Integer and a to-many member, a *)
(* navigation to the bitemporal class T::x, and a store E.  The names the  *)
(* overlay knows are spelled with the letters of PureGrammar.              *)
(***************************************************************************)
EXTENDS SchemaSession, NarrowCache

Chars(s) == [i \in 1..Len(s) |-> SubSeq(s, i, i)]

MCSpelling ==
  [all |-> Chars("al"), tableReference |-> Chars("Ta"), tableToTDS |-> Chars("TT"),
   groupBy |-> Chars("ea"), limit |-> Chars("lt"), count |-> Chars("s"), toOne |-> Chars("te"),
   project |-> Chars("ta"), getString |-> Chars("at"), sort |-> Chars("st"),
   restrict |-> Chars("es"), extend |-> Chars("xs"), sum |-> Chars("ss"), toLower |-> Chars("tl"),
   isEmpty |-> Chars("ae"), true |-> Chars("tt"), Integer |-> Chars("Te")]

MCSchema ==
  [classes |->
     (Chars("x") :> Class(<<Property(Chars("t"), Primitive("String", TRUE)),
                            Property(Chars("te"), Primitive("Integer", TRUE))>>, <<>>, <<Chars("E")>>, "none"))
     @@ (Chars("T::x") :> Class(<<Property(Chars("e"), Primitive("Boolean", TRUE))>>, <<>>, <<>>, "bitemporal"))
     @@ (Chars("E") :> Class(<<Property(Chars("s"), Primitive("Float", FALSE))>>, <<>>, <<>>, "none")),
   store |-> Chars("T::E"),
   associations |-> << <<End(Chars("l"), Chars("x"), FALSE), End(Chars("a"), Chars("T::x"), TRUE)>> >>]

\* A query given by its lexemes.
Lexed(lexemes) ==
  LET parts == [i \in DOMAIN lexemes |-> Chars(lexemes[i])] IN
    [bytes |-> FlattenSeq(parts), ends |-> {Len(FlattenSeq(SubSeq(parts, 1, i))) : i \in DOMAIN parts}]

\* Shapes of the gold corpus and of the modern dialect.
MCQueries ==
  {Lexed(<<"|", "x", ".", "al", "(", ")", "->", "ta", "(", "[", "x", "|", "$", "x", ".", "t", "]", ",", "[", "'s'", "]", ")", "->", "st", "(", "'s'", ")">>),
   Lexed(<<"|", "x", ".", "al", "(", ")", "->", "xx", "(", "e", "|", "$", "e", ".", "a", "->", "xx", "(", "e", "|", "$", "e", ".", "e", ")", "->", "ae", "(", ")", " ", "&&", " ", "(", "$", "e", ".", "t", " ", "==", " ", "'a'", ")", ")", "->", "s", "(", ")">>),
   Lexed(<<"|", "T::E", "->", "Ta", "(", "'s'", ",", "'t'", ")", "->", "TT", "(", ")", "->", "es", "(", "[", "'a'", "]", ")", "->", "lt", "(", "0", ")">>),
   Lexed(<<"{", "|", "let", " ", "a", " ", "=", " ", "x", ".", "al", "(", ")", ".", "te", "->", "ss", "(", ")", ";", " ", "x", ".", "al", "(", ")", "->", "xx", "(", "x", "|", "$", "x", ".", "te", " ", ">", " ", "0", " ", "+", " ", "$", "a", ")", ";", "}">>),
   Lexed(<<"|", "T::x", ".", "al", "(", "%0", ",", "%latest", ")", "->", "xx", "(", "a", "|", "$", "a", ".", "l", ".", "t", "->", "te", "(", ")", "->", "tl", "(", ")", " ", "==", " ", "'s'", ")">>),
   Lexed(<<"|", "x", ".", "al", "(", ")", "->", "xx", "(", "x", "|", "$", "x", ".", "a", "(", "%0", ",", "$", "x", ")", ".", "e", " ", "==", " ", "tt", ")", "->", "ae", "(", ")">>),
   Lexed(<<"|", "x", ".", "al", "(", ")", "->", "ea", "(", "~", "[", "l", ":", "x", "|", "$", "x", ".", "t", "]", ",", "~", "e", ":", "a", "|", "$", "a", ".", "te", ":", "a", "|", "$", "a", "->", "ss", "(", ")", ")", "->", "es", "(", "'l'", ")">>),
   Lexed(<<"|", "E", ".", "al", "(", ")", ".", "s", "->", "xx", "(", "{", "e", ":", " ", "Te", "[", "0", "]", ",", " ", "a", ":", " ", "x", "[", "*", "]", "|", "$", "e", "->", "ss", "(", ")", " ", "+", " ", "$", "a", ".", "te", "}", ")">>)}

-----------------------------------------------------------------------------
(* The memo of the masks, in a part of its own *)

CachedNames == {<<"a">>, <<"a", "t">>}
TypedBytes == {<<>>, <<"a">>}
RuleLists == [RefVar |-> "vars"]

\* The bytes that carry a rule's names on.
NextBytes(rule, names, prefix) ==
  {b \in Bytes : \E n \in Range(names) : IsPrefix(Append(prefix, b), n)}

VARIABLE part

SessionPart == part = "session" /\ Init /\ CacheInit
CachePart == part = "cache" /\ Init /\ query = (CHOOSE q \in Queries : TRUE) /\ CacheInit
SessionStep == part = "session" /\ Next /\ UNCHANGED <<part, cacheVars>>
CacheStep == part = "cache" /\ CacheNext /\ UNCHANGED <<part, vars>>

MCSpec ==
  (SessionPart \/ CachePart) /\ [][SessionStep \/ CacheStep]_<<part, vars, cacheVars>>
=============================================================================
