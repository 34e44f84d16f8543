---------------------------- MODULE SchemaModel ----------------------------
(***************************************************************************)
(* The schema a decode session narrows against:                            *)
(* crates/pure-analyzer-purecard/src/schema/model.rs.  A schema is its     *)
(* classes by path, the path of its store and its associations, each the   *)
(* pair of its ends.  Paths and member names are sequences of bytes; of a  *)
(* multiplicity only is_to_one is kept, of an enumeration only that it is  *)
(* one.                                                                    *)
(***************************************************************************)
EXTENDS Integers, Sequences, FiniteSets, SequencesExt

NoName == <<>>
NoType == "none"

\* PrimName::type_class
TypeClass ==
  [Integer |-> "Numeric", Float |-> "Numeric", Decimal |-> "Numeric", Number |-> "Numeric",
   String |-> "Str", Boolean |-> "Boolean",
   Date |-> "Temporal", StrictDate |-> "Temporal", DateTime |-> "Temporal"]

\* Resolved: what a member name stands for in a class, and whether it is to-one.
Primitive(prim, one) == [kind |-> "primitive", prim |-> prim, path |-> NoName, one |-> one]
Navigation(path, one) == [kind |-> "class", prim |-> NoType, path |-> path, one |-> one]
Unresolved == [kind |-> "none", prim |-> NoType, path |-> NoName, one |-> FALSE]

Property(name, type) == [name |-> name, type |-> type]
End(name, target, one) == [name |-> name, target |-> target, one |-> one]

\* Temporal::arity: the dates `.all()` takes; NotTemporal is the absent marker.
NotTemporal == -1
TemporalArity == [business |-> 1, processing |-> 1, bitemporal |-> 2, none |-> NotTemporal]

\* ClassInfo
Class(properties, qualified, supers, temporal) ==
  [properties |-> properties, qualified |-> qualified, supers |-> supers, temporal |-> temporal]

HasClass(schema, path) == path \in DOMAIN schema.classes
SourcePaths(schema) == DOMAIN schema.classes \cup {schema.store}
Arity(schema, path) ==
  IF HasClass(schema, path) THEN TemporalArity[schema.classes[path].temporal] ELSE NotTemporal

\* build_navigable: an end is reached from the class of the opposite end.
Navigable(schema, class) ==
  FlattenSeq([i \in 1..Len(schema.associations) |->
    LET e == schema.associations[i] IN
      (IF e[1].target = class THEN <<Property(e[2].name, Navigation(e[2].target, e[2].one))>> ELSE <<>>)
      \o (IF e[2].target = class THEN <<Property(e[1].name, Navigation(e[1].target, e[1].one))>> ELSE <<>>)])

-----------------------------------------------------------------------------

OwnMembers(schema, class) ==
  IF HasClass(schema, class)
  THEN schema.classes[class].properties \o schema.classes[class].qualified ELSE <<>>
Supers(schema, class) ==
  IF HasClass(schema, class) THEN schema.classes[class].supers ELSE <<>>

\* The first property called ident, as the loops over a class's lists find it.
FirstNamed(properties, ident) ==
  LET hits == {i \in 1..Len(properties) : properties[i].name = ident} IN
    IF hits = {} THEN Unresolved
    ELSE properties[CHOOSE i \in hits : \A j \in hits : i <= j].type

\* resolve_in: own properties, then the parents depth first, then the association
\* ends; a class is looked at once however many ways lead to it.
RECURSIVE Find(_, _, _, _)
Find(schema, class, ident, visited) ==
  IF class \in visited THEN [type |-> Unresolved, visited |-> visited]
  ELSE
    LET here == [type |-> FirstNamed(OwnMembers(schema, class), ident), visited |-> visited \cup {class}]
        up(r, parent) == IF r.type # Unresolved THEN r ELSE Find(schema, parent, ident, r.visited)
        inherited == FoldLeft(up, here, Supers(schema, class))
    IN IF inherited.type # Unresolved THEN inherited
       ELSE [inherited EXCEPT !.type = FirstNamed(Navigable(schema, class), ident)]

Resolve(schema, class, ident) == Find(schema, class, ident, {}).type

\* collect_members: the names, with the same guard against cycles.
RECURSIVE Collect(_, _, _)
Collect(schema, class, visited) ==
  IF class \in visited THEN [names |-> {}, visited |-> visited]
  ELSE
    LET named(properties) == {properties[i].name : i \in 1..Len(properties)}
        here == [names |-> named(OwnMembers(schema, class)), visited |-> visited \cup {class}]
        up(r, parent) ==
          LET c == Collect(schema, parent, r.visited)
          IN [names |-> r.names \cup c.names, visited |-> c.visited]
        inherited == FoldLeft(up, here, Supers(schema, class))
    IN [inherited EXCEPT !.names = @ \cup named(Navigable(schema, class))]

MemberNames(schema, class) == Collect(schema, class, {}).names
=============================================================================
