---------------------------- MODULE NarrowCache ----------------------------
(***************************************************************************)
(* The memo of the schema overlay's masks: NarrowCache and narrow_trie of  *)
(* crates/pure-analyzer-purecard/src/schema/narrow.rs.                     *)
(*                                                                         *)
(* A rule whose names grow with the stream (columns, bound variables) is   *)
(* memoised under the NUMBER of names, not the names: the tracker's lists  *)
(* only grow, so within one stream the count stands for the list.  What a  *)
(* rule computes from its names and the bytes already typed is Fill.       *)
(***************************************************************************)
EXTENDS Naturals, Sequences

CONSTANTS
  Names,
  Typed,        \* the bytes of a name typed so far
  Lists,        \* the growing lists: emitted columns, bound variables
  Rules,        \* the rules over them
  ListOf,       \* rule -> the list it reads
  Distinct,     \* the lists a name enters once (bind_var)
  MaxNames,     \* bound on the length of a list
  Fill(_, _, _) \* the mask of a rule, its names and the bytes typed

ASSUME ListsAssumption == ListOf \in [Rules -> Lists] /\ Distinct \subseteq Lists

VARIABLES
  lists,    \* list -> the names emitted in this stream
  tries,    \* key -> the names its trie was built from
  masks,    \* key and prefix -> the mask filled for them
  shown     \* the mask buffer: which rule and prefix it was asked for, and its bits

cacheVars == <<lists, tries, masks, shown>>

Key(rule) == <<rule, Len(lists[ListOf[rule]])>>
Blank == <<>>

-----------------------------------------------------------------------------

\* emitted_strings.push and bind_var of the scope tracker
Emit(list, name) ==
  /\ list \in Distinct => \A i \in DOMAIN lists[list] : lists[list][i] # name
  /\ Len(lists[list]) < MaxNames
  /\ lists' = [lists EXCEPT ![list] = Append(@, name)]
  /\ shown' = Blank
  /\ UNCHANGED <<tries, masks>>

\* TrieRule::entry builds the trie on first use; narrow_trie fills and keeps the
\* mask of a cursor on first use.
BuiltTrie(rule) == IF Key(rule) \in DOMAIN tries THEN tries[Key(rule)] ELSE lists[ListOf[rule]]
Slot(rule, prefix) == <<Key(rule), prefix>>
Filled(rule, prefix) ==
  IF Slot(rule, prefix) \in DOMAIN masks THEN masks[Slot(rule, prefix)]
  ELSE Fill(rule, BuiltTrie(rule), prefix)

Narrow(rule, prefix) ==
  /\ tries' = [k \in DOMAIN tries \cup {Key(rule)} |-> IF k = Key(rule) THEN BuiltTrie(rule) ELSE tries[k]]
  /\ masks' = [s \in DOMAIN masks \cup {Slot(rule, prefix)} |->
                 IF s = Slot(rule, prefix) THEN Filled(rule, prefix) ELSE masks[s]]
  /\ shown' = <<rule, prefix, Filled(rule, prefix)>>
  /\ UNCHANGED lists

\* Variant used to test the property: a new stream keeps what the last one memoised.
ClearKeepingMasks ==
  /\ lists' = [l \in Lists |-> <<>>]
  /\ shown' = Blank
  /\ UNCHANGED <<tries, masks>>

\* DecoderSession::reset with NarrowCache::clear
Clear ==
  /\ lists' = [l \in Lists |-> <<>>]
  /\ tries' = <<>>
  /\ masks' = <<>>
  /\ shown' = Blank

CacheInit ==
  /\ lists = [l \in Lists |-> <<>>]
  /\ tries = <<>> /\ masks = <<>>
  /\ shown = Blank

CacheNext ==
  \/ \E list \in Lists, name \in Names : Emit(list, name)
  \/ \E rule \in Rules, prefix \in Typed : Narrow(rule, prefix)
  \/ Clear

CacheSpec == CacheInit /\ [][CacheNext]_cacheVars

-----------------------------------------------------------------------------

\* A stale entry is never "re-hit at a repeated count over a different column
\* set" (session.rs, reset): whatever was asked before, the mask shown is the
\* one the names emitted in this stream give.
MaskIsFresh ==
  shown # Blank => shown[3] = Fill(shown[1], lists[ListOf[shown[1]]], shown[2])
=============================================================================
