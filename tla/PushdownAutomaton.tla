------------------------- MODULE PushdownAutomaton -------------------------
(***************************************************************************)
(* The drivers of a byte-level pushdown automaton and the partition of a   *)
(* vocabulary that the token masks are cached by: Pda of                   *)
(* crates/pure-analyzer-purecard/src/grammar/pda.rs, RtnPda of compile.rs  *)
(* (the same driver over a table) and build_fixed/build_spec of            *)
(* compiled.rs.                                                            *)
(***************************************************************************)
EXTENDS Naturals, Sequences

CONSTANTS
  States, Frames, Bytes,
  None,      \* the top of an empty stack
  Step,      \* [States, Frames and None, Bytes -> what the byte does]
  Start,     \* the initial state
  Terminal,  \* the states that are complete over an empty stack
  Vocab      \* the tokens, each the sequence of its bytes

Tops == Frames \cup {None}
Outcome == [do : {"Next", "Push", "Pop", "Dead"}, to : States \cup {None}, frame : Tops]

\* Whatever the grammar, step answers every state, top and byte, and a pop over an
\* empty stack is never taken (step of pda.rs; step and UnguardedPop of compile.rs).
StepIsTotal ==
  \A s \in States, top \in Tops, b \in Bytes :
    /\ Step[s, top, b].do \in {"Next", "Push", "Pop", "Dead"}
    /\ Step[s, top, b].do # "Dead" => Step[s, top, b].to \in States
    /\ Step[s, top, b].do = "Push" => Step[s, top, b].frame \in Frames
    /\ Step[s, top, b].do = "Pop" => top # None

\* What is alive over the empty stack does the same over every frame.
StepIsFrameBlind ==
  \A s \in States, b \in Bytes :
    Step[s, None, b].do # "Dead" => \A f \in Frames : Step[s, f, b] = Step[s, None, b]

Tokens == DOMAIN Vocab
EOS == Len(Vocab) + 1  \* eos_bit: one past the last token

Top(stack) == IF stack = <<>> THEN None ELSE stack[Len(stack)]

\* The stack after a step that is not Dead.
Stacked(stack, step) ==
  CASE step.do = "Push" -> Append(stack, step.frame)
    [] step.do = "Pop" -> SubSeq(stack, 1, Len(stack) - 1)
    [] OTHER -> stack

\* A configuration; alive turns FALSE at the first dead byte and the rest is
\* left as it was there.
Config(s, stack) == [state |-> s, stack |-> stack, alive |-> TRUE]

\* advance
Advance(c, b) ==
  LET step == Step[c.state, Top(c.stack), b] IN
    IF ~c.alive THEN c
    ELSE IF step.do = "Dead" THEN [c EXCEPT !.alive = FALSE]
    ELSE [c EXCEPT !.state = step.to, !.stack = Stacked(c.stack, step)]

\* The configurations after each number of bytes.
Path(c, bytes) ==
  LET path[n \in 0..Len(bytes)] == IF n = 0 THEN c ELSE Advance(path[n - 1], bytes[n])
  IN path

\* admits, and the clone that accept_token feeds a token to
Run(c, bytes) == Path(c, bytes)[Len(bytes)]
Admits(c, bytes) == Run(c, bytes).alive

IsAccepting(c) == c.stack = <<>> /\ c.state \in Terminal

\* The byte probe dies at, given its path over an empty local stack.
DeathOf(path, bytes) == CHOOSE n \in 1..Len(bytes) : path[n - 1].alive /\ ~path[n].alive

\* Variant used to test the properties: a frame kind is missing from ALL_FRAMES.
ConsultedAmbientPartly(s, bytes) ==
  /\ ~Admits(Config(s, <<>>), bytes)
  /\ LET path == Path(Config(s, <<>>), bytes)
         n == DeathOf(path, bytes)
     IN path[n - 1].stack = <<>> /\ Step[path[n - 1].state, "Paren", bytes[n]].do # "Dead"

\* probe: a token that dies where some frame beneath would have kept it alive.
ConsultedAmbient(s, bytes) ==
  /\ ~Admits(Config(s, <<>>), bytes)
  /\ LET path == Path(Config(s, <<>>), bytes)
         n == DeathOf(path, bytes)
     IN path[n - 1].stack = <<>> /\ \E f \in Frames : Step[path[n - 1].state, f, bytes[n]].do # "Dead"

\* build_fixed, build_spec
Partition(s) ==
  [indep |-> {t \in Tokens : Admits(Config(s, <<>>), Vocab[t])},
   deferred |-> {t \in Tokens : ConsultedAmbient(s, Vocab[t])}]

\* allowed_mask without a schema: the cached survivors, the deferred tokens
\* probed again when something is on the stack, and EOS.
Mask(c, cached) ==
  cached.indep
  \cup (IF c.stack # <<>> THEN {t \in cached.deferred : Admits(c, Vocab[t])} ELSE {})
  \cup (IF IsAccepting(c) THEN {EOS} ELSE {})

\* What accept_token accepts.
Acceptable(c) ==
  {t \in Tokens : Admits(c, Vocab[t])} \cup (IF IsAccepting(c) THEN {EOS} ELSE {})

=============================================================================
