--------------------------- MODULE AutomatonFacts ---------------------------
(***************************************************************************)
(* What a path of bytes does in every automaton of PushdownAutomaton, and  *)
(* what the cached partitions of a vocabulary rest on: the mask assembled  *)
(* from the partition of a state is exact over every stack, if the table   *)
(* is StepIsFrameBlind.                                                    *)
(*                                                                         *)
(* Facts about a path are proved by induction on the number of its bytes.  *)
(***************************************************************************)
EXTENDS PushdownAutomaton, SequenceTheorems, CountingInduction

\* What the compiled grammars and vocabularies of the code have in common.
Regular == StepIsTotal /\ None \notin Frames /\ Vocab \in Seq(Seq(Bytes))

-----------------------------------------------------------------------------
(* Paths *)

\* The recursive definition of Path has a solution, so that it defines it.
LEMMA PathDefined ==
  ASSUME NEW c, NEW bytes, Len(bytes) \in Nat
  PROVE  Path(c, bytes) = [n \in 0..Len(bytes) |->
           IF n = 0 THEN c ELSE Advance(Path(c, bytes)[n - 1], bytes[n])]
<1> DEFINE Solves(f, m) == f = [n \in 0..m |-> IF n = 0 THEN c ELSE Advance(f[n - 1], bytes[n])]
<1>1. PICK S : S = {m \in Nat : \E f : Solves(f, m)}
  OBVIOUS
<1>2. 0 \in S
  <2>1. PICK f : f = [n \in 0..0 |-> c]
    OBVIOUS
  <2>2. Solves(f, 0)
    BY <2>1
  <2> QED BY <1>1, <2>2
<1>3. ASSUME NEW m \in Nat, m \in S PROVE m + 1 \in S
  <2>1. PICK f : Solves(f, m)
    BY <1>1, <1>3
  <2>2. PICK g : g = [n \in 0..(m + 1) |-> IF n = m + 1 THEN Advance(f[m], bytes[n]) ELSE f[n]]
    OBVIOUS
  <2>3. \A n \in 0..m : g[n] = f[n]
    BY <2>2
  <2>4. ASSUME NEW n \in 0..(m + 1)
        PROVE  g[n] = IF n = 0 THEN c ELSE Advance(g[n - 1], bytes[n])
    <3>1. CASE n = m + 1
      <4>1. n # 0 /\ n - 1 = m /\ m \in 0..m
        BY <3>1
      <4> QED BY <2>2, <2>3, <3>1, <4>1
    <3>2. CASE n \in 1..m
      <4>1. n \in 0..m /\ n - 1 \in 0..m /\ n # 0
        BY <3>2
      <4> QED BY <2>1, <2>3, <4>1
    <3>3. CASE n = 0
      <4>1. n \in 0..m
        BY <3>3
      <4> QED BY <2>1, <2>3, <3>3, <4>1
    <3> QED BY <3>1, <3>2, <3>3
  <2>5. Solves(g, m + 1)
    BY <2>2, <2>4
  <2> QED BY <1>1, <2>5
<1>4. Len(bytes) \in S
  <2>1. \A n \in 0..(Len(bytes) - 1) : n \in S => n + 1 \in S
    BY <1>3
  <2>2. \A n \in 0..Len(bytes) : n \in S
    BY <1>2, <2>1, UpTo
  <2>3. Len(bytes) \in 0..Len(bytes)
    OBVIOUS
  <2> QED BY <2>2, <2>3
<1>5. \E f : Solves(f, Len(bytes))
  BY <1>1, <1>4
<1> QED BY <1>5 DEF Path

\* A path goes byte by byte.
LEMMA PathSteps ==
  ASSUME NEW c, NEW bytes, Len(bytes) \in Nat
  PROVE  /\ Path(c, bytes)[0] = c
         /\ \A n \in 1..Len(bytes) : Path(c, bytes)[n] = Advance(Path(c, bytes)[n - 1], bytes[n])
<1>1. 0 \in 0..Len(bytes) /\ \A n \in 1..Len(bytes) : n \in 0..Len(bytes) /\ n # 0
  OBVIOUS
<1>2. PICK p : p = Path(c, bytes)
  OBVIOUS
<1>3. p = [n \in 0..Len(bytes) |-> IF n = 0 THEN c ELSE Advance(p[n - 1], bytes[n])]
  BY <1>2, PathDefined
<1>4. p[0] = c /\ \A n \in 1..Len(bytes) : p[n] = Advance(p[n - 1], bytes[n])
  BY <1>1, <1>3
<1> QED BY <1>2, <1>4

\* No byte leads nowhere, and one byte is one step.
LEMMA RunShort ==
  ASSUME NEW c
  PROVE  /\ Run(c, <<>>) = c
         /\ \A b : Run(c, <<b>>) = Advance(c, b)
<1>1. Run(c, <<>>) = c
  <2>1. Len(<<>>) = 0
    OBVIOUS
  <2> QED BY <2>1, PathSteps DEF Run
<1>2. ASSUME NEW b PROVE Run(c, <<b>>) = Advance(c, b)
  <2>1. Len(<<b>>) = 1 /\ <<b>>[1] = b /\ 1 \in 1..1
    OBVIOUS
  <2>2. Path(c, <<b>>)[0] = c /\ Path(c, <<b>>)[1] = Advance(Path(c, <<b>>)[1 - 1], <<b>>[1])
    BY <2>1, PathSteps
  <2> QED BY <2>1, <2>2 DEF Run
<1> QED BY <1>1, <1>2

\* Bytes taken in two portions lead where they lead together.
LEMMA RunConcat ==
  ASSUME NEW S, NEW x \in Seq(S), NEW y \in Seq(S), NEW c
  PROVE  Run(Run(c, x), y) = Run(c, x \o y)
<1>1. PICK p, q, r : p = Path(c, x \o y) /\ q = Path(c, x) /\ r = Path(q[Len(x)], y)
  OBVIOUS
<1>2. /\ Len(x) \in Nat /\ Len(y) \in Nat /\ Len(x \o y) = Len(x) + Len(y)
      /\ \A n \in 1..Len(x) : (x \o y)[n] = x[n]
      /\ \A n \in 1..Len(y) : (x \o y)[Len(x) + n] = y[n]
  OBVIOUS
<1>3. p[0] = c /\ \A n \in 1..(Len(x) + Len(y)) : p[n] = Advance(p[n - 1], (x \o y)[n])
  <2>1. PICK z : z = x \o y
    OBVIOUS
  <2>2. Len(z) = Len(x) + Len(y) /\ Len(z) \in Nat
    BY <1>2, <2>1
  <2>3. Path(c, z)[0] = c /\ \A n \in 1..Len(z) : Path(c, z)[n] = Advance(Path(c, z)[n - 1], z[n])
    BY <2>2, PathSteps
  <2>4. p = Path(c, z)
    BY <1>1, <2>1
  <2>5. p[0] = c /\ \A n \in 1..Len(z) : p[n] = Advance(p[n - 1], z[n])
    BY <2>3, <2>4
  <2> QED BY <2>1, <2>2, <2>5
<1>4. q[0] = c /\ \A n \in 1..Len(x) : q[n] = Advance(q[n - 1], x[n])
  BY <1>1, <1>2, PathSteps
<1>5. r[0] = q[Len(x)] /\ \A n \in 1..Len(y) : r[n] = Advance(r[n - 1], y[n])
  BY <1>1, <1>2, PathSteps
<1>6. \A n \in 0..Len(x) : p[n] = q[n]
  <2>1. PICK U : U = {n \in Nat : p[n] = q[n]}
    OBVIOUS
  <2>2. 0 \in U
    BY <1>3, <1>4, <2>1
  <2>3. ASSUME NEW n \in 0..(Len(x) - 1), n \in U PROVE n + 1 \in U
    <3>1. n + 1 \in 1..Len(x) /\ n + 1 \in 1..(Len(x) + Len(y)) /\ (n + 1) - 1 = n /\ n + 1 \in Nat
      <4>1. PICK k \in Nat, l \in Nat : k = Len(x) /\ l = Len(y)
        BY <1>2
      <4>2. n \in Nat /\ n < k
        BY <2>3, <4>1
      <4> QED BY <4>1, <4>2
    <3>2. p[n + 1] = Advance(p[n], x[n + 1]) /\ q[n + 1] = Advance(q[n], x[n + 1])
      BY <1>2, <1>3, <1>4, <3>1
    <3> QED BY <2>1, <2>3, <3>1, <3>2
  <2>4. Len(x) \in Nat /\ \A n \in 0..(Len(x) - 1) : n \in U => n + 1 \in U
    BY <1>2, <2>3
  <2>5. \A n \in 0..Len(x) : n \in U
    BY <2>2, <2>4, UpTo
  <2> QED BY <2>1, <2>5
<1>7. \A n \in 0..Len(y) : p[Len(x) + n] = r[n]
  <2>1. PICK U : U = {n \in Nat : p[Len(x) + n] = r[n]}
    OBVIOUS
  <2>2. 0 \in U
    <3>1. Len(x) \in 0..Len(x) /\ Len(x) + 0 = Len(x)
      BY <1>2
    <3> QED BY <1>5, <1>6, <2>1, <3>1
  <2>3. ASSUME NEW n \in 0..(Len(y) - 1), n \in U PROVE n + 1 \in U
    <3>1. /\ n + 1 \in 1..Len(y) /\ Len(x) + (n + 1) \in 1..(Len(x) + Len(y))
          /\ (n + 1) - 1 = n /\ (Len(x) + (n + 1)) - 1 = Len(x) + n /\ n + 1 \in Nat
      BY <1>2
    <3>2. p[Len(x) + (n + 1)] = Advance(p[Len(x) + n], y[n + 1]) /\ r[n + 1] = Advance(r[n], y[n + 1])
      BY <1>2, <1>3, <1>5, <3>1
    <3> QED BY <2>1, <2>3, <3>1, <3>2
  <2>4. Len(y) \in Nat /\ \A n \in 0..(Len(y) - 1) : n \in U => n + 1 \in U
    BY <1>2, <2>3
  <2>5. \A n \in 0..Len(y) : n \in U
    BY <2>2, <2>4, UpTo
  <2> QED BY <2>1, <2>5
<1>8. p[Len(x) + Len(y)] = r[Len(y)]
  BY <1>2, <1>7
<1> QED BY <1>1, <1>2, <1>8 DEF Run

-----------------------------------------------------------------------------
(* What the mask cache rests on *)

Live == [state : States, stack : Seq(Frames), alive : {TRUE}]
Configs == [state : States, stack : Seq(Frames), alive : BOOLEAN]

\* c with the stack below put under its own.
Over(below, c) == [state |-> c.state, stack |-> below \o c.stack, alive |-> c.alive]

\* The top of a stack, and of one laid on another.
LEMMA TopOver ==
  ASSUME NEW a \in Seq(Frames), NEW s \in Seq(Frames)
  PROVE  /\ Top(s) \in Tops
         /\ s # <<>> => Top(s) \in Frames /\ Top(a \o s) = Top(s)
         /\ s = <<>> => Top(s) = None /\ a \o s = a
<1>1. CASE s = <<>>
  <2>1. a \o s = a
    BY <1>1
  <2> QED BY <1>1, <2>1 DEF Top, Tops
<1>2. CASE s # <<>>
  <2>1. Len(s) \in Nat /\ Len(s) > 0 /\ Len(a) \in Nat /\ s[Len(s)] \in Frames
    BY <1>2
  <2>2. Len(a \o s) = Len(a) + Len(s) /\ a \o s # <<>>
    BY <2>1
  <2>3. (a \o s)[Len(a) + Len(s)] = s[Len(s)]
    BY <2>1
  <2> QED BY <1>2, <2>1, <2>2, <2>3 DEF Top, Tops
<1> QED BY <1>1, <1>2

\* A push or pop of the upper stack is one of both.
LEMMA StackedOver ==
  ASSUME NEW a \in Seq(Frames), NEW s \in Seq(Frames), NEW step,
         step.do = "Push" => step.frame \in Frames, step.do = "Pop" => s # <<>>
  PROVE  /\ Stacked(s, step) \in Seq(Frames)
         /\ Stacked(a \o s, step) = a \o Stacked(s, step)
<1>1. CASE step.do = "Push"
  <2>1. PICK f \in Frames : f = step.frame
    BY <1>1
  <2>2. Append(s, f) \in Seq(Frames) /\ Append(a \o s, f) = a \o Append(s, f)
    OBVIOUS
  <2> QED BY <1>1, <2>1, <2>2 DEF Stacked
<1>2. CASE step.do = "Pop"
  <2>1. Len(s) \in Nat /\ Len(s) > 0 /\ Len(a) \in Nat /\ Len(a \o s) = Len(a) + Len(s)
    BY <1>2
  <2>2. SubSeq(s, 1, Len(s) - 1) \in Seq(Frames)
    BY <2>1
  <2>3. SubSeq(a \o s, 1, Len(a \o s) - 1) = a \o SubSeq(s, 1, Len(s) - 1)
    BY <2>1, <2>2
  <2> QED BY <1>2, <2>2, <2>3 DEF Stacked
<1>3. CASE step.do \notin {"Push", "Pop"}
  BY <1>3 DEF Stacked
<1> QED BY <1>1, <1>2, <1>3

\* What the table says of a byte, and the configuration after it.
StepAt(c, b) == Step[c.state, Top(c.stack), b]
Moved(c, step) == [c EXCEPT !.state = step.to, !.stack = Stacked(c.stack, step)]

\* One byte from a live configuration: it dies there, or moves to a live one.
LEMMA AdvanceLive ==
  ASSUME Regular, NEW c \in Live, NEW b \in Bytes
  PROVE  /\ StepAt(c, b).do = "Dead" =>
              Advance(c, b) = [c EXCEPT !.alive = FALSE] /\ Advance(c, b) \notin Live
         /\ StepAt(c, b).do # "Dead" =>
              /\ Advance(c, b) = Moved(c, StepAt(c, b))
              /\ Advance(c, b) \in Live
              /\ StepAt(c, b).do = "Push" => StepAt(c, b).frame \in Frames
              /\ StepAt(c, b).do = "Pop" => c.stack # <<>>
<1>0. PICK step : step = StepAt(c, b)
  OBVIOUS
<1>1. c.state \in States /\ c.stack \in Seq(Frames) /\ c.alive = TRUE
  BY DEF Live
<1>2. Top(c.stack) \in Tops /\ (c.stack = <<>> => Top(c.stack) = None)
  BY <1>1, TopOver
<1>3. step.do # "Dead" =>
        /\ step.to \in States
        /\ step.do = "Push" => step.frame \in Frames
        /\ step.do = "Pop" => c.stack # <<>>
  BY <1>0, <1>1, <1>2 DEF StepAt, Regular, StepIsTotal
<1>4. step.do = "Dead" => Advance(c, b) = [c EXCEPT !.alive = FALSE]
  BY <1>0, <1>1, Zenon DEF Advance, StepAt
<1>5. step.do # "Dead" => Advance(c, b) = Moved(c, step)
  BY <1>0, <1>1, Zenon DEF Advance, StepAt, Moved
<1>6. step.do # "Dead" => Stacked(c.stack, step) \in Seq(Frames)
  BY <1>1, <1>3, StackedOver
<1>7. step.do # "Dead" => Moved(c, step) \in Live
  BY <1>3, <1>6 DEF Live, Moved
<1>8. [c EXCEPT !.alive = FALSE] \notin Live
  BY DEF Live
<1> QED BY <1>0, <1>3, <1>4, <1>5, <1>7, <1>8

\* A configuration is alive or stays where it died.
LEMMA AdvanceTyped ==
  ASSUME Regular, NEW c \in Configs, NEW b \in Bytes
  PROVE  /\ Advance(c, b) \in Configs
         /\ c \notin Live => Advance(c, b) = c
         /\ c.alive <=> c \in Live
<1>1. c.alive \in BOOLEAN /\ c.state \in States /\ c.stack \in Seq(Frames)
  BY DEF Configs
<1>2. c = [state |-> c.state, stack |-> c.stack, alive |-> c.alive]
  BY DEF Configs
<1>3. c \in Live <=> c.alive = TRUE
  BY <1>1, <1>2 DEF Live
<1>4. CASE c.alive = FALSE
  <2>1. c \notin Live
    BY <1>3, <1>4
  <2>2. Advance(c, b) = c
    BY <1>4, Zenon DEF Advance
  <2> QED BY <1>4, <2>1, <2>2
<1>5. CASE c.alive = TRUE
  <2>1. c \in Live
    BY <1>3, <1>5
  <2>3. CASE StepAt(c, b).do = "Dead"
    <3>1. Advance(c, b) = [c EXCEPT !.alive = FALSE]
      BY <2>1, <2>3, AdvanceLive
    <3>2. [c EXCEPT !.alive = FALSE] \in Configs
      BY <1>1, <1>2 DEF Configs
    <3> QED BY <1>5, <2>1, <3>1, <3>2
  <2>4. CASE StepAt(c, b).do # "Dead"
    <3>1. Advance(c, b) \in Live
      BY <2>1, <2>4, AdvanceLive
    <3>2. Live \subseteq Configs
      BY DEF Live, Configs
    <3> QED BY <1>5, <2>1, <3>1, <3>2
  <2> QED BY <2>3, <2>4
<1> QED BY <1>1, <1>4, <1>5

\* While a byte is alive over a stack it does the same with another one beneath.
LEMMA ByteTracks ==
  ASSUME Regular, StepIsFrameBlind, NEW c \in Live, NEW below \in Seq(Frames), NEW b \in Bytes,
         Advance(c, b) \in Live
  PROVE  Over(below, c) \in Live /\ Advance(Over(below, c), b) = Over(below, Advance(c, b))
<1>1. /\ c.state \in States /\ c.stack \in Seq(Frames) /\ c.alive = TRUE
      /\ c = [state |-> c.state, stack |-> c.stack, alive |-> TRUE]
  BY DEF Live
<1>2. PICK step : step = StepAt(c, b)
  OBVIOUS
<1>3. step.do # "Dead"
  BY <1>2, AdvanceLive
<1>4. /\ Advance(c, b) = Moved(c, step)
      /\ step.do = "Push" => step.frame \in Frames
      /\ step.do = "Pop" => c.stack # <<>>
  BY <1>2, <1>3, AdvanceLive
<1>5. PICK d : d = Over(below, c)
  OBVIOUS
<1>6. d = [state |-> c.state, stack |-> below \o c.stack, alive |-> TRUE] /\ d \in Live
  <2>1. below \o c.stack \in Seq(Frames)
    BY <1>1
  <2> QED BY <1>1, <1>5, <2>1 DEF Over, Live
<1>7. StepAt(d, b) = step
  <2>1. d.state = c.state /\ d.stack = below \o c.stack
    BY <1>6
  <2>2. CASE c.stack # <<>>
    BY <1>1, <1>2, <2>1, <2>2, TopOver DEF StepAt
  <2>3. CASE c.stack = <<>>
    <3>1. Top(c.stack) = None /\ d.stack = below /\ Top(below) \in Tops
      BY <1>1, <2>1, <2>3, TopOver
    <3>2. CASE Top(below) = None
      BY <1>2, <2>1, <3>1, <3>2 DEF StepAt
    <3>3. CASE Top(below) \in Frames
      BY <1>1, <1>2, <1>3, <2>1, <3>1, <3>3 DEF StepIsFrameBlind, StepAt
    <3> QED BY <3>1, <3>2, <3>3 DEF Tops
  <2> QED BY <2>2, <2>3
<1>8. Advance(d, b) = Moved(d, step)
  BY <1>3, <1>6, <1>7, AdvanceLive
<1>9. Stacked(below \o c.stack, step) = below \o Stacked(c.stack, step)
  <2>1. PICK s \in Seq(Frames) : s = c.stack
    BY <1>1
  <2>2. (step.do = "Push" => step.frame \in Frames) /\ (step.do = "Pop" => s # <<>>)
    BY <1>4, <2>1
  <2>3. Stacked(below \o s, step) = below \o Stacked(s, step)
    BY <2>2, StackedOver
  <2> QED BY <2>1, <2>3
<1>10. Advance(d, b) = [state |-> step.to, stack |-> below \o Stacked(c.stack, step), alive |-> TRUE]
  BY <1>6, <1>8, <1>9 DEF Moved
<1>11. Over(below, Advance(c, b))
         = [state |-> step.to, stack |-> below \o Stacked(c.stack, step), alive |-> TRUE]
  BY <1>1, <1>4 DEF Over, Moved
<1> QED BY <1>5, <1>6, <1>10, <1>11

\* A byte that dies over a stack and not with another one beneath is one that some
\* frame under an empty stack keeps alive.
LEMMA ByteConsults ==
  ASSUME Regular, NEW c \in Live, NEW below \in Seq(Frames), NEW b \in Bytes,
         Advance(c, b) \notin Live, Advance(Over(below, c), b) \in Live
  PROVE  /\ c.stack = <<>> /\ below # <<>>
         /\ \E f \in Frames : Step[c.state, f, b].do # "Dead"
<1>1. /\ c.state \in States /\ c.stack \in Seq(Frames) /\ c.alive = TRUE
      /\ c = [state |-> c.state, stack |-> c.stack, alive |-> TRUE]
  BY DEF Live
<1>2. StepAt(c, b).do = "Dead"
  BY AdvanceLive
<1>3. PICK d : d = Over(below, c)
  OBVIOUS
<1>4. d.state = c.state /\ d.stack = below \o c.stack /\ d \in Live
  <2>1. below \o c.stack \in Seq(Frames)
    BY <1>1
  <2> QED BY <1>1, <1>3, <2>1 DEF Over, Live
<1>5. StepAt(d, b).do # "Dead"
  BY <1>3, <1>4, AdvanceLive
<1>6. Top(d.stack) # Top(c.stack)
  BY <1>2, <1>4, <1>5 DEF StepAt
<1>7. c.stack = <<>>
  BY <1>1, <1>4, <1>6, TopOver
<1>8. d.stack = below /\ Top(c.stack) = None
  BY <1>1, <1>4, <1>7, TopOver
<1>9. below # <<>>
  BY <1>6, <1>7, <1>8
<1>10. Top(below) \in Frames
  BY <1>9, TopOver
<1> QED BY <1>4, <1>5, <1>7, <1>8, <1>9, <1>10 DEF StepAt

\* A path is of configurations, and what has died on it stays dead.
LEMMA PathTyped ==
  ASSUME Regular, NEW c \in Live, NEW bytes \in Seq(Bytes)
  PROVE  /\ \A n \in 0..Len(bytes) : Path(c, bytes)[n] \in Configs
         /\ \A n \in 0..Len(bytes) :
              Path(c, bytes)[n] \notin Live => Path(c, bytes)[Len(bytes)] \notin Live
<1>1. Len(bytes) \in Nat /\ \A n \in 1..Len(bytes) : bytes[n] \in Bytes
  OBVIOUS
<1>2. PICK p : p = Path(c, bytes)
  OBVIOUS
<1>3. p[0] = c /\ \A n \in 1..Len(bytes) : p[n] = Advance(p[n - 1], bytes[n])
  BY <1>1, <1>2, PathSteps
<1>4. \A n \in 0..(Len(bytes) - 1) : p[n + 1] = Advance(p[n], bytes[n + 1]) /\ bytes[n + 1] \in Bytes
  <2> SUFFICES ASSUME NEW n \in 0..(Len(bytes) - 1)
               PROVE  p[n + 1] = Advance(p[n], bytes[n + 1]) /\ bytes[n + 1] \in Bytes
    OBVIOUS
  <2>1. n + 1 \in 1..Len(bytes) /\ (n + 1) - 1 = n
    BY <1>1
  <2> QED BY <1>1, <1>3, <2>1
<1>5. \A n \in 0..Len(bytes) : p[n] \in Configs
  <2>1. PICK U : U = {n \in Nat : p[n] \in Configs}
    OBVIOUS
  <2>2. 0 \in U
    BY <1>3, <2>1 DEF Live, Configs
  <2>3. \A n \in 0..(Len(bytes) - 1) : n \in U => n + 1 \in U
    BY <1>1, <1>4, <2>1, AdvanceTyped
  <2>4. \A n \in 0..Len(bytes) : n \in U
    BY <1>1, <2>2, <2>3, UpTo
  <2> QED BY <2>1, <2>4
<1>6. ASSUME NEW n \in 0..Len(bytes), p[n] \notin Live PROVE p[Len(bytes)] \notin Live
  <2>1. PICK U : U = {k \in Nat : k < n \/ p[k] \notin Live}
    OBVIOUS
  <2>2. 0 \in U
    BY <1>6, <2>1
  <2>3. ASSUME NEW k \in 0..(Len(bytes) - 1), k \in U PROVE k + 1 \in U
    <3>1. CASE k + 1 <= n
      BY <1>6, <2>1, <3>1
    <3>2. CASE k + 1 > n
      <4>1. p[k] \notin Live /\ p[k] \in Configs
        <5>1. k \in 0..Len(bytes) /\ ~(k < n)
          BY <1>1, <3>2
        <5> QED BY <1>5, <2>1, <2>3, <5>1
      <4>2. p[k + 1] = p[k]
        BY <1>4, <4>1, AdvanceTyped
      <4> QED BY <1>1, <2>1, <4>1, <4>2
    <3> QED BY <1>1, <3>1, <3>2
  <2>4. \A k \in 0..Len(bytes) : k \in U
    BY <1>1, <2>2, <2>3, UpTo
  <2>5. Len(bytes) \in U
    BY <1>1, <2>4
  <2> QED BY <1>1, <2>1, <2>5
<1> QED BY <1>2, <1>5, <1>6

\* Bytes that are alive over a stack are alive, and do the same, with another one
\* beneath it.
LEMMA PathTracks ==
  ASSUME Regular, StepIsFrameBlind, NEW c \in Live, NEW below \in Seq(Frames), NEW bytes \in Seq(Bytes)
  PROVE  \A n \in 0..Len(bytes) : Path(c, bytes)[n] \in Live =>
           Path(Over(below, c), bytes)[n] = Over(below, Path(c, bytes)[n])
<1>1. Len(bytes) \in Nat /\ \A n \in 1..Len(bytes) : bytes[n] \in Bytes
  OBVIOUS
<1>2. PICK p, q : p = Path(c, bytes) /\ q = Path(Over(below, c), bytes)
  OBVIOUS
<1>3. /\ p[0] = c /\ \A n \in 1..Len(bytes) : p[n] = Advance(p[n - 1], bytes[n])
      /\ q[0] = Over(below, c) /\ \A n \in 1..Len(bytes) : q[n] = Advance(q[n - 1], bytes[n])
  BY <1>1, <1>2, PathSteps
<1>4. PICK U : U = {n \in Nat : p[n] \in Live => q[n] = Over(below, p[n])}
  OBVIOUS
<1>5. 0 \in U
  BY <1>3, <1>4
<1>6. ASSUME NEW n \in 0..(Len(bytes) - 1), n \in U PROVE n + 1 \in U
  <2> SUFFICES ASSUME p[n + 1] \in Live PROVE q[n + 1] = Over(below, p[n + 1])
    BY <1>1, <1>4
  <2>1. n + 1 \in 1..Len(bytes) /\ (n + 1) - 1 = n /\ n \in 0..Len(bytes)
    BY <1>1
  <2>2. /\ p[n + 1] = Advance(p[n], bytes[n + 1]) /\ q[n + 1] = Advance(q[n], bytes[n + 1])
        /\ bytes[n + 1] \in Bytes /\ p[n] \in Configs
    BY <1>1, <1>2, <1>3, <2>1, PathTyped
  <2>3. p[n] \in Live
    BY <2>2, AdvanceTyped
  <2>4. q[n] = Over(below, p[n])
    BY <1>4, <1>6, <2>3
  <2>5. Advance(p[n], bytes[n + 1]) \in Live
    BY <2>2
  <2>6. Advance(Over(below, p[n]), bytes[n + 1]) = Over(below, Advance(p[n], bytes[n + 1]))
    BY <2>2, <2>3, <2>5, ByteTracks
  <2> QED BY <2>2, <2>4, <2>6
<1>7. \A n \in 0..(Len(bytes) - 1) : n \in U => n + 1 \in U
  BY <1>6
<1>8. \A n \in 0..Len(bytes) : n \in U
  BY <1>1, <1>5, <1>7, UpTo
<1> QED BY <1>2, <1>4, <1>8

\* Admits is being live at the end of the path.
LEMMA AdmitsLive ==
  ASSUME Regular, NEW c \in Live, NEW bytes \in Seq(Bytes)
  PROVE  Admits(c, bytes) <=> Path(c, bytes)[Len(bytes)] \in Live
<1>1. Len(bytes) \in 0..Len(bytes)
  OBVIOUS
<1>2. PICK d : d = Path(c, bytes)[Len(bytes)]
  OBVIOUS
<1>3. d \in Configs
  BY <1>1, <1>2, PathTyped
<1>4. d.alive <=> d \in Live
  BY <1>3 DEF Configs, Live
<1> QED BY <1>2, <1>4 DEF Admits, Run

\* A path that ends dead has a byte at which it dies.
LEMMA DeathFound ==
  ASSUME Regular, NEW c \in Live, NEW bytes \in Seq(Bytes), ~Admits(c, bytes)
  PROVE  LET n == DeathOf(Path(c, bytes), bytes)
         IN  /\ n \in 1..Len(bytes)
             /\ Path(c, bytes)[n - 1] \in Live
             /\ Path(c, bytes)[n] \notin Live
<1>1. Len(bytes) \in Nat
  OBVIOUS
<1>2. PICK p : p = Path(c, bytes)
  OBVIOUS
<1>3. p[0] \in Live /\ p[Len(bytes)] \notin Live /\ \A n \in 0..Len(bytes) : p[n] \in Configs
  BY <1>1, <1>2, PathSteps, PathTyped, AdmitsLive
<1>4. \E n \in 1..Len(bytes) : p[n - 1] \in Live /\ p[n] \notin Live
  <2> SUFFICES ASSUME \A n \in 1..Len(bytes) : p[n - 1] \in Live => p[n] \in Live PROVE FALSE
    OBVIOUS
  <2>1. PICK U : U = {n \in Nat : p[n] \in Live}
    OBVIOUS
  <2>2. 0 \in U
    BY <1>3, <2>1
  <2>3. ASSUME NEW n \in 0..(Len(bytes) - 1), n \in U PROVE n + 1 \in U
    <3>1. n + 1 \in 1..Len(bytes) /\ (n + 1) - 1 = n
      BY <1>1
    <3> QED BY <2>1, <2>3, <3>1
  <2>4. \A n \in 0..(Len(bytes) - 1) : n \in U => n + 1 \in U
    BY <2>3
  <2>5. \A n \in 0..Len(bytes) : n \in U
    BY <1>1, <2>2, <2>4, UpTo
  <2>6. Len(bytes) \in 0..Len(bytes)
    BY <1>1
  <2> QED BY <1>3, <2>1, <2>5, <2>6
<1>5. \A n \in 1..Len(bytes) : n - 1 \in 0..Len(bytes) /\ n \in 0..Len(bytes)
  BY <1>1
<1>6. \A d \in Configs : d.alive <=> d \in Live
  BY DEF Configs, Live
<1>7. \A n \in 1..Len(bytes) :
        (p[n - 1].alive /\ ~p[n].alive) <=> (p[n - 1] \in Live /\ p[n] \notin Live)
  BY <1>3, <1>5, <1>6
<1>8. PICK n : n = DeathOf(p, bytes)
  OBVIOUS
<1>9. n \in 1..Len(bytes) /\ p[n - 1].alive /\ ~p[n].alive
  BY <1>4, <1>7, <1>8 DEF DeathOf
<1> QED BY <1>2, <1>7, <1>8, <1>9

\* The empty-stack probe of a token decides it, or defers it: what it keeps is
\* admissible over every stack, and what is admissible though it does not survive is
\* deferred, and over a stack that is not empty.
LEMMA ProbeIsRight ==
  ASSUME Regular, StepIsFrameBlind, NEW c \in Live, NEW bytes \in Seq(Bytes)
  PROVE  /\ Admits(Config(c.state, <<>>), bytes) => Admits(c, bytes)
         /\ ~Admits(Config(c.state, <<>>), bytes) /\ Admits(c, bytes) =>
              ConsultedAmbient(c.state, bytes) /\ c.stack # <<>>
<1>1. /\ c.state \in States /\ c.stack \in Seq(Frames)
      /\ c = [state |-> c.state, stack |-> c.stack, alive |-> TRUE]
  BY DEF Live
<1>2. PICK e : e = Config(c.state, <<>>)
  OBVIOUS
<1>3. e \in Live /\ e.state = c.state /\ e.stack = <<>>
  <2>1. <<>> \in Seq(Frames)
    OBVIOUS
  <2> QED BY <1>1, <1>2, <2>1 DEF Config, Live
<1>4. PICK below \in Seq(Frames) : below = c.stack
  BY <1>1
<1>5. Over(below, e) = c
  <2>1. below \o <<>> = below
    OBVIOUS
  <2> QED BY <1>1, <1>2, <1>4, <2>1 DEF Over, Config
<1>6. PICK p, q : p = Path(e, bytes) /\ q = Path(c, bytes)
  OBVIOUS
<1>7. \A n \in 0..Len(bytes) : p[n] \in Live => q[n] = Over(below, p[n])
  BY <1>3, <1>5, <1>6, PathTracks
<1>8. \A d \in Live : Over(below, d) \in Live
  <2> SUFFICES ASSUME NEW d \in Live PROVE Over(below, d) \in Live
    OBVIOUS
  <2>1. d.stack \in Seq(Frames) /\ d.state \in States /\ d.alive = TRUE
    BY DEF Live
  <2>2. below \o d.stack \in Seq(Frames)
    BY <2>1
  <2> QED BY <2>1, <2>2 DEF Over, Live
<1>9. Len(bytes) \in 0..Len(bytes) /\ Len(bytes) \in Nat
  OBVIOUS
<1>10. (Admits(e, bytes) <=> p[Len(bytes)] \in Live) /\ (Admits(c, bytes) <=> q[Len(bytes)] \in Live)
  BY <1>3, <1>6, AdmitsLive
<1>11. Admits(e, bytes) => Admits(c, bytes)
  BY <1>7, <1>8, <1>9, <1>10
<1>12. ASSUME ~Admits(e, bytes), Admits(c, bytes)
       PROVE  ConsultedAmbient(c.state, bytes) /\ c.stack # <<>>
  <2>1. PICK n : n = DeathOf(p, bytes)
    OBVIOUS
  <2>2. n \in 1..Len(bytes) /\ p[n - 1] \in Live /\ p[n] \notin Live
    BY <1>3, <1>6, <1>12, <2>1, DeathFound
  <2>3. n - 1 \in 0..Len(bytes) /\ n \in 0..Len(bytes) /\ bytes[n] \in Bytes
    BY <1>9, <2>2
  <2>4. p[n] = Advance(p[n - 1], bytes[n]) /\ q[n] = Advance(q[n - 1], bytes[n])
    BY <1>6, <1>9, <2>2, PathSteps
  <2>5. q[n - 1] = Over(below, p[n - 1])
    BY <1>7, <2>2, <2>3
  <2>6. q[n] \in Live
    BY <1>6, <1>10, <1>12, <2>3, PathTyped
  <2>7. PICK d \in Live : d = p[n - 1]
    BY <2>2
  <2>8. PICK b \in Bytes : b = bytes[n]
    BY <2>3
  <2>9. Advance(d, b) \notin Live /\ Advance(Over(below, d), b) \in Live
    BY <2>2, <2>4, <2>5, <2>6, <2>7, <2>8
  <2>10. d.stack = <<>> /\ below # <<>> /\ \E f \in Frames : Step[d.state, f, b].do # "Dead"
    BY <2>9, ByteConsults
  <2>11. p[n - 1].stack = <<>> /\ \E f \in Frames : Step[p[n - 1].state, f, bytes[n]].do # "Dead"
    BY <2>7, <2>8, <2>10
  <2>12. ConsultedAmbient(c.state, bytes)
    BY <1>2, <1>6, <1>12, <2>1, <2>11 DEF ConsultedAmbient
  <2> QED BY <1>4, <2>10, <2>12
<1> QED BY <1>2, <1>11, <1>12

\* A token of the vocabulary is a sequence of bytes.
LEMMA TokenBytes ==
  ASSUME Regular
  PROVE  \A t \in Tokens : Vocab[t] \in Seq(Bytes)
BY DEF Regular, Tokens

\* The mask assembled from the partition of a state is exact over every stack.
LEMMA MaskFromPartition ==
  ASSUME Regular, StepIsFrameBlind, NEW c \in Live
  PROVE  Mask(c, Partition(c.state)) = Acceptable(c)
<1>1. PICK P : P = Partition(c.state)
  OBVIOUS
<1>2. /\ P.indep = {t \in Tokens : Admits(Config(c.state, <<>>), Vocab[t])}
      /\ P.deferred = {t \in Tokens : ConsultedAmbient(c.state, Vocab[t])}
  BY <1>1 DEF Partition
<1>3. \A t \in Tokens :
        /\ Admits(Config(c.state, <<>>), Vocab[t]) => Admits(c, Vocab[t])
        /\ ~Admits(Config(c.state, <<>>), Vocab[t]) /\ Admits(c, Vocab[t]) =>
             ConsultedAmbient(c.state, Vocab[t]) /\ c.stack # <<>>
  BY TokenBytes, ProbeIsRight
<1>4. P.indep \cup (IF c.stack # <<>> THEN {t \in P.deferred : Admits(c, Vocab[t])} ELSE {})
        = {t \in Tokens : Admits(c, Vocab[t])}
  BY <1>2, <1>3
<1> QED BY <1>1, <1>4 DEF Mask, Acceptable
=============================================================================
