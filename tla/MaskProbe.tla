----------------------------- MODULE MaskProbe -----------------------------
(***************************************************************************)
(* A token put twice through the same automaton, byte by byte: by probe    *)
(* over an empty scratch stack, which is how build_fixed and build_spec    *)
(* classify it once per state (compiled.rs), and by admits over the live   *)
(* stack, which is what the classification must predict (Pda and RtnPda of *)
(* pda.rs and compile.rs).  The automaton and the live stack are arbitrary.*)
(***************************************************************************)
EXTENDS Naturals, Sequences

CONSTANTS
  Q, Gamma, Sigma, \* states, frames, bytes
  Bottom,          \* the top of an empty stack
  Delta,           \* step: [state, frame or Bottom, byte -> what the byte does]
  Ambients,        \* the live stacks a token can meet
  MaxScratch       \* the deepest scratch stack explored

ProbeTops == Gamma \cup {Bottom}

\* What is alive over the empty stack does the same over every frame.
DeltaIsFrameBlind ==
  \A s \in Q, b \in Sigma :
    Delta[<<s, Bottom, b>>].do # "Dead" =>
      \A f \in Gamma : Delta[<<s, f, b>>] = Delta[<<s, Bottom, b>>]

\* The table is total and pops only where there is a frame.
ASSUME DeltaAssumption ==
  \A s \in Q, top \in ProbeTops, b \in Sigma :
    /\ Delta[<<s, top, b>>].do \in {"Next", "Push", "Pop", "Dead"}
    /\ Delta[<<s, top, b>>].do # "Dead" => Delta[<<s, top, b>>].to \in Q
    /\ Delta[<<s, top, b>>].do = "Push" => Delta[<<s, top, b>>].frame \in Gamma
    /\ Delta[<<s, top, b>>].do = "Pop" => top # Bottom
ASSUME FramesAssumption == Bottom \notin Gamma
ASSUME AmbientsAssumption == Ambients \subseteq Seq(Gamma)
ASSUME BoundAssumption == MaxScratch \in Nat

VARIABLES
  probeState, scratch,  \* probe
  verdict,         \* "running", or how probe ended: "dead" or "deferred"
  liveState, live, \* admits
  liveVerdict,     \* "running" or "dead"
  ambient          \* the live stack before the token

probeVars == <<probeState, scratch, verdict, liveState, live, liveVerdict, ambient>>

ProbeTop(s) == IF s = <<>> THEN Bottom ELSE s[Len(s)]

ProbeStacked(s, step) ==
  CASE step.do = "Push" -> Append(s, step.frame)
    [] step.do = "Pop" -> SubSeq(s, 1, Len(s) - 1)
    [] OTHER -> s

ProbeInit ==
  /\ probeState \in Q
  /\ scratch = <<>>
  /\ verdict = "running"
  /\ ambient \in Ambients
  /\ liveState = probeState
  /\ live = ambient
  /\ liveVerdict = "running"

\* Variant used to test the properties: only one frame kind is tried.
ConsultedPartly(b) == scratch = <<>> /\ Delta[<<probeState, CHOOSE f \in Gamma : TRUE, b>>].do # "Dead"

\* consulted_ambient
Consulted(b) == scratch = <<>> /\ \E f \in Gamma : Delta[<<probeState, f, b>>].do # "Dead"

\* One byte in probe.
ProbeByte(b) ==
  LET step == Delta[<<probeState, ProbeTop(scratch), b>>] IN
    IF step.do = "Dead"
    THEN /\ verdict' = IF Consulted(b) THEN "deferred" ELSE "dead"
         /\ UNCHANGED <<probeState, scratch>>
    ELSE /\ probeState' = step.to
         /\ scratch' = ProbeStacked(scratch, step)
         /\ UNCHANGED verdict

\* The same byte in admits.
LiveByte(b) ==
  LET step == Delta[<<liveState, ProbeTop(live), b>>] IN
    IF step.do = "Dead"
    THEN liveVerdict' = "dead" /\ UNCHANGED <<liveState, live>>
    ELSE liveState' = step.to /\ live' = ProbeStacked(live, step) /\ UNCHANGED liveVerdict

Byte(b) ==
  /\ verdict = "running"
  /\ liveVerdict = "running"
  /\ Len(scratch) < MaxScratch
  /\ ProbeByte(b)
  /\ LiveByte(b)
  /\ UNCHANGED ambient

ProbeNext == \E b \in Sigma : Byte(b)
ProbeSpec == ProbeInit /\ [][ProbeNext]_probeVars

-----------------------------------------------------------------------------
(* Properties *)

\* The types of the two runs; part of what ProbeTracksLive is proved from.
ProbeTypeOK ==
  /\ probeState \in Q /\ liveState \in Q
  /\ scratch \in Seq(Gamma) /\ live \in Seq(Gamma) /\ ambient \in Seq(Gamma)
  /\ verdict \in {"running", "dead", "deferred"}
  /\ liveVerdict \in {"running", "dead"}

\* While probe is alive so is the live run, in the same state, its stack being
\* the scratch stack on top of what was there: a token probe keeps alive is
\* admissible over every stack.
ProbeTracksLive ==
  verdict = "running" =>
    liveVerdict = "running" /\ liveState = probeState /\ live = ambient \o scratch

\* A token that probe drops, neither alive nor deferred, is admissible over no
\* stack; and over the empty stack a deferred token is not admissible either,
\* which is why allowed_mask skips the re-probe there.
DropsAreDead ==
  /\ verdict = "dead" => liveVerdict = "dead"
  /\ verdict = "deferred" /\ ambient = <<>> => liveVerdict = "dead"

\* The class probe puts a token in, once per state and over an empty stack, is
\* right over every live stack (build_fixed, build_spec, allowed_mask): what it
\* keeps is admissible and what it drops is not.
ProbePredicts == ProbeTracksLive /\ DropsAreDead
=============================================================================
