--------------------------- MODULE MCTextInjector ---------------------------
(* An instance of TextInjector for TLC. *)
EXTENDS TextInjector, TLC

\* Three letter keys (a, b, v), Insert and the modifiers; no third level key.
\* The second slot of each letter key holds the capital letter, the third a
\* Unicode keysym and the last a legacy one.
Board == 38..43
Keysyms ==
  [k \in Board |-> [s \in Slots |->
    CASE k = 38 -> (<<97, 65, 16777459, 8364>>)[s + 1]
      [] k = 39 -> (<<98, 66, 0, 0>>)[s + 1]
      [] k = 40 -> (<<118, 86, 0, 0>>)[s + 1]
      [] OTHER -> 0]]
KeyNames ==
  "v" :> 40 @@ "Insert" :> 41 @@ "Control_L" :> 42 @@ "Shift_L" :> 43

\* The letter of the paste shortcuts; and a letter, a capital and a character
\* beyond 16 bits.
SampleTexts == {<<118>>, <<98, 65, 128512>>}

\* A text with a capital letter, which the layout has.
Capital == {<<65>>}

AllInjectors == InjectorType
LinuxOnly == {[kind |-> "linux", clipboard |-> FALSE, atspi |-> FALSE]}

\* A desktop (1) with two windows (2 and 3) and their widgets (4 and 5 in the
\* first, 6 in the second), with every combination of what they answer.
Widgets == 4..6
SampleTrees ==
  {[parent  |-> <<0, 1, 1, 2, 2, 3>>,
    focused |-> [x \in 1..6 |-> x \in f],
    editable |-> [x \in 1..6 |-> x \in e],
    text    |-> [x \in 1..6 |-> x \in q],
    role    |-> [x \in 1..6 |-> IF x = 5 THEN 2 ELSE 1]] :
     f \in SUBSET (2..6), e \in SUBSET Widgets, q \in SUBSET Widgets}
=============================================================================
