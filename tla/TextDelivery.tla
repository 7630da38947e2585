---------------------------- MODULE TextDelivery ----------------------------
(***************************************************************************)
(* What VibeMic promises its users, with no network, session or ledger in  *)
(* sight.  Each phone appends chunks 1, 2, 3...; the desktop shows, for    *)
(* each phone, its chunks in order and with no gap; a chunk is confirmed,  *)
(* in order, only when the desktop shows it.  The one liberty: the chunk   *)
(* waiting for its confirmation, or the one just confirmed, may be typed   *)
(* again, never after a later one has been typed.                          *)
(***************************************************************************)
EXTENDS Naturals, Sequences

CONSTANTS Phones, Chunks  \* phones, and the bound on chunks per phone

VARIABLES submitted, confirmed, screen

vars == <<submitted, confirmed, screen>>

Init ==
  /\ submitted = [p \in Phones |-> 0]
  /\ confirmed = [p \in Phones |-> 0]
  /\ screen = <<>>

Shown(p, n) == \E i \in DOMAIN screen : screen[i] = <<p, n>>

Submit(p) ==
  /\ submitted[p] < Chunks
  /\ submitted' = [submitted EXCEPT ![p] = @ + 1]
  /\ UNCHANGED <<confirmed, screen>>

Type(p, n) ==
  /\ n \in {confirmed[p], confirmed[p] + 1} \cap 1..submitted[p]
  /\ ~\E later \in n + 1..submitted[p] : Shown(p, later)
  /\ screen' = Append(screen, <<p, n>>)
  /\ UNCHANGED <<submitted, confirmed>>

Confirm(p) ==
  /\ Shown(p, confirmed[p] + 1)
  /\ confirmed' = [confirmed EXCEPT ![p] = @ + 1]
  /\ UNCHANGED <<submitted, screen>>

Next ==
  \E p \in Phones :
    \/ Submit(p)
    \/ \E n \in 1..Chunks : Type(p, n)
    \/ Confirm(p)

Spec == Init /\ [][Next]_vars
=============================================================================
