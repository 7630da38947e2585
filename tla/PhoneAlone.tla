----------------------------- MODULE PhoneAlone -----------------------------
(***************************************************************************)
(* A phone on its own, facing a host that answers anything at any time:    *)
(* what MainActivity keeps true of its queue and its timers must not       *)
(* depend on the host behaving.                                            *)
(***************************************************************************)
EXTENDS PhoneDelivery

CONSTANTS
  Answers,  \* the messages the host may send
  MaxSays   \* bound: messages the host sends in a run

ASSUME AnswersAssumption == Answers \subseteq PhoneMsg

VARIABLE says

aloneVars == <<says, phone, wireVars, faults>>

AloneInit == WireInit /\ PhoneInit /\ says = 0

\* The host reads what it was sent, minding or not, and sends some message;
\* the phone has heard the earlier ones.
HostSays(k) ==
  /\ says < MaxSays
  /\ says' = says + 1
  /\ link[k] = "up" /\ toPhone[k] = <<>>
  /\ \E m \in Answers : toPhone' = [toPhone EXCEPT ![k] = <<m>>]
  /\ toHost' = [toHost EXCEPT ![k] = <<>>]
  /\ UNCHANGED <<phone, link, faults>>

AloneNext ==
  \/ \E p \in Clients : PhoneNext(p) /\ UNCHANGED says
  \/ \E k \in Conns : HostSays(k)
  \/ WireNext /\ UNCHANGED <<phone, says>>

AloneSpec == AloneInit /\ [][AloneNext]_aloneVars

AloneTypeOK == WireTypeOK /\ PhoneTypeOK
=============================================================================
