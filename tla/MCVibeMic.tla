----------------------------- MODULE MCVibeMic -----------------------------
(***************************************************************************)
(* Instances of VibeMic for TLC: each budget names the misfortunes that a  *)
(* run explores.                                                           *)
(***************************************************************************)
EXTENDS VibeMic, TLC

NoFaults == [kind \in FaultKinds |-> 0]

\* What one phone and the host must get over by themselves: the host dies, a
\* connection falls silent, the phone's process is killed, a dial is refused,
\* the injector fails.
RecoverableFaults ==
  ("crash" :> 1 @@ "silent" :> 1 @@ "kill" :> 1 @@ "refuse" :> 1 @@ "inject" :> 1)
    @@ NoFaults

\* Two phones compete for the one session of the host; an answer is late, a
\* connection is lost.
RivalFaults == ("slow" :> 1 @@ "reset" :> 1) @@ NoFaults

\* A late answer, and nothing else.
LateAnswer == ("slow" :> 1) @@ NoFaults

\* The ledger's file cannot be written, an ACK is lost, the host restarts.
LedgerWriteFails == ("persist" :> 1 @@ "reset" :> 1 @@ "crash" :> 1) @@ NoFaults
=============================================================================
