---------------------------- MODULE MCPhoneAlone ----------------------------
(* An instance of PhoneAlone for TLC. *)
EXTENDS PhoneAlone, TLC

PhoneFaults ==
  ("switch" :> 1 @@ "beat" :> 1 @@ "disconnect" :> 1 @@ "radio" :> 1)
    @@ [kind \in FaultKinds |-> 0]
SampleAnswers ==
  {HelloOk, Pong, Error("invalid_session"), Error("hello_required")}
    \cup {AuthOk(1, DefaultMode)}
    \cup {Ack(seq, o, ok) : seq \in 1..2, o \in OpId, ok \in BOOLEAN}
=============================================================================
