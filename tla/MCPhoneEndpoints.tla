-------------------------- MODULE MCPhoneEndpoints --------------------------
(* An instance of PhoneEndpoints for TLC. *)
EXTENDS PhoneEndpoints, TLC

CONSTANTS direct, local, other, mine, theirs

BuiltIn == <<direct, local>>

\* One server with two addresses, next to a stranger's; and an address of
\* the server that has come to the stranger.
SampleNetworks ==
  {(direct :> mine @@ local :> mine @@ other :> theirs),
   (direct :> theirs @@ local :> mine @@ other :> NoMachine)}

\* What happens from outside, a few events at a time.
Nothing == [event \in Events |-> 0]
FewEvents ==
  {("tap" :> 2 @@ "settings" :> 2 @@ "found" :> 1) @@ Nothing,
   ("tap" :> 1 @@ "settings" :> 1 @@ "drop" :> 1 @@ "reauth" :> 1) @@ Nothing,
   ("tap" :> 2 @@ "found" :> 2 @@ "lost" :> 1 @@ "resume" :> 1) @@ Nothing,
   ("tap" :> 1 @@ "stop" :> 2 @@ "damage" :> 1) @@ Nothing,
   ("tap" :> 2 @@ "kill" :> 1 @@ "move" :> 1 @@ "stop" :> 1) @@ Nothing}
=============================================================================
