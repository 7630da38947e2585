--------------------------- MODULE MCHostClients ---------------------------
(* An instance of HostClients for TLC. *)
EXTENDS HostClients, TLC

HostFaults ==
  ("persist" :> 1 @@ "load" :> 1 @@ "inject" :> 1 @@ "quiet" :> 1)
    @@ [kind \in FaultKinds |-> 0]

\* Honest inserts, one that reuses an identifier, one without an identifier
\* or a mode, and one that is malformed.
SampleInserts ==
  {<<o, o, DefaultMode>> : o \in OpId}
    \cup {<<<<c, 1>>, <<c, 2>>, DefaultMode>> : c \in Clients}
    \cup {<<None, <<c, 1>>, None>> : c \in Clients}
    \cup {<<<<c, 1>>, None, None>> : c \in Clients}
=============================================================================
