---------------------------- MODULE HostClients ----------------------------
(***************************************************************************)
(* The host on its own, facing clients that hold to the message format and *)
(* to nothing else: they greet late or never, share a session between      *)
(* connections, name old sessions, skip sequence numbers, reuse an         *)
(* operation identifier for another text, or send none at all (the legacy  *)
(* clients of LOSSLESS_PROTOCOL.md).  The ledger's file may have been      *)
(* written by an older host.                                               *)
(***************************************************************************)
EXTENDS RealtimeHost

CONSTANTS
  Inserts,  \* the <<op, text, mode>> a client may send
  MaxSends  \* bound: messages sent in a run

ASSUME InsertsAssumption ==
  Inserts \subseteq (OpId \cup {None}) \X (Texts \cup {None}) \X (Modes \cup {None})

VARIABLE sends

clientsVars == <<sends, wireVars, faults, sessionVars, ledgerVars, hostVars>>

\* A file of an older host that lists one bare key, or none.
OldFiles ==
  {EmptyLedger} \cup {[digest |-> [x \in {key} |-> Legacy], older |-> {}] :
                        key \in Key}

ClientsInit ==
  /\ link = [k \in Conns |-> "up"]
  /\ toHost = [k \in Conns |-> <<>>]
  /\ toPhone = [k \in Conns |-> <<>>]
  /\ faults = Budget
  /\ SessionInit
  /\ helloFrom \in [Conns -> Clients \cup {None}]
  /\ job = [k \in Conns |-> None]
  /\ execQ = <<>> /\ doneQ = <<>>
  /\ injectorMode = DefaultMode
  /\ desktop = <<>> /\ acked = {}
  /\ diskLedger \in OldFiles
  /\ ledger = Newest(diskLedger)
  /\ unavailable = FALSE
  /\ sends = 0

Messages ==
  LET issued == 1..nextSession - 1
  IN {Hello(c) : c \in Clients} \cup {Auth(DefaultMode)}
       \cup {Ping(s) : s \in issued}
       \cup {TextInsert(s, seq, i[1], i[2], i[3]) :
               s \in issued, seq \in 0..MaxOps, i \in Inserts}

\* A client sends a message; the replies to earlier ones have been read.
Send(k) ==
  /\ sends < MaxSends
  /\ sends' = sends + 1
  /\ toHost[k] = <<>>
  /\ \E m \in Messages : Transmit(k, m)
  /\ toPhone' = [toPhone EXCEPT ![k] = <<>>]
  /\ UNCHANGED <<faults, sessionVars, ledgerVars, hostVars>>

ClientsNext ==
  \/ \E k \in Conns : Send(k)
  \/ HostNext /\ UNCHANGED sends

ClientsSpec == ClientsInit /\ [][ClientsNext]_clientsVars

ClientsTypeOK == WireTypeOK /\ SessionTypeOK /\ LedgerTypeOK /\ HostTypeOK
=============================================================================
