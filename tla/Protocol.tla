------------------------------ MODULE Protocol ------------------------------
(***************************************************************************)
(* The vocabulary shared by the phone and the desktop host: clients,       *)
(* operation identifiers, session identifiers and the JSON messages of     *)
(* host/protocol.py, reduced to the fields a handler of either side reads. *)
(*                                                                         *)
(* An operation identifier stands for the UUID that MainActivity gives an  *)
(* appended chunk: <<c, n>> is the n-th chunk of client c.  The text of a  *)
(* chunk is represented by an identifier too: an honest phone sends the    *)
(* chunk o with the text o, and a client that reuses an identifier for     *)
(* another text sends o with the text of another chunk.                    *)
(***************************************************************************)
EXTENDS Naturals, Sequences, FiniteSets

CONSTANTS
  Clients,      \* the phones, named by their persistent client_id
  MaxOps,       \* bound: chunks a phone appends
  MaxConn,      \* bound: WebSocket connections ever dialled
  MaxSession,   \* bound: sessions the host ever issues
  Modes,        \* paste modes
  DefaultMode,  \* the mode of a fresh install, and of a fresh injector
  None          \* no operation, client, session, job or paste mode

ASSUME BoundsAssumption ==
  /\ MaxOps \in Nat \ {0}
  /\ MaxConn \in Nat \ {0}
  /\ MaxSession \in Nat \ {0}

ASSUME NoneAssumption ==
  /\ DefaultMode \in Modes
  /\ None \notin Clients \cup Modes
  /\ None \notin Clients \X (1..MaxOps)

OpId  == Clients \X (1..MaxOps)
Texts == OpId
Conns == 1..MaxConn

\* session_id and token are fresh together and are compared together, so one
\* number stands for the pair; 0 is the empty string the phone starts with.
SessionIds == 1..MaxSession
NoSid == 0

Reasons == {"no_active_session", "invalid_session", "hello_required"}

\* Messages from a phone to the host.
Hello(c)    == [type |-> "hello", client |-> c]
Auth(mode)  == [type |-> "auth", mode |-> mode]
Ping(s)     == [type |-> "ping", sid |-> s]
TextInsert(s, seq, op, text, mode) ==
  [type |-> "text_insert", sid |-> s, seq |-> seq, op |-> op,
   text |-> text, mode |-> mode]

HostMsg ==
  [type : {"hello"}, client : Clients]
    \cup [type : {"auth"}, mode : Modes]
    \cup [type : {"ping"}, sid : SessionIds]
    \cup [type : {"text_insert"}, sid : SessionIds, seq : 0..MaxOps + 1,
          op : OpId \cup {None}, text : Texts \cup {None},
          mode : Modes \cup {None}]

\* Messages from the host to a phone.
HelloOk         == [type |-> "hello_ok"]
AuthOk(s, mode) == [type |-> "auth_ok", sid |-> s, mode |-> mode]
Pong            == [type |-> "pong"]
Error(reason)   == [type |-> "error", reason |-> reason]
Ack(seq, op, ok) == [type |-> "ack", seq |-> seq, op |-> op, ok |-> ok]

PhoneMsg ==
  [type : {"hello_ok", "pong"}]
    \cup [type : {"auth_ok"}, sid : SessionIds, mode : Modes]
    \cup [type : {"error"}, reason : Reasons]
    \cup [type : {"ack"}, seq : 0..MaxOps + 1, op : OpId \cup {None},
          ok : BOOLEAN]

\* Faulty variant: the text is not checked.
WellFormedNoTextCheck(m) == m.seq > 0

\* parse_insert accepts the message (the text None stands for an empty text
\* or one with a control character, the sequence number 0 for one below 1).
WellFormed(m) == m.seq > 0 /\ m.text # None
=============================================================================
