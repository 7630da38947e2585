------------------------------ MODULE VibeMic ------------------------------
(***************************************************************************)
(* The lossless text delivery of VibeMic: phones and the desktop host      *)
(* exchange messages over connections that fail, while either side may     *)
(* die and come back.                                                      *)
(***************************************************************************)
EXTENDS PhoneDelivery, RealtimeHost

vars == <<phone, wireVars, faults, sessionVars, ledgerVars, hostVars>>

Init ==
  /\ WireInit /\ SessionInit /\ LedgerInit /\ HostInit /\ PhoneInit

PhoneStep(p) ==
  PhoneNext(p) /\ UNCHANGED <<sessionVars, ledgerVars, hostVars>>

HostStep == HostNext /\ UNCHANGED phone

WireStep ==
  WireNext /\ UNCHANGED <<phone, sessionVars, ledgerVars, hostVars>>

Next ==
  \/ \E p \in Clients : PhoneStep(p)
  \/ HostStep
  \/ WireStep

Spec == Init /\ [][Next]_vars

-----------------------------------------------------------------------------
TypeOK ==
  /\ WireTypeOK /\ SessionTypeOK /\ LedgerTypeOK /\ HostTypeOK /\ PhoneTypeOK

Queued(p) == {phone[p].queue[i] : i \in DOMAIN phone[p].queue}

\* No silent loss: a chunk the user appended is still in the phone's saved
\* queue unless the desktop has typed it.  (LOSSLESS_PROTOCOL.md, Android
\* durability rules; handleMessage "ack" and _on_text_insert.)
NoSilentLoss ==
  \A p \in Clients : \A n \in 1..phone[p].submitted :
    n \in Queued(p) \/ <<p, n>> \in Injected

\* The sequence numbers of both sides stay in step: an insert that names the
\* active session carries the number expect_next_seq waits for, across lost
\* ACKs, reauthentication on the same socket and reconnection.
SeqInStep ==
  \A k \in Conns : \A i \in DOMAIN toHost[k] :
    LET m == toHost[k][i]
    IN m.type = "text_insert" /\ Valid(m.sid) => IsNextSeq(m.seq)

\* With these it is inductive: the phone and the host take turns.  A message of
\* the handshake is the last one of its connection, on the way to the host or
\* back, and a session has one insert at most on its way.
Inserts(out) == {i \in DOMAIN out : out[i].type = "text_insert"}
Acks(in) == {i \in DOMAIN in : in[i].type = "ack"}

InTurn(out, in, jb) ==
  /\ \A i \in DOMAIN out : out[i].type \in {"hello", "auth"} => i = Len(out)
  /\ \A i \in DOMAIN in : in[i].type \in {"hello_ok", "auth_ok"} =>
       i = Len(in) /\ out = <<>> /\ jb = None
  /\ \A i, j \in Inserts(out) : out[i].sid = out[j].sid => i = j

\* On a new connection a phone says nothing until it has a session...
Greeting(out, in, jb) ==
  /\ \A i \in DOMAIN out : out[i].type \in {"hello", "auth"}
  /\ \A i \in DOMAIN in :
       in[i].type = "error" => in[i].reason = "hello_required"
  /\ jb = None

\* ...and in a session it waits for the answer to its one insert, which both
\* sides have counted unless the host refuses it or has yet to read it.
Numbered(m, ph) == m.sid = ph.sess /\ m.seq = ph.localSeq

Conversing(ph, out, in, jb, act) ==
  /\ \A i \in DOMAIN out : out[i].type \in {"ping", "text_insert"}
  /\ \A i \in DOMAIN in : in[i].type \notin {"hello_ok", "auth_ok"}
  /\ ph.inflight = 0 => Inserts(out) = {} /\ jb = None /\ Acks(in) = {}
  /\ \A i \in Inserts(out) : Numbered(out[i], ph) /\ jb = None /\ Acks(in) = {}
  /\ jb # None => Numbered(jb, ph) /\ Acks(in) = {}
  /\ \A i, j \in Acks(in) : i = j
  /\ /\ act # None /\ act.sid = ph.sess
     /\ ph.inflight = 0 \/ jb # None \/ \E i \in Acks(in) : in[i].ok
     => act.lastSeq = ph.localSeq

Talks(ph, out, in, jb, act) ==
  /\ ~Authed(ph) => ph.localSeq = 0
  /\ ph.conn = "connecting" => out = <<>> /\ in = <<>> /\ jb = None
  /\ ph.conn = "open" /\ ~Authed(ph) /\ ~ph.reauth => Greeting(out, in, jb)
  /\ Authed(ph) => Conversing(ph, out, in, jb, act)

\* Connections are dialled once, by one phone.
SocketsOwned ==
  /\ \A k \in Conns : link[k] = "unused" =>
       toHost[k] = <<>> /\ toPhone[k] = <<>> /\ job[k] = None
  /\ \A p \in Clients : phone[p].sock # 0 =>
       /\ link[phone[p].sock] # "unused"
       /\ \A q \in Clients : phone[q].sock = phone[p].sock => q = p

TakingTurns ==
  /\ \A k \in Conns : InTurn(toHost[k], toPhone[k], job[k])
  /\ \A p \in Clients :
       LET k == phone[p].sock
       IN Talks(phone[p], toHost[k], toPhone[k], job[k], active)
  /\ SocketsOwned
  /\ \A k \in Conns : \A i \in DOMAIN toPhone[k] :
       LET m == toPhone[k][i]
       IN m.type = "auth_ok" /\ Valid(m.sid) => active.lastSeq = 0

\* An operation the host has acknowledged as delivered is on the ledger's
\* file (and in memory) as long as the ledger is usable, so a restart cannot
\* make the host forget it.
AckedIsDurable ==
  ~unavailable =>
    \A o \in acked : /\ <<o[1], o>> \in Keys(ledger)
                     /\ <<o[1], o>> \in Keys(diskLedger)

\* The handler starts typing a chunk the desktop already shows only while an
\* earlier handler of the same chunk has not recorded it yet: a lost ACK, a
\* reconnection or a new session alone never causes a replay.
ReplayOnlyWhileUnrecorded ==
  [][\A k \in Conns :
       StartsInsert(k) /\ job'[k].op \in Injected =>
         \E j \in Conns \ {k} : job[j] # None /\ job[j].op = job'[k].op]_vars

\* No chunk is typed twice (LOSSLESS_PROTOCOL.md:45).
AtMostOnce ==
  \A i, j \in DOMAIN desktop : desktop[i].op = desktop[j].op => i = j

-----------------------------------------------------------------------------
\* How many chunks the desktop has confirmed to p.
Confirmed(p) == phone[p].submitted - Len(phone[p].queue)

\* The operation e was appended after o, by the same phone.
Later(e, o) == e[1] = o[1] /\ e[2] > o[2]

\* What the worker has still to type.
Waiting == {job[execQ[i]].op : i \in DOMAIN execQ}

\* Nothing is overtaken: a chunk that waits for the worker, or that the host
\* would let through because it names the active session, has no later chunk
\* of its phone before it, on the desktop or in the worker's queue, although
\* a chunk may be under way through several connections and sessions at once.
\* (drainDeliveryQueue, _on_text_insert and the single-threaded executor.)
NothingOvertaken ==
  /\ \A i, j \in DOMAIN execQ :
       i < j => ~Later(job[execQ[i]].op, job[execQ[j]].op)
  /\ \A e \in Injected, o \in Waiting : ~Later(e, o)
  /\ \A k \in Conns : \A i \in DOMAIN toHost[k] :
       LET m == toHost[k][i]
       IN m.type = "text_insert" /\ Valid(m.sid) =>
            \A e \in Injected \cup Waiting : ~Later(e, m.op)

\* With these three it is inductive.  Only the oldest unconfirmed chunk of a
\* phone, or one confirmed since, was ever sent...
Issued(o) ==
  o \in OpId /\ o[2] <= Confirmed(o[1]) + 1 /\ o[2] <= phone[o[1]].submitted

HeadsOnly ==
  /\ \A k \in Conns : \A i \in DOMAIN toHost[k] :
       toHost[k][i].type = "text_insert" => Issued(toHost[k][i].op)
  /\ \A k \in Conns : job[k] # None => Issued(job[k].op)
  /\ \A o \in Injected : Issued(o)

\* ...each connection carries the chunks in the order they were appended...
LinesInOrder ==
  \A k \in Conns : \A i, j \in DOMAIN toHost[k] :
    i < j /\ toHost[k][i].type = "text_insert"
          /\ toHost[k][j].type = "text_insert" =>
      ~Later(toHost[k][i].op, toHost[k][j].op)

\* ...and one connection only knows of a session.
Names(k, s) ==
  \/ \E i \in DOMAIN toHost[k] :
       toHost[k][i].type = "text_insert" /\ toHost[k][i].sid = s
  \/ \E i \in DOMAIN toPhone[k] :
       toPhone[k][i].type = "auth_ok" /\ toPhone[k][i].sid = s
  \/ \E p \in Clients : phone[p].sock = k /\ phone[p].sess = s

SessionOnOneConn ==
  \A s \in SessionIds, k \in Conns : Names(k, s) =>
    s < nextSession /\ \A j \in Conns : Names(j, s) => j = k

-----------------------------------------------------------------------------
\* The abstract specification, seen through the queue and the desktop.
Screen == [i \in DOMAIN desktop |-> desktop[i].op]

Delivery ==
  INSTANCE TextDelivery WITH
    Phones <- Clients,
    Chunks <- MaxOps,
    submitted <- [p \in Clients |-> phone[p].submitted],
    confirmed <- [p \in Clients |-> Confirmed(p)],
    screen <- Screen

DeliversInOrder == Delivery!Spec

-----------------------------------------------------------------------------
\* The event loop, the worker thread, the UI thread and the transport keep
\* working; users, faults and the passage of quiet time are not obliged to.
ReactStep(p) ==
  /\ Hearing(p) \/ OnOpen(p) \/ OnFailure(p)
  /\ UNCHANGED <<sessionVars, ledgerVars, hostVars>>
RedialStep(p) ==
  Redial(p) /\ UNCHANGED <<sessionVars, ledgerVars, hostVars>>
AckTimeoutStep(p) ==
  AckTimeout(p) /\ UNCHANGED <<sessionVars, ledgerVars, hostVars>>

Fairness ==
  /\ \A k \in Conns : WF_vars(HostConnNext(k) /\ UNCHANGED phone)
  /\ WF_vars(RunInjector /\ UNCHANGED phone)
  /\ \A p \in Clients : /\ WF_vars(ReactStep(p))
                        /\ WF_vars(RedialStep(p))
                        /\ WF_vars(AckTimeoutStep(p))

FairSpec == Spec /\ Fairness

Handshaking(p) == phone[p].conn = "open" /\ ~Authed(phone[p])

\* Every chunk is delivered in the end, if the user leaves the phone
\* connecting and the phone is not waiting for ever for the answer to its
\* hello or auth on a connection that has fallen silent, which no timer of
\* MainActivity covers.
AllDelivered ==
  \A p \in Clients :
    /\ <>[](phone[p].should)
    /\ []<>~(Handshaking(p) /\ link[phone[p].sock] = "dead")
    => <>[](phone[p].queue = <<>>)
=============================================================================
