--------------------------- MODULE PhoneDelivery ---------------------------
(***************************************************************************)
(* MainActivity.kt: the delivery queue of a phone and the connection that  *)
(* drains it.  Every callback, timer and click runs on the UI thread, so   *)
(* each of them is one action; a helper that several of them call is an    *)
(* operator on the phone's record.                                         *)
(*                                                                         *)
(* The queue is committed to SharedPreferences in the same callback that   *)
(* changes it, so the saved queue and the one in memory are one field.     *)
(* The text box, its baseline and the choice of an endpoint are not in     *)
(* this module: a chunk is appended to the queue by Append, and a dial     *)
(* goes to "the host".                                                     *)
(***************************************************************************)
EXTENDS Wire

CONSTANT Ways  \* how a phone may come to redial: "posted" takes a second
               \* candidate endpoint, "timer" takes none
ASSUME WaysAssumption == Ways \subseteq {"timer", "posted"} /\ Ways # {}

VARIABLE phone

Conn == {"idle", "connecting", "open"}
Redials == {"timer", "posted"}

\* conn      isConnecting and isConnected
\* sock      the connection webSocket refers to, 0 if none
\* sess      sessionId; isAuthed is sess # NoSid
\* reauth    reauthInProgress
\* inflight  inflightOp, 0 if none: the delivery-ACK timer is armed iff # 0
\* redial    dials that will still happen: "timer" is reconnectRunnable,
\*           "posted" a connectInternal lambda, which nothing can remove
\* graceUsed autoDiscoveryGraceUsed
\* submitted history: chunks the user has appended
PhoneState ==
  [should : BOOLEAN, conn : Conn, sock : 0..MaxConn, sess : 0..MaxSession,
   reauth : BOOLEAN, localSeq : 0..MaxOps, queue : Seq(1..MaxOps),
   inflight : 0..MaxOps, inflightSeq : 0..MaxOps, redial : SUBSET Redials,
   graceUsed : BOOLEAN, submitted : 0..MaxOps, mode : Modes]

PhoneTypeOK == phone \in [Clients -> PhoneState]

PhoneInit ==
  phone = [p \in Clients |->
    [should |-> FALSE, conn |-> "idle", sock |-> 0, sess |-> NoSid,
     reauth |-> FALSE, localSeq |-> 0, queue |-> <<>>, inflight |-> 0,
     inflightSeq |-> 0, redial |-> {}, graceUsed |-> FALSE, submitted |-> 0,
     mode |-> DefaultMode]]

Become(p, ph) == phone' = [phone EXCEPT ![p] = ph]

Authed(ph) == ph.sess # NoSid

\* Faulty variants of onDisconnected: localSeq is not reset, the operation in
\* flight is not given up, the queue is emptied.
DisconnectedKeepsSeq(ph) ==
  [ph EXCEPT !.conn = "idle", !.sock = 0, !.sess = NoSid,
             !.reauth = FALSE, !.inflight = 0, !.inflightSeq = 0]
DisconnectedKeepsInflight(ph) ==
  [ph EXCEPT !.conn = "idle", !.sock = 0, !.sess = NoSid, !.localSeq = 0,
             !.reauth = FALSE]
DisconnectedDropsQueue(ph) ==
  [ph EXCEPT !.conn = "idle", !.sock = 0, !.sess = NoSid, !.localSeq = 0,
             !.reauth = FALSE, !.inflight = 0, !.inflightSeq = 0,
             !.queue = <<>>]

\* onDisconnected, with webSocket = null
Disconnected(ph) ==
  [ph EXCEPT !.conn = "idle", !.sock = 0, !.sess = NoSid, !.localSeq = 0,
             !.reauth = FALSE, !.inflight = 0, !.inflightSeq = 0]

\* Faulty variant: nothing is scheduled.
GivingUp(ph, way) == Disconnected(ph)

\* tryNextCandidateOrSchedule: a lambda if there are further candidates, else
\* the reconnect timer.
Retrying(ph, way) ==
  [Disconnected(ph) EXCEPT
     !.redial = IF ph.should THEN @ \cup {way} ELSE @,
     !.graceUsed = @ /\ ~(ph.should /\ way = "timer")]

\* Faulty variant: the reconnect timer is removed last.
RestartRemovesTimer(p, ph) ==
  /\ \E way \in Ways :
       Become(p, [Retrying(ph, way) EXCEPT !.redial = @ \ {"timer"}])
  /\ HangUp(ph.sock)

\* restartConnection
Restart(p, ph) ==
  /\ \E way \in Ways :
       Become(p, Retrying([ph EXCEPT !.redial = @ \ {"timer"}], way))
  /\ HangUp(ph.sock)

\* connectInternal, when it takes a candidate endpoint
Dial(p, ph) ==
  \E k \in Conns :
    /\ Fresh(k)
    /\ Become(p, [ph EXCEPT !.conn = "connecting", !.sock = k])
    /\ link' = [link EXCEPT ![k] = "dialing"]

\* connectInternal, past its check that no connection exists: with automatic
\* endpoints it may first wait, once, for a direct route to be discovered.
Connect(p, ph) ==
  \/ Dial(p, ph)
  \/ /\ "posted" \in Ways /\ ~ph.graceUsed
     /\ Become(p, [ph EXCEPT !.redial = @ \cup {"posted"}, !.graceUsed = TRUE])
     /\ UNCHANGED link

\* drainDeliveryQueue has something to send
Drains(ph) ==
  /\ ph.conn = "open" /\ Authed(ph)
  /\ ph.inflight = 0 /\ ph.queue # <<>>

Drained(ph) ==
  [ph EXCEPT !.inflight = Head(ph.queue), !.inflightSeq = ph.localSeq + 1,
             !.localSeq = @ + 1]

HeadMsg(p, ph) ==
  TextInsert(ph.sess, ph.localSeq + 1, <<p, Head(ph.queue)>>,
             <<p, Head(ph.queue)>>, ph.mode)

\* Sending m, or restarting the connection when the socket will not take it;
\* inbox is toPhone without the message being handled.
SendOrRestart(p, ph, m, inbox) ==
  \/ /\ SendOk(ph.sock)
     /\ Become(p, ph)
     /\ Transmit(ph.sock, m)
     /\ toPhone' = inbox
  \/ /\ ~SendOk(ph.sock)
     /\ Restart(p, ph)

\* drainDeliveryQueue, called when the phone's state is ph.  (A failed send
\* clears the operation in flight, as Restart does in any case.)
ThenDrain(p, ph, inbox) ==
  \/ /\ ~Drains(ph)
     /\ Become(p, ph)
     /\ toPhone' = inbox
     /\ UNCHANGED <<link, toHost>>
  \/ /\ Drains(ph)
     /\ SendOrRestart(p, Drained(ph), HeadMsg(p, ph), inbox)

-----------------------------------------------------------------------------
\* maybeProcessInputText, when the draft grew: the suffix becomes an operation.
AppendText(p) ==
  /\ phone[p].submitted < MaxOps
  /\ LET n == phone[p].submitted + 1
     IN ThenDrain(p, [phone[p] EXCEPT !.submitted = n, !.queue = Append(@, n)],
                  toPhone)
  /\ UNCHANGED faults

\* The user picks a paste mode.
PickMode(p) ==
  /\ Spend("radio")
  /\ \E m \in Modes \ {phone[p].mode} :
       Become(p, [phone[p] EXCEPT !.mode = m])
  /\ UNCHANGED wireVars

\* The button, while it reads "Connect".
TapConnect(p) ==
  LET ph == [phone[p] EXCEPT !.should = TRUE, !.graceUsed = FALSE]
  IN /\ ph.conn # "open"
     /\ \/ ph.conn = "idle" /\ Connect(p, ph)
        \/ ph.conn # "idle" /\ Become(p, ph) /\ UNCHANGED link
     /\ UNCHANGED <<toHost, toPhone, faults>>

\* disconnectManual: the button, while it reads "Disconnect".
TapDisconnect(p) ==
  /\ phone[p].conn = "open"
  /\ Spend("disconnect")
  /\ Become(p, [Disconnected(phone[p]) EXCEPT
                  !.should = FALSE, !.graceUsed = FALSE,
                  !.redial = @ \ {"timer"}])
  /\ HangUp(phone[p].sock)

\* The process is killed; what the user sees again was in SharedPreferences.
Kill(p) ==
  /\ Spend("kill")
  /\ Become(p, [Disconnected(phone[p]) EXCEPT
                  !.should = FALSE, !.graceUsed = FALSE, !.redial = {}])
  /\ \/ phone[p].conn # "idle" /\ HangUp(phone[p].sock)
     \/ phone[p].conn = "idle" /\ UNCHANGED wireVars

\* reconnectRunnable fires, or the posted connectInternal runs.
Redial(p) ==
  \E way \in phone[p].redial :
    LET ph == [phone[p] EXCEPT !.redial = @ \ {way}]
        dials == ph.conn = "idle" /\ (way = "posted" \/ ph.should)
    IN /\ \/ dials /\ Connect(p, ph)
          \/ ~dials /\ Become(p, ph) /\ UNCHANGED link
       /\ UNCHANGED <<toHost, toPhone, faults>>

\* SocketListener.onOpen
OnOpen(p) ==
  LET k == phone[p].sock
  IN /\ phone[p].conn = "connecting"
     /\ link[k] = "dialing"
     /\ Become(p, [phone[p] EXCEPT !.conn = "open"])
     /\ link' = [link EXCEPT ![k] = "up"]
     /\ toHost' = [toHost EXCEPT ![k] = Append(@, Hello(p))]
     /\ UNCHANGED <<toPhone, faults>>

\* SocketListener.onFailure and onClosed
OnFailure(p) ==
  /\ phone[p].conn # "idle"
  /\ link[phone[p].sock] = "down"
  /\ \E way \in Ways : Become(p, Retrying(phone[p], way))
  /\ HangUp(phone[p].sock)
  /\ UNCHANGED faults

\* enqueueDiscoveredEndpoint, when a direct route is discovered: it replaces
\* an indirect one, which stays a candidate...
SwitchRoute(p) ==
  /\ phone[p].conn # "idle"
  /\ Spend("switch")
  /\ Become(p, Retrying([phone[p] EXCEPT !.redial = @ \ {"timer"}], "posted"))
  /\ HangUp(phone[p].sock)

\* ...and ends the wait of a phone that means to be connected.
RouteFound(p) ==
  /\ "posted" \in Ways
  /\ phone[p].should /\ phone[p].conn = "idle"
  /\ Dial(p, phone[p])
  /\ UNCHANGED <<toHost, toPhone, faults>>

\* onResume, without a connection
OnResume(p) ==
  /\ phone[p].should /\ phone[p].conn = "idle"
  /\ Become(p, [phone[p] EXCEPT !.redial = @ \cup {"timer"}])
  /\ UNCHANGED <<wireVars, faults>>

\* heartbeatRunnable, and onResume with a connection
Heartbeat(p) ==
  /\ phone[p].conn = "open" /\ Authed(phone[p])
  /\ Spend("beat")
  /\ SendOrRestart(p, phone[p], Ping(phone[p].sess), toPhone)

\* deliveryAckTimeoutRunnable.  It fires because nothing can arrive any more,
\* or because the answer is later than the timeout.
AckTimeout(p) ==
  LET ph == phone[p]
  IN /\ ph.inflight # 0
     /\ \/ link[ph.sock] \in {"dead", "down"} /\ UNCHANGED faults
        \/ link[ph.sock] = "up" /\ Spend("slow")
     /\ Restart(p, ph)

-----------------------------------------------------------------------------
\* SocketListener.onMessage on the current socket, for a message of this type
Hears(p, type) ==
  /\ phone[p].conn = "open"
  /\ toPhone[phone[p].sock] # <<>>
  /\ Head(toPhone[phone[p].sock]).type = type

Heard(p) == Head(toPhone[phone[p].sock])
Inbox(p) == [toPhone EXCEPT ![phone[p].sock] = Tail(@)]

HandleHelloOk(p) ==
  /\ Hears(p, "hello_ok")
  /\ SendOrRestart(p, phone[p], Auth(phone[p].mode), Inbox(p))
  /\ UNCHANGED faults

HandleAuthOk(p) ==
  /\ Hears(p, "auth_ok")
  /\ ThenDrain(p, [phone[p] EXCEPT !.sess = Heard(p).sid, !.reauth = FALSE,
                                   !.mode = Heard(p).mode], Inbox(p))
  /\ UNCHANGED faults

\* Faulty variant: any operation counts.
MatchesInflightAnyOp(p, m) ==
  /\ m.ok
  /\ phone[p].inflight # 0
  /\ m.seq = phone[p].inflightSeq

\* The ACK is a success and names the operation and number in flight.
MatchesInflight(p, m) ==
  /\ m.ok
  /\ phone[p].inflight # 0
  /\ m.seq = phone[p].inflightSeq
  /\ m.op = <<p, phone[p].inflight>>

Delivered(ph) ==
  [ph EXCEPT !.inflight = 0, !.inflightSeq = 0,
             !.queue = IF @ # <<>> /\ Head(@) = ph.inflight THEN Tail(@) ELSE @]

\* Faulty variant: the queue is not drained further.
HandleAckThenWait(p) ==
  /\ Hears(p, "ack")
  /\ MatchesInflight(p, Heard(p))
  /\ Become(p, Delivered(phone[p]))
  /\ toPhone' = Inbox(p)
  /\ UNCHANGED <<link, toHost, faults>>

HandleAck(p) ==
  /\ Hears(p, "ack")
  /\ MatchesInflight(p, Heard(p))
  /\ ThenDrain(p, Delivered(phone[p]), Inbox(p))
  /\ UNCHANGED faults

\* Any other ACK while something is in flight: give up the connection.
HandleAckMismatch(p) ==
  /\ Hears(p, "ack")
  /\ ~MatchesInflight(p, Heard(p))
  /\ phone[p].inflight # 0
  /\ Restart(p, phone[p])
  /\ UNCHANGED faults

\* An ACK with nothing in flight, and a pong, are read and ignored.
HandleIgnored(p) ==
  /\ \/ Hears(p, "pong")
     \/ Hears(p, "ack") /\ phone[p].inflight = 0
  /\ toPhone' = Inbox(p)
  /\ UNCHANGED <<phone, link, toHost, faults>>

\* recoverSession: the session is gone, greet again on the same connection.
Recovering(ph) ==
  [ph EXCEPT !.reauth = TRUE, !.sess = NoSid, !.localSeq = 0,
             !.inflight = 0, !.inflightSeq = 0]

IsRecovery(p, m) ==
  m.reason \in {"no_active_session", "invalid_session"} \/ phone[p].inflight # 0

HandleSessionError(p) ==
  /\ Hears(p, "error")
  /\ IsRecovery(p, Heard(p))
  /\ \/ /\ ~phone[p].reauth
        /\ SendOrRestart(p, Recovering(phone[p]), Hello(p), Inbox(p))
     \/ /\ phone[p].reauth
        /\ Become(p, [phone[p] EXCEPT !.inflight = 0, !.inflightSeq = 0])
        /\ toPhone' = Inbox(p)
        /\ UNCHANGED <<link, toHost>>
  /\ UNCHANGED faults

HandleOtherError(p) ==
  /\ Hears(p, "error")
  /\ ~IsRecovery(p, Heard(p))
  /\ Restart(p, phone[p])
  /\ UNCHANGED faults

Hearing(p) ==
  \/ HandleHelloOk(p) \/ HandleAuthOk(p)
  \/ HandleAck(p) \/ HandleAckMismatch(p) \/ HandleIgnored(p)
  \/ HandleSessionError(p) \/ HandleOtherError(p)

PhoneNext(p) ==
  \/ AppendText(p) \/ PickMode(p)
  \/ TapConnect(p) \/ TapDisconnect(p) \/ Kill(p) \/ Redial(p)
  \/ OnOpen(p) \/ OnFailure(p)
  \/ SwitchRoute(p) \/ RouteFound(p) \/ OnResume(p)
  \/ Heartbeat(p) \/ AckTimeout(p)
  \/ Hearing(p)

-----------------------------------------------------------------------------
IsUnconfirmedTail(ph) ==
  \A i \in DOMAIN ph.queue : ph.queue[i] = ph.submitted - Len(ph.queue) + i

OnlyHeadInFlight(ph) ==
  ph.inflight # 0 =>
    /\ ph.queue # <<>> /\ Head(ph.queue) = ph.inflight
    /\ ph.conn = "open" /\ Authed(ph)
    /\ ph.inflightSeq = ph.localSeq

\* The queue is the unconfirmed tail of what the user appended: in order, with
\* no gap, and only its head is in flight, on an authenticated connection
\* with the ACK timer armed, under the newest sequence number.
\* (drainDeliveryQueue, handleMessage "ack", onDisconnected.)
QueueIsUnconfirmedTail ==
  \A p \in Clients : IsUnconfirmedTail(phone[p]) /\ OnlyHeadInFlight(phone[p])

\* The inductive strengthening of the queue's and the types' invariants: a
\* session belongs to an open connection, and a session's numbers and the
\* queue together never exceed what was appended (plus the one in flight),
\* which is why localSeq stays within MaxOps.
Sound(ph) ==
  /\ ph \in PhoneState
  /\ ph.conn = "idle" <=> ph.sock = 0
  /\ ph.conn # "open" \/ ph.reauth => ~Authed(ph)
  /\ IsUnconfirmedTail(ph) /\ OnlyHeadInFlight(ph)
  /\ Len(ph.queue) <= ph.submitted
  /\ ph.localSeq + Len(ph.queue) <=
       ph.submitted + (IF ph.inflight = 0 THEN 0 ELSE 1)

PhoneInv == phone \in [Clients -> PhoneState] /\ \A p \in Clients : Sound(phone[p])

\* The drain never stalls: a phone that is authenticated and has queued text
\* has an operation in flight, so the ACK timer is armed.
NeverIdleWithWork ==
  \A p \in Clients : ~Drains(phone[p])

\* A phone that means to be connected and is not has a dial coming.
RedialPending ==
  \A p \in Clients :
    phone[p].should /\ phone[p].conn = "idle" => phone[p].redial # {}

\* Nothing but a successful ACK of the operation in flight, heard on the
\* current socket, removes text from the queue, and it removes that operation
\* (LOSSLESS_PROTOCOL.md:78).
RemovedOnlyByMatchingAck ==
  [][\A p \in Clients :
       Len(phone'[p].queue) < Len(phone[p].queue) =>
         /\ phone[p].conn = "open" /\ Hears(p, "ack")
         /\ Heard(p).ok /\ Heard(p).op = <<p, Head(phone[p].queue)>>
         /\ phone[p].inflight = Head(phone[p].queue)
         /\ phone'[p].queue = Tail(phone[p].queue)]_phone
=============================================================================
