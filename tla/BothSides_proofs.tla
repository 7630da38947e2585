-------------------------- MODULE BothSides_proofs --------------------------
(***************************************************************************)
(* What the compositions share: the steps of a phone, and the steps of the *)
(* host, whoever is at the other end.                                      *)
(*                                                                         *)
(* Every step of a phone, and every step of the wire, preserves the        *)
(* phone's inductive invariant PhoneInv and the types of the wire.         *)
(*                                                                         *)
(* Every step of the host preserves the types of its state, keeps its work *)
(* queues in order, and acknowledges only what has been typed.  The ledger *)
(* keeps its form, its order and its bound, and its file knows what the    *)
(* memory knows, whatever is recorded, looked up and loaded.               *)
(***************************************************************************)
EXTENDS PhoneDelivery, RealtimeHost, FiniteSetTheorems, SequenceTheorems, TLAPS

(* The phone. *)

LEMMA Zeroes ==
  /\ 0 \in 0..MaxConn /\ 0 \in 0..MaxSession /\ 0 \in 0..MaxOps
  /\ 0 \in 0..MaxOps + 1
BY BoundsAssumption

-----------------------------------------------------------------------------
(* The operators on a phone's record.                                      *)

\* What the record's fields are, without the record.
LEMMA SoundFields ==
  ASSUME NEW ph, Sound(ph)
  PROVE  /\ ph.queue \in Seq(1..MaxOps) /\ Len(ph.queue) \in Nat
         /\ ph.submitted \in 0..MaxOps /\ ph.submitted \in Nat
         /\ ph.localSeq \in 0..MaxOps /\ ph.localSeq \in Nat
         /\ ph.inflight \in 0..MaxOps
BY LenProperties, BoundsAssumption DEF Sound, PhoneState

\* Sound looks at no other fields than these.
LEMMA SoundSameFields ==
  ASSUME NEW ph, Sound(ph), NEW r \in PhoneState,
         r.conn = ph.conn, r.sock = ph.sock, r.sess = ph.sess,
         r.reauth = ph.reauth, r.inflight = ph.inflight,
         r.inflightSeq = ph.inflightSeq, r.localSeq = ph.localSeq,
         r.queue = ph.queue, r.submitted = ph.submitted
  PROVE  Sound(r)
BY DEF Sound, IsUnconfirmedTail, OnlyHeadInFlight, Authed

LEMMA SoundDisconnected ==
  ASSUME NEW ph, Sound(ph)
  PROVE  Sound(Disconnected(ph))
<1> DEFINE d == Disconnected(ph)
<1>1. d \in PhoneState
  BY Zeroes DEF Sound, Disconnected, PhoneState, NoSid, Conn
<1>2. /\ d.conn = "idle" /\ d.sock = 0 /\ d.sess = NoSid /\ ~d.reauth
      /\ d.inflight = 0 /\ d.localSeq = 0
      /\ d.queue = ph.queue /\ d.submitted = ph.submitted
  BY DEF Sound, Disconnected, PhoneState
<1> HIDE DEF d
<1>3. Sound(d)
  BY <1>1, <1>2, SoundFields
     DEF Sound, IsUnconfirmedTail, OnlyHeadInFlight, Authed
<1> QED
  BY <1>3 DEF d

LEMMA SoundRetrying ==
  ASSUME NEW ph, Sound(ph), NEW way \in Redials
  PROVE  Sound(Retrying(ph, way))
<1> DEFINE d == Disconnected(ph)
           r == Retrying(ph, way)
<1>1. Sound(d)
  BY SoundDisconnected
<1> HIDE DEF d
<1>2. /\ r \in PhoneState
      /\ r.conn = d.conn /\ r.sock = d.sock /\ r.sess = d.sess
      /\ r.reauth = d.reauth /\ r.inflight = d.inflight
      /\ r.inflightSeq = d.inflightSeq /\ r.localSeq = d.localSeq
      /\ r.queue = d.queue /\ r.submitted = d.submitted
  BY <1>1 DEF d, Sound, Retrying, PhoneState
<1> HIDE DEF r
<1>3. Sound(r)
  BY <1>1, <1>2, SoundSameFields
<1> QED
  BY <1>3 DEF r

\* The operation drainDeliveryQueue sends is the oldest one, and its number is
\* one that the bound allows.
LEMMA SoundDrained ==
  ASSUME NEW ph, Sound(ph), Drains(ph)
  PROVE  /\ Sound(Drained(ph))
         /\ Head(ph.queue) \in 1..MaxOps
         /\ ph.localSeq + 1 \in 0..MaxOps
         /\ ph.sess \in SessionIds
<1> DEFINE h == Head(ph.queue)
           n == ph.localSeq + 1
           d == Drained(ph)
<1>1. /\ ph \in PhoneState /\ ph.conn = "open" /\ Authed(ph)
      /\ ph.inflight = 0 /\ ph.queue # <<>>
  BY DEF Sound, Drains
<1>2. h \in 1..MaxOps /\ h \in 0..MaxOps /\ h # 0
  BY <1>1, SoundFields, HeadTailProperties, BoundsAssumption
<1>3. n \in 0..MaxOps
  <2>1. ph.localSeq + Len(ph.queue) <= ph.submitted
    BY <1>1, SoundFields DEF Sound
  <2>2. Len(ph.queue) >= 1
    BY <1>1, SoundFields, EmptySeq
  <2> QED
    BY <2>1, <2>2, SoundFields, BoundsAssumption
<1>4. ph.sess \in SessionIds
  BY <1>1, BoundsAssumption DEF PhoneState, Authed, SessionIds, NoSid
<1> HIDE DEF h, n
<1>5. d = [ph EXCEPT !.inflight = h, !.inflightSeq = n, !.localSeq = n]
  BY <1>1 DEF d, Drained, h, n, PhoneState
<1>6. /\ d \in PhoneState
      /\ d.conn = ph.conn /\ d.sock = ph.sock /\ d.sess = ph.sess
      /\ d.reauth = ph.reauth /\ d.inflight = h
      /\ d.inflightSeq = n /\ d.localSeq = n
      /\ d.queue = ph.queue /\ d.submitted = ph.submitted
  BY <1>1, <1>2, <1>3, <1>5 DEF PhoneState
<1> HIDE DEF d
<1>7. d.localSeq + Len(d.queue) <= d.submitted + 1
  BY <1>1, <1>6, SoundFields DEF Sound, n
<1>8. Sound(d)
  BY <1>1, <1>2, <1>6, <1>7
     DEF Sound, IsUnconfirmedTail, OnlyHeadInFlight, Authed, h
<1> QED
  BY <1>2, <1>3, <1>4, <1>8 DEF d, h, n

LEMMA SoundRecovering ==
  ASSUME NEW ph, Sound(ph)
  PROVE  Sound(Recovering(ph))
<1> DEFINE r == Recovering(ph)
<1>1. /\ r \in PhoneState
      /\ r.conn = ph.conn /\ r.sock = ph.sock /\ r.sess = NoSid
      /\ r.inflight = 0 /\ r.localSeq = 0
      /\ r.queue = ph.queue /\ r.submitted = ph.submitted
  BY Zeroes DEF Sound, Recovering, PhoneState, NoSid
<1> HIDE DEF r
<1>2. Sound(r)
  BY <1>1, SoundFields DEF Sound, IsUnconfirmedTail, OnlyHeadInFlight, Authed
<1> QED
  BY <1>2 DEF r

LEMMA SoundDelivered ==
  ASSUME NEW ph, Sound(ph), ph.inflight # 0
  PROVE  /\ Sound(Delivered(ph))
         /\ ph.queue # <<>> /\ Head(ph.queue) = ph.inflight
         /\ Delivered(ph).queue = Tail(ph.queue)
         /\ Delivered(ph).submitted = ph.submitted
<1> DEFINE q == ph.queue
           t == Tail(ph.queue)
           d == Delivered(ph)
<1>1. /\ ph \in PhoneState /\ q # <<>> /\ Head(q) = ph.inflight
      /\ ph.conn = "open" /\ Authed(ph)
  BY DEF Sound, OnlyHeadInFlight
<1>2. /\ t \in Seq(1..MaxOps) /\ Len(t) = Len(q) - 1
      /\ \A i \in 1..Len(t) : t[i] = q[i + 1]
      /\ DOMAIN t = 1..Len(t) /\ DOMAIN q = 1..Len(q)
      /\ Len(t) \in Nat
  BY <1>1, SoundFields, HeadTailProperties, LenProperties
<1>3. /\ d \in PhoneState
      /\ d.conn = ph.conn /\ d.sock = ph.sock /\ d.sess = ph.sess
      /\ d.reauth = ph.reauth /\ d.inflight = 0
      /\ d.localSeq = ph.localSeq
      /\ d.queue = t /\ d.submitted = ph.submitted
  BY <1>1, <1>2, Zeroes DEF Delivered, PhoneState
<1> HIDE DEF d, t
<1>4. IsUnconfirmedTail(d)
  <2> SUFFICES ASSUME NEW i \in 1..Len(t)
               PROVE  t[i] = ph.submitted - Len(t) + i
    BY <1>2, <1>3 DEF IsUnconfirmedTail
  <2>1. i + 1 \in 1..Len(q) /\ t[i] = q[i + 1]
    BY <1>2, SoundFields
  <2>2. q[i + 1] = ph.submitted - Len(q) + (i + 1)
    BY <1>2, <2>1 DEF Sound, IsUnconfirmedTail
  <2>3. /\ Len(t) \in Nat /\ Len(q) \in Nat /\ Len(t) = Len(q) - 1
        /\ ph.submitted \in Nat
    BY <1>2, SoundFields
  <2>4. ph.submitted - Len(q) + (i + 1) = ph.submitted - Len(t) + i
    BY <2>3
  <2> QED
    BY <2>1, <2>2, <2>4
<1>5. /\ Len(d.queue) <= d.submitted
      /\ d.localSeq + Len(d.queue) <= d.submitted
  BY <1>2, <1>3, SoundFields DEF Sound
<1>6. Sound(d)
  BY <1>1, <1>3, <1>4, <1>5, SoundFields DEF Sound, OnlyHeadInFlight, Authed
<1> QED
  BY <1>1, <1>3, <1>6 DEF d, t, q

LEMMA SoundAppended ==
  ASSUME NEW ph, Sound(ph), ph.submitted < MaxOps
  PROVE  LET n == ph.submitted + 1
         IN Sound([ph EXCEPT !.submitted = n, !.queue = Append(@, n)])
<1> DEFINE n == ph.submitted + 1
           q == ph.queue
           a == Append(q, n)
           r == [ph EXCEPT !.submitted = n, !.queue = Append(@, n)]
<1>1. n \in 1..MaxOps /\ n \in 0..MaxOps
  BY SoundFields, BoundsAssumption
<1>2. /\ a \in Seq(1..MaxOps) /\ Len(a) = Len(q) + 1
      /\ \A i \in 1..Len(q) : a[i] = q[i]
      /\ a[Len(q) + 1] = n
      /\ DOMAIN a = 1..Len(a) /\ DOMAIN q = 1..Len(q)
      /\ a # <<>> /\ (q # <<>> => Head(a) = Head(q))
  BY <1>1, SoundFields, AppendProperties, LenProperties, EmptySeq
<1> HIDE DEF a
<1>3. r = [ph EXCEPT !.submitted = n, !.queue = a]
  BY DEF a, Sound, PhoneState
<1> HIDE DEF n
<1>4. /\ r \in PhoneState
      /\ r.conn = ph.conn /\ r.sock = ph.sock /\ r.sess = ph.sess
      /\ r.reauth = ph.reauth /\ r.inflight = ph.inflight
      /\ r.inflightSeq = ph.inflightSeq /\ r.localSeq = ph.localSeq
      /\ r.queue = a /\ r.submitted = n
  BY <1>1, <1>2, <1>3 DEF Sound, PhoneState
<1> HIDE DEF r
<1>5. IsUnconfirmedTail(r)
  <2> SUFFICES ASSUME NEW i \in 1..Len(q) + 1
               PROVE  a[i] = n - (Len(q) + 1) + i
    BY <1>2, <1>4 DEF IsUnconfirmedTail
  <2>1. CASE i \in 1..Len(q)
    <3>1. q[i] = ph.submitted - Len(q) + i
      BY <1>2, <2>1 DEF Sound, IsUnconfirmedTail
    <3> QED
      BY <1>2, <2>1, <3>1, SoundFields DEF n
  <2>2. CASE i = Len(q) + 1
    BY <1>2, <2>2, SoundFields DEF n
  <2> QED
    BY <2>1, <2>2, SoundFields
<1>6. /\ Len(r.queue) <= r.submitted
      /\ r.localSeq + Len(r.queue) <=
           r.submitted + (IF r.inflight = 0 THEN 0 ELSE 1)
  BY <1>2, <1>4, SoundFields DEF Sound, n
<1>7. OnlyHeadInFlight(r)
  BY <1>2, <1>4 DEF Sound, OnlyHeadInFlight, Authed
<1>8. Sound(r)
  BY <1>4, <1>5, <1>6, <1>7 DEF Sound, Authed
<1> QED
  BY <1>8 DEF n, r

LEMMA SoundAuthorized ==
  ASSUME NEW ph, Sound(ph), ph.conn = "open",
         NEW s \in SessionIds, NEW mode \in Modes
  PROVE  Sound([ph EXCEPT !.sess = s, !.reauth = FALSE, !.mode = mode])
<1> DEFINE r == [ph EXCEPT !.sess = s, !.reauth = FALSE, !.mode = mode]
<1>1. s \in 0..MaxSession /\ s # NoSid
  BY BoundsAssumption DEF SessionIds, NoSid
<1>2. /\ r \in PhoneState
      /\ r.conn = ph.conn /\ r.sock = ph.sock /\ r.sess = s
      /\ ~r.reauth /\ r.inflight = ph.inflight
      /\ r.inflightSeq = ph.inflightSeq /\ r.localSeq = ph.localSeq
      /\ r.queue = ph.queue /\ r.submitted = ph.submitted
  BY <1>1 DEF Sound, PhoneState
<1> HIDE DEF r
<1>3. Sound(r)
  BY <1>1, <1>2 DEF Sound, IsUnconfirmedTail, OnlyHeadInFlight, Authed
<1> QED
  BY <1>3 DEF r

LEMMA SoundConnecting ==
  ASSUME NEW ph, Sound(ph), ph.conn = "idle", NEW k \in Conns
  PROVE  Sound([ph EXCEPT !.conn = "connecting", !.sock = k])
<1> DEFINE r == [ph EXCEPT !.conn = "connecting", !.sock = k]
<1>1. k \in 0..MaxConn /\ k # 0
  BY BoundsAssumption DEF Conns
<1>2. /\ r \in PhoneState
      /\ r.conn = "connecting" /\ r.sock = k /\ r.sess = ph.sess
      /\ r.reauth = ph.reauth /\ r.inflight = ph.inflight
      /\ r.inflightSeq = ph.inflightSeq /\ r.localSeq = ph.localSeq
      /\ r.queue = ph.queue /\ r.submitted = ph.submitted
  BY <1>1 DEF Sound, PhoneState, Conn
<1> HIDE DEF r
<1>3. Sound(r)
  BY <1>1, <1>2 DEF Sound, IsUnconfirmedTail, OnlyHeadInFlight, Authed
<1> QED
  BY <1>3 DEF r

LEMMA SoundOpened ==
  ASSUME NEW ph, Sound(ph), ph.conn = "connecting"
  PROVE  Sound([ph EXCEPT !.conn = "open"])
<1> DEFINE r == [ph EXCEPT !.conn = "open"]
<1>1. /\ r \in PhoneState
      /\ r.conn = "open" /\ r.sock = ph.sock /\ r.sess = ph.sess
      /\ r.reauth = ph.reauth /\ r.inflight = ph.inflight
      /\ r.inflightSeq = ph.inflightSeq /\ r.localSeq = ph.localSeq
      /\ r.queue = ph.queue /\ r.submitted = ph.submitted
  BY DEF Sound, PhoneState, Conn
<1> HIDE DEF r
<1>2. Sound(r)
  BY <1>1 DEF Sound, IsUnconfirmedTail, OnlyHeadInFlight, Authed
<1> QED
  BY <1>2 DEF r

\* An error during reauthentication finds nothing in flight.
LEMMA SoundErrorAgain ==
  ASSUME NEW ph, Sound(ph), ph.reauth
  PROVE  Sound([ph EXCEPT !.inflight = 0, !.inflightSeq = 0])
<1> DEFINE r == [ph EXCEPT !.inflight = 0, !.inflightSeq = 0]
<1>1. /\ r \in PhoneState
      /\ r.conn = ph.conn /\ r.sock = ph.sock /\ r.sess = ph.sess
      /\ r.reauth = ph.reauth /\ r.inflight = 0
      /\ r.localSeq = ph.localSeq
      /\ r.queue = ph.queue /\ r.submitted = ph.submitted
  BY Zeroes DEF Sound, PhoneState
<1>2. ph.inflight = 0
  BY DEF Sound, OnlyHeadInFlight
<1> HIDE DEF r
<1>3. Sound(r)
  BY <1>1, <1>2 DEF Sound, IsUnconfirmedTail, OnlyHeadInFlight, Authed
<1> QED
  BY <1>3 DEF r

-----------------------------------------------------------------------------
(* The steps.  A step leaves the queue of p alone, appends to it, or       *)
(* removes its head for a matching ACK; and it adds nothing to what the    *)
(* host has sent.                                                          *)

Kept(p) ==
  phone'[p].queue = phone[p].queue /\ phone'[p].submitted = phone[p].submitted

Appended(p) ==
  LET n == phone[p].submitted + 1
  IN phone'[p].submitted = n /\ phone'[p].queue = Append(phone[p].queue, n)

Removed(p) ==
  /\ Hears(p, "ack") /\ MatchesInflight(p, Heard(p))
  /\ phone[p].queue # <<>> /\ Head(phone[p].queue) = phone[p].inflight
  /\ phone'[p].queue = Tail(phone[p].queue)
  /\ phone'[p].submitted = phone[p].submitted

LinesTyped ==
  /\ link \in [Conns -> LinkState]
  /\ toHost \in [Conns -> Seq(HostMsg)]
  /\ toPhone \in [Conns -> Seq(PhoneMsg)]

OnlyRead(inbox) ==
  \A k \in Conns : \/ inbox[k] = toPhone[k]
                   \/ inbox[k] = <<>>
                   \/ toPhone[k] # <<>> /\ inbox[k] = Tail(toPhone[k])

\* p's record becomes a sound one, with the queue of ph.
Moves(p, ph) ==
  \E r : /\ Become(p, r) /\ Sound(r)
         /\ r.queue = ph.queue /\ r.submitted = ph.submitted

LEMMA MovesInv ==
  ASSUME PhoneInv, NEW p \in Clients, NEW ph, Moves(p, ph)
  PROVE  /\ PhoneInv'
         /\ phone'[p].queue = ph.queue /\ phone'[p].submitted = ph.submitted
         /\ \A q \in Clients \ {p} : phone'[q] = phone[q]
<1>1. PICK r : /\ Become(p, r) /\ Sound(r)
               /\ r.queue = ph.queue /\ r.submitted = ph.submitted
  BY DEF Moves
<1>2. /\ phone' = [phone EXCEPT ![p] = r]
      /\ phone \in [Clients -> PhoneState] /\ r \in PhoneState
  BY <1>1 DEF Become, PhoneInv, Sound
<1>3. \A q \in Clients : Sound(phone'[q])
  BY <1>1, <1>2 DEF PhoneInv
<1> QED
  BY <1>1, <1>2, <1>3 DEF PhoneInv

LEMMA SpendTyped ==
  ASSUME faults \in [FaultKinds -> Nat], NEW kind \in FaultKinds, Spend(kind)
  PROVE  faults' \in [FaultKinds -> Nat]
BY DEF Spend

LEMMA HangUpTyped ==
  ASSUME LinesTyped, NEW k, HangUp(k)
  PROVE  LinesTyped' /\ OnlyRead(toPhone')
<1>1. toPhone' \in [Conns -> Seq(PhoneMsg)]
  BY EmptySeq DEF LinesTyped, HangUp
<1>2. link' \in [Conns -> LinkState]
  BY DEF LinesTyped, HangUp, LinkState
<1>3. \A j \in Conns : toPhone'[j] = IF j = k THEN <<>> ELSE toPhone[j]
  BY DEF LinesTyped, HangUp
<1> QED
  BY <1>1, <1>2, <1>3 DEF LinesTyped, HangUp, OnlyRead

LEMMA TransmitTyped ==
  ASSUME LinesTyped, NEW k \in Conns, NEW m \in HostMsg, Transmit(k, m)
  PROVE  link' \in [Conns -> LinkState] /\ toHost' \in [Conns -> Seq(HostMsg)]
<1>1. Append(toHost[k], m) \in Seq(HostMsg)
  BY AppendProperties DEF LinesTyped
<1> QED
  BY <1>1 DEF LinesTyped, Transmit, LinkState

LEMMA RestartMoves ==
  ASSUME LinesTyped, NEW p \in Clients, NEW ph, Sound(ph), Restart(p, ph)
  PROVE  Moves(p, ph) /\ LinesTyped' /\ OnlyRead(toPhone')
<1>1. PICK way \in Ways :
        Become(p, Retrying([ph EXCEPT !.redial = @ \ {"timer"}], way))
  BY DEF Restart
<1> DEFINE t == [ph EXCEPT !.redial = @ \ {"timer"}]
           r == Retrying(t, way)
<1>2. /\ t \in PhoneState
      /\ t.conn = ph.conn /\ t.sock = ph.sock /\ t.sess = ph.sess
      /\ t.reauth = ph.reauth /\ t.inflight = ph.inflight
      /\ t.inflightSeq = ph.inflightSeq /\ t.localSeq = ph.localSeq
      /\ t.queue = ph.queue /\ t.submitted = ph.submitted
  BY DEF Sound, PhoneState
<1> HIDE DEF t
<1>3. Sound(t)
  BY <1>2, SoundSameFields
<1>4. way \in Redials
  BY WaysAssumption DEF Redials
<1>5. Sound(r)
  BY <1>3, <1>4, SoundRetrying
<1>6. r.queue = ph.queue /\ r.submitted = ph.submitted
  BY <1>2, <1>3 DEF Retrying, Disconnected, Sound, PhoneState
<1>7. Moves(p, ph)
  BY <1>1, <1>5, <1>6 DEF Moves, t
<1> QED
  BY <1>7, HangUpTyped DEF Restart

LEMMA MessagesTyped ==
  /\ \A c \in Clients : Hello(c) \in HostMsg
  /\ \A mode \in Modes : Auth(mode) \in HostMsg
  /\ \A sid \in SessionIds : Ping(sid) \in HostMsg
BY DEF Hello, Auth, Ping, HostMsg

LEMMA HeadMsgTyped ==
  ASSUME NEW p \in Clients, NEW ph, Sound(ph), Drains(ph)
  PROVE  HeadMsg(p, ph) \in HostMsg
<1> DEFINE h == Head(ph.queue)
           n == ph.localSeq + 1
<1>1. /\ h \in 1..MaxOps /\ ph.sess \in SessionIds
      /\ n \in 0..MaxOps + 1 /\ ph.mode \in Modes
  BY SoundDrained, BoundsAssumption DEF Sound, PhoneState
<1>2. <<p, h>> \in OpId
  BY <1>1 DEF OpId
<1>3. HeadMsg(p, ph) = [type |-> "text_insert", sid |-> ph.sess, seq |-> n,
                        op |-> <<p, h>>, text |-> <<p, h>>, mode |-> ph.mode]
  BY DEF HeadMsg, TextInsert
<1> HIDE DEF h, n
<1> QED
  BY <1>1, <1>2, <1>3 DEF HostMsg, Texts

LEMMA SockInUse ==
  ASSUME NEW ph, Sound(ph), ph.conn # "idle"
  PROVE  ph.sock \in Conns
BY BoundsAssumption DEF Sound, PhoneState, Conns

LEMMA InboxTyped ==
  ASSUME LinesTyped, PhoneInv, NEW p \in Clients, NEW type, Hears(p, type)
  PROVE  /\ phone[p].sock \in Conns
         /\ Heard(p) \in PhoneMsg
         /\ Inbox(p) \in [Conns -> Seq(PhoneMsg)]
         /\ OnlyRead(Inbox(p))
<1> DEFINE k == phone[p].sock
<1>1. k \in Conns
  BY SockInUse DEF PhoneInv, Hears
<1>2. toPhone[k] \in Seq(PhoneMsg) /\ toPhone[k] # <<>>
  BY <1>1 DEF LinesTyped, Hears
<1>3. Head(toPhone[k]) \in PhoneMsg /\ Tail(toPhone[k]) \in Seq(PhoneMsg)
  BY <1>2, HeadTailProperties
<1> QED
  BY <1>1, <1>2, <1>3 DEF LinesTyped, Inbox, Heard, OnlyRead

LEMMA SendOrRestartMoves ==
  ASSUME LinesTyped, NEW p \in Clients, NEW ph, Sound(ph), ph.sock \in Conns,
         NEW m \in HostMsg,
         NEW inbox \in [Conns -> Seq(PhoneMsg)], OnlyRead(inbox),
         SendOrRestart(p, ph, m, inbox)
  PROVE  Moves(p, ph) /\ LinesTyped' /\ OnlyRead(toPhone')
<1>1. CASE Become(p, ph) /\ Transmit(ph.sock, m) /\ toPhone' = inbox
  <2>1. Moves(p, ph)
    BY <1>1 DEF Moves
  <2> QED
    BY <1>1, <2>1, TransmitTyped DEF LinesTyped
<1>2. CASE Restart(p, ph)
  BY <1>2, RestartMoves
<1> QED
  BY <1>1, <1>2 DEF SendOrRestart

LEMMA ThenDrainMoves ==
  ASSUME LinesTyped, NEW p \in Clients, NEW ph, Sound(ph),
         NEW inbox \in [Conns -> Seq(PhoneMsg)], OnlyRead(inbox),
         ThenDrain(p, ph, inbox)
  PROVE  Moves(p, ph) /\ LinesTyped' /\ OnlyRead(toPhone')
<1>1. CASE Become(p, ph) /\ toPhone' = inbox /\ UNCHANGED <<link, toHost>>
  BY <1>1 DEF Moves, LinesTyped
<1>2. CASE Drains(ph) /\ SendOrRestart(p, Drained(ph), HeadMsg(p, ph), inbox)
  <2>1. /\ Drained(ph).sock = ph.sock /\ Drained(ph).queue = ph.queue
        /\ Drained(ph).submitted = ph.submitted
    BY DEF Drained, Sound, PhoneState
  <2>2. ph.sock \in Conns
    BY <1>2, SockInUse DEF Drains
  <2>3. Moves(p, Drained(ph)) /\ LinesTyped' /\ OnlyRead(toPhone')
    BY <1>2, <2>1, <2>2, SoundDrained, HeadMsgTyped, SendOrRestartMoves
  <2> QED
    BY <2>1, <2>3 DEF Moves
<1> QED
  BY <1>1, <1>2 DEF ThenDrain

\* A record that differs from ph in fields the invariant does not look at.
LEMMA SameFieldsMoves ==
  ASSUME NEW p \in Clients, NEW ph, Sound(ph), NEW r \in PhoneState, Become(p, r),
         r.conn = ph.conn, r.sock = ph.sock, r.sess = ph.sess,
         r.reauth = ph.reauth, r.inflight = ph.inflight,
         r.inflightSeq = ph.inflightSeq, r.localSeq = ph.localSeq,
         r.queue = ph.queue, r.submitted = ph.submitted
  PROVE  Moves(p, ph)
BY SoundSameFields DEF Moves

LEMMA DialMoves ==
  ASSUME LinesTyped, NEW p \in Clients, NEW ph, Sound(ph), ph.conn = "idle",
         Connect(p, ph), UNCHANGED <<toHost, toPhone>>
  PROVE  Moves(p, ph) /\ LinesTyped' /\ OnlyRead(toPhone')
<1>1. CASE Dial(p, ph)
  <2>1. PICK k \in Conns :
          /\ Become(p, [ph EXCEPT !.conn = "connecting", !.sock = k])
          /\ link' = [link EXCEPT ![k] = "dialing"]
    BY <1>1 DEF Dial
  <2>2. Moves(p, ph)
    <3>1. Sound([ph EXCEPT !.conn = "connecting", !.sock = k])
      BY SoundConnecting
    <3>2. /\ [ph EXCEPT !.conn = "connecting", !.sock = k].queue = ph.queue
          /\ [ph EXCEPT !.conn = "connecting", !.sock = k].submitted = ph.submitted
      BY DEF Sound, PhoneState
    <3> QED
      BY <2>1, <3>1, <3>2 DEF Moves
  <2> QED
    BY <2>1, <2>2 DEF LinesTyped, LinkState, OnlyRead
<1>2. CASE /\ Become(p, [ph EXCEPT !.redial = @ \cup {"posted"},
                                   !.graceUsed = TRUE])
           /\ UNCHANGED link
  <2> DEFINE r == [ph EXCEPT !.redial = @ \cup {"posted"}, !.graceUsed = TRUE]
  <2>1. /\ r \in PhoneState
        /\ r.conn = ph.conn /\ r.sock = ph.sock /\ r.sess = ph.sess
        /\ r.reauth = ph.reauth /\ r.inflight = ph.inflight
        /\ r.inflightSeq = ph.inflightSeq /\ r.localSeq = ph.localSeq
        /\ r.queue = ph.queue /\ r.submitted = ph.submitted
    BY DEF Sound, PhoneState, Redials
  <2> HIDE DEF r
  <2>2. Moves(p, ph)
    BY <1>2, <2>1, SameFieldsMoves DEF r
  <2> QED
    BY <1>2, <2>2 DEF LinesTyped, OnlyRead
<1> QED
  BY <1>1, <1>2 DEF Connect

\* The actions of the user, the timers and the transport.
LEMMA ActionMoves ==
  ASSUME PhoneInv, LinesTyped, NEW p \in Clients,
         \/ PickMode(p) \/ TapConnect(p) \/ TapDisconnect(p) \/ Kill(p)
         \/ Redial(p) \/ OnOpen(p) \/ OnFailure(p) \/ SwitchRoute(p)
         \/ RouteFound(p) \/ OnResume(p) \/ Heartbeat(p) \/ AckTimeout(p)
  PROVE  Moves(p, phone[p]) /\ LinesTyped' /\ OnlyRead(toPhone')
<1> DEFINE ph == phone[p]
<1>0. ph \in PhoneState /\ Sound(ph)
  BY DEF PhoneInv
<1> HIDE DEF ph
<1>1. CASE PickMode(p)
  <2>1. PICK mode \in Modes : Become(p, [ph EXCEPT !.mode = mode])
    BY <1>1 DEF PickMode, ph
  <2> DEFINE r == [ph EXCEPT !.mode = mode]
  <2>2. /\ r \in PhoneState
        /\ r.conn = ph.conn /\ r.sock = ph.sock /\ r.sess = ph.sess
        /\ r.reauth = ph.reauth /\ r.inflight = ph.inflight
        /\ r.inflightSeq = ph.inflightSeq /\ r.localSeq = ph.localSeq
        /\ r.queue = ph.queue /\ r.submitted = ph.submitted
    BY <1>0 DEF PhoneState
  <2> HIDE DEF r
  <2>3. Moves(p, ph)
    BY <1>0, <2>1, <2>2, SameFieldsMoves DEF r
  <2> QED
    BY <1>1, <2>3 DEF PickMode, wireVars, LinesTyped, OnlyRead, ph
<1>2. CASE TapConnect(p)
  <2> DEFINE r == [ph EXCEPT !.should = TRUE, !.graceUsed = FALSE]
  <2>1. /\ r \in PhoneState
        /\ r.conn = ph.conn /\ r.sock = ph.sock /\ r.sess = ph.sess
        /\ r.reauth = ph.reauth /\ r.inflight = ph.inflight
        /\ r.inflightSeq = ph.inflightSeq /\ r.localSeq = ph.localSeq
        /\ r.queue = ph.queue /\ r.submitted = ph.submitted
    BY <1>0 DEF PhoneState
  <2>2. /\ \/ r.conn = "idle" /\ Connect(p, r)
           \/ Become(p, r) /\ UNCHANGED link
        /\ UNCHANGED <<toHost, toPhone>>
    BY <1>2 DEF TapConnect, ph
  <2> HIDE DEF r
  <2>3. Sound(r)
    BY <1>0, <2>1, SoundSameFields
  <2>4. Moves(p, r) /\ LinesTyped' /\ OnlyRead(toPhone')
    <3>1. CASE r.conn = "idle" /\ Connect(p, r)
      BY <2>2, <2>3, <3>1, DialMoves
    <3>2. CASE Become(p, r) /\ UNCHANGED link
      BY <2>2, <2>3, <3>2 DEF Moves, LinesTyped, OnlyRead
    <3> QED
      BY <2>2, <3>1, <3>2
  <2> QED
    BY <2>1, <2>4 DEF Moves, ph
<1>3. CASE TapDisconnect(p) \/ Kill(p)
  <2>1. PICK redial \in SUBSET Redials :
          Become(p, [Disconnected(ph) EXCEPT
                       !.should = FALSE, !.graceUsed = FALSE, !.redial = redial])
    <3>1. Disconnected(ph).redial = ph.redial /\ ph.redial \in SUBSET Redials
      BY <1>0 DEF Disconnected, PhoneState
    <3>2. CASE TapDisconnect(p)
      <4>1. Become(p, [Disconnected(ph) EXCEPT
              !.should = FALSE, !.graceUsed = FALSE, !.redial = ph.redial \ {"timer"}])
        BY <3>1, <3>2 DEF TapDisconnect, ph
      <4> QED
        BY <3>1, <4>1
    <3>3. CASE Kill(p)
      BY <3>3 DEF Kill, ph
    <3> QED
      BY <1>3, <3>2, <3>3
  <2> DEFINE d == Disconnected(ph)
             r == [d EXCEPT !.should = FALSE, !.graceUsed = FALSE,
                            !.redial = redial]
  <2>2. Sound(d) /\ d.queue = ph.queue /\ d.submitted = ph.submitted
    BY <1>0, SoundDisconnected DEF Disconnected, PhoneState
  <2> HIDE DEF d
  <2>3. /\ r \in PhoneState
        /\ r.conn = d.conn /\ r.sock = d.sock /\ r.sess = d.sess
        /\ r.reauth = d.reauth /\ r.inflight = d.inflight
        /\ r.inflightSeq = d.inflightSeq /\ r.localSeq = d.localSeq
        /\ r.queue = d.queue /\ r.submitted = d.submitted
    BY <2>2 DEF Sound, PhoneState
  <2> HIDE DEF r
  <2>4. Moves(p, ph)
    <3>1. Become(p, r)
      BY <2>1 DEF r, d
    <3>2. Moves(p, d)
      BY <2>2, <2>3, <3>1, SameFieldsMoves
    <3> QED
      BY <2>2, <3>2 DEF Moves
  <2>5. LinesTyped' /\ OnlyRead(toPhone')
    <3>1. CASE HangUp(phone[p].sock)
      BY <3>1, HangUpTyped
    <3>2. CASE UNCHANGED wireVars
      BY <3>2 DEF wireVars, LinesTyped, OnlyRead
    <3> QED
      BY <1>3, <3>1, <3>2 DEF TapDisconnect, Kill
  <2> QED
    BY <2>4, <2>5 DEF ph
<1>4. CASE Redial(p)
  <2>1. PICK way \in ph.redial :
          LET t == [ph EXCEPT !.redial = @ \ {way}]
          IN /\ \/ t.conn = "idle" /\ Connect(p, t)
                \/ Become(p, t) /\ UNCHANGED link
             /\ UNCHANGED <<toHost, toPhone>>
    BY <1>4 DEF Redial, ph
  <2> DEFINE t == [ph EXCEPT !.redial = @ \ {way}]
  <2>2. /\ t \in PhoneState
        /\ t.conn = ph.conn /\ t.sock = ph.sock /\ t.sess = ph.sess
        /\ t.reauth = ph.reauth /\ t.inflight = ph.inflight
        /\ t.inflightSeq = ph.inflightSeq /\ t.localSeq = ph.localSeq
        /\ t.queue = ph.queue /\ t.submitted = ph.submitted
    BY <1>0 DEF PhoneState
  <2> HIDE DEF t
  <2>3. Sound(t)
    BY <1>0, <2>2, SoundSameFields
  <2>4. Moves(p, t) /\ LinesTyped' /\ OnlyRead(toPhone')
    <3>1. CASE t.conn = "idle" /\ Connect(p, t)
      BY <2>1, <2>3, <3>1, DialMoves DEF t
    <3>2. CASE Become(p, t) /\ UNCHANGED link
      BY <2>1, <2>3, <3>2 DEF Moves, LinesTyped, OnlyRead
    <3> QED
      BY <2>1, <3>1, <3>2 DEF t
  <2> QED
    BY <2>2, <2>4 DEF Moves, ph
<1>5. CASE OnOpen(p)
  <2> DEFINE r == [ph EXCEPT !.conn = "open"]
  <2>1. Sound(r) /\ r.queue = ph.queue /\ r.submitted = ph.submitted
    BY <1>0, <1>5, SoundOpened DEF OnOpen, ph, PhoneState
  <2>2. Moves(p, ph)
    BY <1>5, <2>1 DEF OnOpen, ph, Moves
  <2>3. ph.sock \in Conns
    BY <1>0, <1>5, SockInUse DEF OnOpen, ph
  <2>4. Append(toHost[ph.sock], Hello(p)) \in Seq(HostMsg)
    BY <2>3, MessagesTyped, AppendProperties DEF LinesTyped
  <2> QED
    BY <1>5, <2>2, <2>3, <2>4 DEF OnOpen, LinesTyped, LinkState, OnlyRead, ph
<1>6. CASE OnFailure(p)
  <2>1. PICK way \in Ways : Become(p, Retrying(ph, way))
    BY <1>6 DEF OnFailure, ph
  <2>2. Sound(Retrying(ph, way))
    BY <1>0, SoundRetrying, WaysAssumption DEF Redials
  <2>3. /\ Retrying(ph, way).queue = ph.queue
        /\ Retrying(ph, way).submitted = ph.submitted
    BY <1>0 DEF Retrying, Disconnected, PhoneState
  <2>4. Moves(p, ph)
    BY <2>1, <2>2, <2>3 DEF Moves
  <2> QED
    BY <1>6, <2>4, HangUpTyped DEF OnFailure, ph
<1>7. CASE SwitchRoute(p)
  <2> DEFINE t == [ph EXCEPT !.redial = @ \ {"timer"}]
             r == Retrying(t, "posted")
  <2>1. /\ t \in PhoneState
        /\ t.conn = ph.conn /\ t.sock = ph.sock /\ t.sess = ph.sess
        /\ t.reauth = ph.reauth /\ t.inflight = ph.inflight
        /\ t.inflightSeq = ph.inflightSeq /\ t.localSeq = ph.localSeq
        /\ t.queue = ph.queue /\ t.submitted = ph.submitted
    BY <1>0 DEF PhoneState
  <2>2. Become(p, r)
    BY <1>7 DEF SwitchRoute, ph
  <2> HIDE DEF t
  <2>3. Sound(t)
    BY <1>0, <2>1, SoundSameFields
  <2>4. Sound(r) /\ r.queue = ph.queue /\ r.submitted = ph.submitted
    BY <2>1, <2>3, SoundRetrying
       DEF Redials, Retrying, Disconnected, PhoneState
  <2>5. Moves(p, ph)
    BY <2>2, <2>4 DEF Moves
  <2> QED
    BY <1>7, <2>5, HangUpTyped DEF SwitchRoute, ph
<1>8. CASE RouteFound(p)
  BY <1>0, <1>8, DialMoves DEF RouteFound, Connect, ph
<1>9. CASE OnResume(p)
  <2> DEFINE r == [ph EXCEPT !.redial = @ \cup {"timer"}]
  <2>1. /\ r \in PhoneState
        /\ r.conn = ph.conn /\ r.sock = ph.sock /\ r.sess = ph.sess
        /\ r.reauth = ph.reauth /\ r.inflight = ph.inflight
        /\ r.inflightSeq = ph.inflightSeq /\ r.localSeq = ph.localSeq
        /\ r.queue = ph.queue /\ r.submitted = ph.submitted
    BY <1>0 DEF PhoneState, Redials
  <2>2. Become(p, r)
    BY <1>9 DEF OnResume, ph
  <2> HIDE DEF r
  <2>3. Moves(p, ph)
    BY <1>0, <2>1, <2>2, SameFieldsMoves
  <2> QED
    BY <1>9, <2>3 DEF OnResume, wireVars, LinesTyped, OnlyRead, ph
<1>10. CASE Heartbeat(p)
  <2>1. /\ ph.sock \in Conns /\ Ping(ph.sess) \in HostMsg
        /\ toPhone \in [Conns -> Seq(PhoneMsg)] /\ OnlyRead(toPhone)
    <3>1. ph.sess \in SessionIds
      BY <1>0, <1>10, BoundsAssumption
         DEF Heartbeat, Authed, PhoneState, SessionIds, NoSid, ph
    <3> QED
      BY <1>0, <1>10, <3>1, SockInUse, MessagesTyped
         DEF Heartbeat, LinesTyped, OnlyRead, ph
  <2> QED
    BY <1>0, <1>10, <2>1, SendOrRestartMoves DEF Heartbeat, ph
<1>11. CASE AckTimeout(p)
  BY <1>0, <1>11, RestartMoves DEF AckTimeout, ph
<1> QED
  BY <1>1, <1>2, <1>3, <1>4, <1>5, <1>6, <1>7, <1>8, <1>9, <1>10, <1>11

\* The handlers of the host's messages.
LEMMA HearingMoves ==
  ASSUME PhoneInv, LinesTyped, NEW p \in Clients, Hearing(p)
  PROVE  /\ LinesTyped' /\ OnlyRead(toPhone')
         /\ \/ Moves(p, phone[p])
            \/ /\ Hears(p, "ack") /\ MatchesInflight(p, Heard(p))
               /\ phone[p].queue # <<>>
               /\ Head(phone[p].queue) = phone[p].inflight
               /\ Moves(p, Delivered(phone[p]))
               /\ Delivered(phone[p]).queue = Tail(phone[p].queue)
               /\ Delivered(phone[p]).submitted = phone[p].submitted
<1> DEFINE ph == phone[p]
<1>0. ph \in PhoneState /\ Sound(ph)
  BY DEF PhoneInv
<1> HIDE DEF ph
<1>1. CASE HandleHelloOk(p)
  <2>1. Auth(ph.mode) \in HostMsg
    BY <1>0, MessagesTyped DEF PhoneState
  <2> QED
    BY <1>0, <1>1, <2>1, InboxTyped, SendOrRestartMoves DEF HandleHelloOk, ph
<1>2. CASE HandleAuthOk(p)
  <2> DEFINE m == Heard(p)
             r == [ph EXCEPT !.sess = m.sid, !.reauth = FALSE, !.mode = m.mode]
  <2>1. m.sid \in SessionIds /\ m.mode \in Modes
    <3>1. m \in PhoneMsg /\ m.type = "auth_ok"
      BY <1>2, InboxTyped DEF HandleAuthOk, Hears, Heard
    <3> HIDE DEF m
    <3> QED
      BY <3>1 DEF PhoneMsg
  <2>2. ThenDrain(p, r, Inbox(p))
    BY <1>2 DEF HandleAuthOk, ph
  <2> HIDE DEF m
  <2>3. Sound(r) /\ r.queue = ph.queue /\ r.submitted = ph.submitted
    BY <1>0, <1>2, <2>1, SoundAuthorized DEF HandleAuthOk, Hears, ph, PhoneState
  <2> HIDE DEF r
  <2>4. Moves(p, r) /\ LinesTyped' /\ OnlyRead(toPhone')
    BY <1>2, <2>2, <2>3, InboxTyped, ThenDrainMoves DEF HandleAuthOk
  <2> QED
    BY <2>3, <2>4 DEF Moves, ph
<1>3. CASE HandleAck(p)
  <2>1. Hears(p, "ack") /\ MatchesInflight(p, Heard(p)) /\ ph.inflight # 0
    BY <1>3 DEF HandleAck, MatchesInflight, ph
  <2>2. /\ Sound(Delivered(ph)) /\ ph.queue # <<>>
        /\ Head(ph.queue) = ph.inflight
        /\ Delivered(ph).queue = Tail(ph.queue)
        /\ Delivered(ph).submitted = ph.submitted
    BY <1>0, <2>1, SoundDelivered
  <2>3. Moves(p, Delivered(ph)) /\ LinesTyped' /\ OnlyRead(toPhone')
    BY <1>3, <2>1, <2>2, InboxTyped, ThenDrainMoves DEF HandleAck, ph
  <2> QED
    BY <2>1, <2>2, <2>3 DEF ph
<1>4. CASE HandleAckMismatch(p)
  BY <1>0, <1>4, RestartMoves DEF HandleAckMismatch, ph
<1>5. CASE HandleIgnored(p)
  <2>1. Hears(p, "pong") \/ Hears(p, "ack")
    BY <1>5 DEF HandleIgnored
  <2>2. Inbox(p) \in [Conns -> Seq(PhoneMsg)] /\ OnlyRead(Inbox(p))
    BY <2>1, InboxTyped
  <2>3. Become(p, ph)
    BY <1>5 DEF HandleIgnored, Become, PhoneInv, ph
  <2>4. Moves(p, ph)
    BY <1>0, <2>3 DEF Moves
  <2> QED
    BY <1>5, <2>2, <2>4 DEF HandleIgnored, LinesTyped, ph
<1>6. CASE HandleSessionError(p)
  <2>1. CASE SendOrRestart(p, Recovering(ph), Hello(p), Inbox(p))
    <3>1. /\ Sound(Recovering(ph)) /\ Recovering(ph).sock = ph.sock
          /\ Recovering(ph).queue = ph.queue
          /\ Recovering(ph).submitted = ph.submitted
      BY <1>0, SoundRecovering DEF Recovering, PhoneState
    <3>2. ph.sock \in Conns
      BY <1>6, InboxTyped DEF HandleSessionError, ph
    <3>3. Moves(p, Recovering(ph)) /\ LinesTyped' /\ OnlyRead(toPhone')
      BY <1>6, <2>1, <3>1, <3>2, InboxTyped, MessagesTyped, SendOrRestartMoves
         DEF HandleSessionError
    <3> QED
      BY <3>1, <3>3 DEF Moves, ph
  <2>2. CASE /\ ph.reauth
             /\ Become(p, [ph EXCEPT !.inflight = 0, !.inflightSeq = 0])
             /\ toPhone' = Inbox(p)
             /\ UNCHANGED <<link, toHost>>
    <3> DEFINE r == [ph EXCEPT !.inflight = 0, !.inflightSeq = 0]
    <3>1. Sound(r) /\ r.queue = ph.queue /\ r.submitted = ph.submitted
      BY <1>0, <2>2, SoundErrorAgain DEF PhoneState
    <3>2. Moves(p, ph)
      BY <2>2, <3>1 DEF Moves
    <3>3. Inbox(p) \in [Conns -> Seq(PhoneMsg)] /\ OnlyRead(Inbox(p))
      BY <1>6, InboxTyped DEF HandleSessionError
    <3> QED
      BY <2>2, <3>2, <3>3 DEF LinesTyped, ph
  <2> QED
    BY <1>6, <2>1, <2>2 DEF HandleSessionError, ph
<1>7. CASE HandleOtherError(p)
  BY <1>0, <1>7, RestartMoves DEF HandleOtherError, ph
<1> QED
  BY <1>1, <1>2, <1>3, <1>4, <1>5, <1>6, <1>7 DEF Hearing

LEMMA FaultsTyped ==
  ASSUME faults \in [FaultKinds -> Nat], NEW p \in Clients, PhoneNext(p)
  PROVE  faults' \in [FaultKinds -> Nat]
<1>1. CASE UNCHANGED faults
  BY <1>1
<1>2. CASE \E kind \in FaultKinds : Spend(kind)
  BY <1>2, SpendTyped
<1>3. UNCHANGED faults \/ \E kind \in FaultKinds : Spend(kind)
  BY DEF PhoneNext, AppendText, PickMode, TapConnect, TapDisconnect, Kill,
         Redial, OnOpen, OnFailure, SwitchRoute, RouteFound, OnResume,
         Heartbeat, AckTimeout, Hearing, HandleHelloOk, HandleAuthOk, HandleAck,
         HandleAckMismatch, HandleIgnored, HandleSessionError,
         HandleOtherError, FaultKinds
<1> QED
  BY <1>1, <1>2, <1>3

\* What one step of a phone does.
LEMMA PhoneStepLemma ==
  ASSUME PhoneInv, WireTypeOK, NEW p \in Clients, PhoneNext(p)
  PROVE  /\ PhoneInv' /\ WireTypeOK' /\ OnlyRead(toPhone')
         /\ Kept(p) \/ Appended(p) \/ Removed(p)
         /\ \A q \in Clients \ {p} : phone'[q] = phone[q]
<1>1. LinesTyped /\ faults' \in [FaultKinds -> Nat]
  BY FaultsTyped DEF LinesTyped, WireTypeOK
<1>2. CASE AppendText(p)
  <2> DEFINE n == phone[p].submitted + 1
             r == [phone[p] EXCEPT !.submitted = n, !.queue = Append(@, n)]
  <2>1. Sound(phone[p]) /\ phone[p] \in PhoneState
    BY DEF PhoneInv
  <2>2. /\ Sound(r) /\ r.submitted = n /\ r.queue = Append(phone[p].queue, n)
        /\ ThenDrain(p, r, toPhone)
    BY <1>2, <2>1, SoundAppended DEF AppendText, PhoneState
  <2> HIDE DEF r
  <2>3. toPhone \in [Conns -> Seq(PhoneMsg)] /\ OnlyRead(toPhone)
    BY <1>1 DEF LinesTyped, OnlyRead
  <2>4. Moves(p, r) /\ LinesTyped' /\ OnlyRead(toPhone')
    BY <1>1, <2>2, <2>3, ThenDrainMoves
  <2> QED
    BY <1>1, <2>2, <2>4, MovesInv DEF Appended, LinesTyped, WireTypeOK
<1>3. CASE Hearing(p)
  <2>1. CASE Moves(p, phone[p])
    BY <1>1, <1>3, <2>1, HearingMoves, MovesInv DEF Kept, LinesTyped, WireTypeOK
  <2>2. CASE /\ Hears(p, "ack") /\ MatchesInflight(p, Heard(p))
             /\ phone[p].queue # <<>>
             /\ Head(phone[p].queue) = phone[p].inflight
             /\ Moves(p, Delivered(phone[p]))
             /\ Delivered(phone[p]).queue = Tail(phone[p].queue)
             /\ Delivered(phone[p]).submitted = phone[p].submitted
    BY <1>1, <1>3, <2>2, HearingMoves, MovesInv
       DEF Removed, LinesTyped, WireTypeOK
  <2> QED
    BY <1>1, <1>3, <2>1, <2>2, HearingMoves
<1>4. CASE ~AppendText(p) /\ ~Hearing(p)
  <2>1. Moves(p, phone[p]) /\ LinesTyped' /\ OnlyRead(toPhone')
    BY <1>1, <1>4, ActionMoves DEF PhoneNext
  <2> QED
    BY <1>1, <2>1, MovesInv DEF Kept, LinesTyped, WireTypeOK
<1> QED
  BY <1>2, <1>3, <1>4

\* The invariant holds at the start, and the network does not disturb it.
LEMMA PhoneInitLemma ==
  ASSUME PhoneInit
  PROVE  PhoneInv
<1> DEFINE r == [should |-> FALSE, conn |-> "idle", sock |-> 0, sess |-> NoSid,
                 reauth |-> FALSE, localSeq |-> 0, queue |-> <<>>,
                 inflight |-> 0, inflightSeq |-> 0, redial |-> {},
                 graceUsed |-> FALSE, submitted |-> 0, mode |-> DefaultMode]
<1>1. r \in PhoneState
  BY Zeroes, NoneAssumption, EmptySeq DEF PhoneState, NoSid, Conn
<1>2. Sound(r)
  BY <1>1, EmptySeq
     DEF Sound, IsUnconfirmedTail, OnlyHeadInFlight, Authed, NoSid
<1> QED
  BY <1>1, <1>2 DEF PhoneInit, PhoneInv

LEMMA WireInitLemma ==
  ASSUME WireInit
  PROVE  WireTypeOK
BY BudgetAssumption, EmptySeq DEF WireInit, WireTypeOK, LinkState

LEMMA WireStepLemma ==
  ASSUME WireTypeOK, WireNext
  PROVE  WireTypeOK' /\ UNCHANGED toPhone
<1>1. PICK k \in Conns : Refuse(k) \/ Reset(k) \/ Silence(k) \/ LoseTail(k)
  BY DEF WireNext
<1>2. CASE Refuse(k) \/ Reset(k) \/ Silence(k)
  <2>1. faults' \in [FaultKinds -> Nat]
    BY <1>2, SpendTyped DEF Refuse, Reset, Silence, FaultKinds, WireTypeOK
  <2> QED
    BY <1>2, <2>1 DEF Refuse, Reset, Silence, WireTypeOK, LinkState
<1>3. CASE LoseTail(k)
  BY <1>3, EmptySeq DEF LoseTail, WireTypeOK
<1> QED
  BY <1>1, <1>2, <1>3

-----------------------------------------------------------------------------
(* A phone is never left with nothing to wait for.                         *)

Ready(ph) ==
  /\ ~Drains(ph)
  /\ ph.should /\ ph.conn = "idle" => ph.redial # {}

AllReady == \A p \in Clients : Ready(phone[p])

\* p's record becomes one that waits for something.
Settles(p) == \E r : Become(p, r) /\ Ready(r)

LEMMA SettlesReady ==
  ASSUME PhoneInv, AllReady, NEW p \in Clients, Settles(p)
  PROVE  AllReady'
<1>1. PICK r : Become(p, r) /\ Ready(r)
  BY DEF Settles
<1>2. \A q \in Clients : phone'[q] = IF q = p THEN r ELSE phone[q]
  BY <1>1 DEF Become, PhoneInv
<1> QED
  BY <1>1, <1>2 DEF AllReady, Ready, Drains, Authed

\* Whoever gives a connection up schedules the next dial, if one is meant.
LEMMA RetryingReady ==
  ASSUME NEW ph \in PhoneState, NEW way
  PROVE  Ready(Retrying(ph, way))
<1> DEFINE r == Retrying(ph, way)
<1>1. /\ r.conn = "idle" /\ r.should = ph.should
      /\ r.redial = IF ph.should THEN ph.redial \cup {way} ELSE ph.redial
  BY DEF Retrying, Disconnected, PhoneState
<1> HIDE DEF r
<1>2. Ready(r)
  BY <1>1 DEF Ready, Drains
<1> QED
  BY <1>2 DEF r

LEMMA RestartSettles ==
  ASSUME NEW p \in Clients, NEW ph \in PhoneState, Restart(p, ph)
  PROVE  Settles(p)
<1>1. PICK way \in Ways :
        Become(p, Retrying([ph EXCEPT !.redial = @ \ {"timer"}], way))
  BY DEF Restart
<1>2. [ph EXCEPT !.redial = @ \ {"timer"}] \in PhoneState
  BY DEF PhoneState
<1> QED
  BY <1>1, <1>2, RetryingReady DEF Settles

LEMMA ConnectSettles ==
  ASSUME NEW p \in Clients, NEW ph \in PhoneState, ph.conn = "idle", Connect(p, ph)
  PROVE  Settles(p)
<1>1. CASE Dial(p, ph)
  <2>1. PICK k \in Conns :
          Become(p, [ph EXCEPT !.conn = "connecting", !.sock = k])
    BY <1>1 DEF Dial
  <2>2. Ready([ph EXCEPT !.conn = "connecting", !.sock = k])
    BY DEF Ready, Drains, PhoneState
  <2> QED
    BY <2>1, <2>2 DEF Settles
<1>2. CASE Become(p, [ph EXCEPT !.redial = @ \cup {"posted"}, !.graceUsed = TRUE])
  <2>1. Ready([ph EXCEPT !.redial = @ \cup {"posted"}, !.graceUsed = TRUE])
    BY DEF Ready, Drains, PhoneState
  <2> QED
    BY <1>2, <2>1 DEF Settles
<1> QED
  BY <1>1, <1>2 DEF Connect

LEMMA SendSettles ==
  ASSUME NEW p \in Clients, NEW ph \in PhoneState, Ready(ph), NEW m, NEW inbox,
         SendOrRestart(p, ph, m, inbox)
  PROVE  Settles(p)
BY RestartSettles DEF SendOrRestart, Settles

\* What drainDeliveryQueue leaves on an open connection.
LEMMA DrainSettles ==
  ASSUME NEW p \in Clients, NEW ph, Sound(ph), NEW inbox, ThenDrain(p, ph, inbox),
         ph.should /\ ph.conn = "idle" => ph.redial # {}
  PROVE  Settles(p)
<1>1. CASE ~Drains(ph) /\ Become(p, ph)
  BY <1>1 DEF Settles, Ready
<1>2. CASE Drains(ph) /\ SendOrRestart(p, Drained(ph), HeadMsg(p, ph), inbox)
  <2>1. Drained(ph) \in PhoneState
    BY <1>2, SoundDrained DEF Sound
  <2>2. Head(ph.queue) # 0 /\ ph.conn = "open"
    BY <1>2, SoundDrained DEF Drains
  <2>3. Ready(Drained(ph))
    BY <2>2 DEF Ready, Drains, Drained, Sound, PhoneState
  <2> QED
    BY <1>2, <2>1, <2>3, SendSettles
<1> QED
  BY <1>1, <1>2 DEF ThenDrain

LEMMA PhoneSettles ==
  ASSUME PhoneInv, LinesTyped, AllReady, NEW p \in Clients, PhoneNext(p)
  PROVE  Settles(p)
<1> DEFINE ph == phone[p]
<1>0. ph \in PhoneState /\ Sound(ph) /\ Ready(ph)
  BY DEF PhoneInv, AllReady
<1>1. CASE AppendText(p)
  <2> DEFINE n == ph.submitted + 1
             r == [ph EXCEPT !.submitted = n, !.queue = Append(@, n)]
  <2>1. /\ Sound(r) /\ ThenDrain(p, r, toPhone)
        /\ r.should = ph.should /\ r.conn = ph.conn /\ r.redial = ph.redial
    BY <1>0, <1>1, SoundAppended DEF AppendText, PhoneState
  <2> HIDE DEF r
  <2> QED
    BY <1>0, <2>1, DrainSettles DEF Ready
<1>2. CASE PickMode(p) \/ OnResume(p)
  <2>1. \A m : Ready([ph EXCEPT !.mode = m])
    BY <1>0 DEF Ready, Drains, Authed, PhoneState
  <2>2. Ready([ph EXCEPT !.redial = @ \cup {"timer"}])
    BY <1>0 DEF Ready, Drains, Authed, PhoneState
  <2> QED
    BY <1>2, <2>1, <2>2 DEF PickMode, OnResume, Settles
<1>3. CASE TapConnect(p)
  <2> DEFINE r == [ph EXCEPT !.should = TRUE, !.graceUsed = FALSE]
  <2>1. r \in PhoneState /\ r.conn = ph.conn
    BY <1>0 DEF PhoneState
  <2>2. /\ r.conn # "open"
        /\ \/ r.conn = "idle" /\ Connect(p, r)
           \/ r.conn # "idle" /\ Become(p, r)
    BY <1>3 DEF TapConnect
  <2> HIDE DEF r
  <2>3. r.conn # "idle" => Ready(r)
    BY <2>2 DEF Ready, Drains
  <2> QED
    BY <2>1, <2>2, <2>3, ConnectSettles DEF Settles
<1>4. CASE TapDisconnect(p) \/ Kill(p)
  <2>1. \A redial : Ready([Disconnected(ph) EXCEPT
                      !.should = FALSE, !.graceUsed = FALSE, !.redial = redial])
    BY <1>0 DEF Ready, Drains, Disconnected, PhoneState
  <2>2. \E redial : Become(p, [Disconnected(ph) EXCEPT
                      !.should = FALSE, !.graceUsed = FALSE, !.redial = redial])
    BY <1>4 DEF TapDisconnect, Kill
  <2> QED
    BY <2>1, <2>2 DEF Settles
<1>5. CASE Redial(p)
  <2>1. PICK way \in ph.redial :
          LET r == [ph EXCEPT !.redial = @ \ {way}]
              dials == r.conn = "idle" /\ (way = "posted" \/ r.should)
          IN \/ dials /\ Connect(p, r)
             \/ ~dials /\ Become(p, r)
    BY <1>5 DEF Redial
  <2> DEFINE r == [ph EXCEPT !.redial = @ \ {way}]
  <2>2. /\ r \in PhoneState /\ r.should = ph.should
        /\ (Drains(r) <=> Drains(ph))
    BY <1>0 DEF Drains, Authed, PhoneState
  <2>3. \/ r.conn = "idle" /\ Connect(p, r)
        \/ ~(r.conn = "idle" /\ r.should) /\ Become(p, r)
    BY <2>1
  <2> HIDE DEF r
  <2>4. ~(r.conn = "idle" /\ r.should) => Ready(r)
    BY <1>0, <2>2 DEF Ready
  <2> QED
    BY <2>2, <2>3, <2>4, ConnectSettles DEF Settles
<1>6. CASE OnOpen(p)
  <2>1. Ready([ph EXCEPT !.conn = "open"])
    BY <1>0, <1>6 DEF OnOpen, Ready, Drains, Authed, Sound, PhoneState
  <2> QED
    BY <1>6, <2>1 DEF OnOpen, Settles
<1>7. CASE OnFailure(p)
  BY <1>0, <1>7, RetryingReady DEF OnFailure, Settles
<1>8. CASE SwitchRoute(p)
  <2>1. [ph EXCEPT !.redial = @ \ {"timer"}] \in PhoneState
    BY <1>0 DEF PhoneState
  <2> QED
    BY <1>8, <2>1, RetryingReady DEF SwitchRoute, Settles
<1>9. CASE RouteFound(p)
  BY <1>0, <1>9, ConnectSettles DEF RouteFound, Connect
<1>10. CASE Heartbeat(p) \/ HandleHelloOk(p)
  BY <1>0, <1>10, SendSettles DEF Heartbeat, HandleHelloOk
<1>11. CASE AckTimeout(p) \/ HandleAckMismatch(p) \/ HandleOtherError(p)
  BY <1>0, <1>11, RestartSettles DEF AckTimeout, HandleAckMismatch, HandleOtherError
<1>12. CASE HandleIgnored(p)
  BY <1>0, <1>12 DEF HandleIgnored, Settles, Become, PhoneInv
<1>13. CASE HandleAuthOk(p)
  <2> DEFINE m == Heard(p)
             r == [ph EXCEPT !.sess = m.sid, !.reauth = FALSE, !.mode = m.mode]
  <2>1. m.sid \in SessionIds /\ m.mode \in Modes
    <3>1. m \in PhoneMsg /\ m.type = "auth_ok"
      BY <1>13, InboxTyped DEF HandleAuthOk, Hears, Heard
    <3> HIDE DEF m
    <3> QED
      BY <3>1 DEF PhoneMsg
  <2>2. ThenDrain(p, r, Inbox(p)) /\ ph.conn = "open"
    BY <1>13 DEF HandleAuthOk, Hears
  <2> HIDE DEF m
  <2>3. Sound(r) /\ r.conn = "open"
    BY <1>0, <2>1, <2>2, SoundAuthorized DEF PhoneState
  <2> HIDE DEF r
  <2> QED
    BY <2>2, <2>3, DrainSettles
<1>14. CASE HandleAck(p)
  <2>1. /\ ThenDrain(p, Delivered(ph), Inbox(p))
        /\ ph.inflight # 0 /\ ph.conn = "open"
    BY <1>14 DEF HandleAck, MatchesInflight, Hears
  <2>2. Sound(Delivered(ph)) /\ Delivered(ph).conn = "open"
    BY <1>0, <2>1, SoundDelivered DEF Delivered, PhoneState
  <2> QED
    BY <2>1, <2>2, DrainSettles
<1>15. CASE HandleSessionError(p)
  <2>1. CASE SendOrRestart(p, Recovering(ph), Hello(p), Inbox(p))
    <3>1. Recovering(ph) \in PhoneState
      BY <1>0, SoundRecovering DEF Sound
    <3>2. Ready(Recovering(ph))
      BY <1>0 DEF Ready, Drains, Authed, Recovering, PhoneState
    <3> QED
      BY <2>1, <3>1, <3>2, SendSettles
  <2>2. CASE ph.reauth /\ Become(p, [ph EXCEPT !.inflight = 0, !.inflightSeq = 0])
    <3>1. Ready([ph EXCEPT !.inflight = 0, !.inflightSeq = 0])
      BY <1>0, <2>2 DEF Ready, Drains, Authed, Sound, PhoneState
    <3> QED
      BY <2>2, <3>1 DEF Settles
  <2> QED
    BY <1>15, <2>1, <2>2 DEF HandleSessionError
<1> QED
  BY <1>1, <1>2, <1>3, <1>4, <1>5, <1>6, <1>7, <1>8, <1>9, <1>10, <1>11, <1>12,
     <1>13, <1>14, <1>15
     DEF PhoneNext, Hearing
-----------------------------------------------------------------------------
(* What a phone sends.  Its record becomes r; the text it sends, if any, is *)
(* the head of r's queue, on r's connection and in r's session; it greets   *)
(* the host under its own name; and it learns of a session from the host    *)
(* alone.                                                                   *)

SessionFrom(p, r) ==
  \/ r.sess = NoSid
  \/ r.sess = phone[p].sess /\ r.sock = phone[p].sock
  \/ Hears(p, "auth_ok") /\ r.sess = Heard(p).sid /\ r.sock = phone[p].sock

Fitting(p, r, m) ==
  /\ m.type = "text_insert" =>
       /\ r.queue # <<>> /\ m.op = <<p, Head(r.queue)>>
       /\ r.sess # NoSid /\ m.sid = r.sess
  /\ m.type = "hello" => m.client = p

Says(p) ==
  \E r \in PhoneState :
    /\ Become(p, r) /\ SessionFrom(p, r)
    /\ \/ UNCHANGED toHost
       \/ /\ r.sock \in Conns
          /\ \E m \in HostMsg :
               /\ Fitting(p, r, m)
               /\ toHost' = [toHost EXCEPT ![r.sock] = Append(@, m)]

LEMMA RetryingSilent ==
  ASSUME NEW p \in Clients, NEW ph \in PhoneState, NEW way \in Redials,
         Become(p, Retrying(ph, way)), UNCHANGED toHost
  PROVE  Says(p)
<1> DEFINE r == Retrying(ph, way)
<1>1. r \in PhoneState /\ r.sess = NoSid
  BY Zeroes DEF Retrying, Disconnected, PhoneState, NoSid, Conn
<1> QED
  BY <1>1 DEF Says, SessionFrom

LEMMA RestartSilent ==
  ASSUME NEW p \in Clients, NEW ph \in PhoneState, Restart(p, ph)
  PROVE  Says(p)
<1>1. PICK way \in Ways :
        Become(p, Retrying([ph EXCEPT !.redial = @ \ {"timer"}], way))
  BY DEF Restart
<1>2. [ph EXCEPT !.redial = @ \ {"timer"}] \in PhoneState /\ way \in Redials
  BY WaysAssumption DEF PhoneState, Redials
<1> QED
  BY <1>1, <1>2, RetryingSilent DEF Restart, HangUp

LEMMA SendSays ==
  ASSUME NEW p \in Clients, NEW ph \in PhoneState, ph.sock \in Conns,
         SessionFrom(p, ph), NEW m \in HostMsg, Fitting(p, ph, m), NEW inbox,
         SendOrRestart(p, ph, m, inbox)
  PROVE  Says(p)
<1>1. CASE Become(p, ph) /\ Transmit(ph.sock, m)
  BY <1>1 DEF Says, Transmit
<1> QED
  BY <1>1, RestartSilent DEF SendOrRestart

LEMMA DrainSays ==
  ASSUME NEW p \in Clients, NEW ph, Sound(ph), SessionFrom(p, ph), NEW inbox,
         ThenDrain(p, ph, inbox)
  PROVE  Says(p)
<1>1. CASE Become(p, ph) /\ UNCHANGED toHost
  BY <1>1 DEF Says, Sound
<1>2. CASE Drains(ph) /\ SendOrRestart(p, Drained(ph), HeadMsg(p, ph), inbox)
  <2>1. /\ Drained(ph) \in PhoneState /\ Drained(ph).sock = ph.sock
        /\ Drained(ph).sess = ph.sess /\ Drained(ph).queue = ph.queue
    BY <1>2, SoundDrained DEF Drained, Sound, PhoneState
  <2>2. ph.sock \in Conns /\ HeadMsg(p, ph) \in HostMsg
    BY <1>2, SockInUse, HeadMsgTyped DEF Drains
  <2>3. /\ HeadMsg(p, ph).op = <<p, Head(ph.queue)>>
        /\ HeadMsg(p, ph).sid = ph.sess
        /\ HeadMsg(p, ph).type = "text_insert"
    BY DEF HeadMsg, TextInsert
  <2>4. ph.queue # <<>> /\ ph.sess # NoSid
    BY <1>2 DEF Drains, Authed
  <2>5. Fitting(p, Drained(ph), HeadMsg(p, ph)) /\ SessionFrom(p, Drained(ph))
    BY <2>1, <2>3, <2>4 DEF Fitting, SessionFrom
  <2> QED
    BY <1>2, <2>1, <2>2, <2>5, SendSays
<1> QED
  BY <1>1, <1>2 DEF ThenDrain

\* Dialling sends nothing, and happens outside a session.
LEMMA ConnectSilent ==
  ASSUME NEW p \in Clients, NEW ph, Sound(ph), ph.conn = "idle",
         Connect(p, ph), UNCHANGED toHost
  PROVE  Says(p)
<1>1. ph \in PhoneState /\ ph.sess = NoSid
  BY DEF Sound, Authed
<1>2. ASSUME NEW k \in Conns,
             Become(p, [ph EXCEPT !.conn = "connecting", !.sock = k])
      PROVE  Says(p)
  <2> DEFINE r == [ph EXCEPT !.conn = "connecting", !.sock = k]
  <2>1. r \in PhoneState /\ r.sess = NoSid
    BY <1>1, SoundConnecting DEF Sound, PhoneState
  <2> QED
    BY <1>2, <2>1 DEF Says, SessionFrom
<1>3. CASE Become(p, [ph EXCEPT !.redial = @ \cup {"posted"}, !.graceUsed = TRUE])
  <2> DEFINE r == [ph EXCEPT !.redial = @ \cup {"posted"}, !.graceUsed = TRUE]
  <2>1. r \in PhoneState /\ r.sess = NoSid
    BY <1>1 DEF PhoneState, Redials
  <2> QED
    BY <1>3, <2>1 DEF Says, SessionFrom
<1> QED
  BY <1>2, <1>3 DEF Connect, Dial

LEMMA PhoneSays ==
  ASSUME PhoneInv, LinesTyped, NEW p \in Clients, PhoneNext(p)
  PROVE  Says(p)
<1> DEFINE ph == phone[p]
<1>0. ph \in PhoneState /\ Sound(ph)
  BY DEF PhoneInv
<1>1. ASSUME NEW r \in PhoneState, Become(p, r), r.sess = ph.sess,
             r.sock = ph.sock, UNCHANGED toHost
      PROVE  Says(p)
  BY <1>1 DEF Says, SessionFrom
<1>2. CASE AppendText(p)
  <2> DEFINE n == ph.submitted + 1
             r == [ph EXCEPT !.submitted = n, !.queue = Append(@, n)]
  <2>1. /\ Sound(r) /\ ThenDrain(p, r, toPhone)
        /\ r.sess = ph.sess /\ r.sock = ph.sock
    BY <1>0, <1>2, SoundAppended DEF AppendText, PhoneState
  <2> HIDE DEF r
  <2> QED
    BY <2>1, DrainSays DEF SessionFrom
<1>3. CASE PickMode(p) \/ OnResume(p)
  <2>1. \A m \in Modes : LET r == [ph EXCEPT !.mode = m]
          IN r \in PhoneState /\ r.sess = ph.sess /\ r.sock = ph.sock
    BY <1>0 DEF PhoneState
  <2>2. LET r == [ph EXCEPT !.redial = @ \cup {"timer"}]
        IN r \in PhoneState /\ r.sess = ph.sess /\ r.sock = ph.sock
    BY <1>0 DEF PhoneState, Redials
  <2>3. UNCHANGED toHost
    BY <1>3 DEF PickMode, OnResume, wireVars
  <2> QED
    BY <1>1, <1>3, <2>1, <2>2, <2>3 DEF PickMode, OnResume
<1>4. CASE TapConnect(p)
  <2> DEFINE r == [ph EXCEPT !.should = TRUE, !.graceUsed = FALSE]
  <2>1. /\ r \in PhoneState /\ r.sess = ph.sess /\ r.sock = ph.sock
        /\ r.conn = ph.conn /\ r.reauth = ph.reauth
        /\ r.inflight = ph.inflight /\ r.inflightSeq = ph.inflightSeq
        /\ r.localSeq = ph.localSeq /\ r.queue = ph.queue
        /\ r.submitted = ph.submitted
    BY <1>0 DEF PhoneState
  <2>2. /\ (r.conn = "idle" /\ Connect(p, r)) \/ Become(p, r)
        /\ UNCHANGED toHost
    BY <1>4 DEF TapConnect
  <2> HIDE DEF r
  <2>3. Sound(r)
    BY <1>0, <2>1, SoundSameFields
  <2> QED
    BY <1>1, <2>1, <2>2, <2>3, ConnectSilent
<1>5. CASE TapDisconnect(p) \/ Kill(p)
  <2>1. PICK redial \in SUBSET Redials :
          Become(p, [Disconnected(ph) EXCEPT
                       !.should = FALSE, !.graceUsed = FALSE, !.redial = redial])
    <3>1. Disconnected(ph).redial = ph.redial /\ ph.redial \in SUBSET Redials
      BY <1>0 DEF Disconnected, PhoneState
    <3>2. CASE TapDisconnect(p)
      <4>1. Become(p, [Disconnected(ph) EXCEPT
              !.should = FALSE, !.graceUsed = FALSE, !.redial = ph.redial \ {"timer"}])
        BY <3>1, <3>2 DEF TapDisconnect
      <4> QED
        BY <3>1, <4>1
    <3>3. CASE Kill(p)
      BY <3>3 DEF Kill
    <3> QED
      BY <1>5, <3>2, <3>3
  <2> DEFINE r == [Disconnected(ph) EXCEPT
                     !.should = FALSE, !.graceUsed = FALSE, !.redial = redial]
  <2>2. r \in PhoneState /\ r.sess = NoSid
    BY <1>0, Zeroes DEF Disconnected, PhoneState, Conn, NoSid
  <2>3. UNCHANGED toHost
    BY <1>5 DEF TapDisconnect, Kill, HangUp, wireVars
  <2> QED
    BY <2>1, <2>2, <2>3 DEF Says, SessionFrom
<1>6. CASE Redial(p)
  <2>1. PICK way \in ph.redial :
          LET r == [ph EXCEPT !.redial = @ \ {way}]
          IN (r.conn = "idle" /\ Connect(p, r)) \/ Become(p, r)
    BY <1>6 DEF Redial
  <2> DEFINE r == [ph EXCEPT !.redial = @ \ {way}]
  <2>2. /\ r \in PhoneState /\ r.sess = ph.sess /\ r.sock = ph.sock
        /\ r.conn = ph.conn /\ r.reauth = ph.reauth
        /\ r.inflight = ph.inflight /\ r.inflightSeq = ph.inflightSeq
        /\ r.localSeq = ph.localSeq /\ r.queue = ph.queue
        /\ r.submitted = ph.submitted
    BY <1>0 DEF PhoneState
  <2>3. (r.conn = "idle" /\ Connect(p, r)) \/ Become(p, r)
    BY <2>1
  <2> HIDE DEF r
  <2>4. Sound(r) /\ UNCHANGED toHost
    BY <1>0, <1>6, <2>2, SoundSameFields DEF Redial
  <2> QED
    BY <1>1, <2>2, <2>3, <2>4, ConnectSilent
<1>7. CASE OnOpen(p)
  <2> DEFINE r == [ph EXCEPT !.conn = "open"]
  <2>1. /\ r \in PhoneState /\ r.sess = ph.sess /\ r.sock = ph.sock
        /\ ph.sock \in Conns
    BY <1>0, <1>7, SockInUse DEF OnOpen, PhoneState, Conn
  <2>2. Become(p, r) /\ toHost' = [toHost EXCEPT ![r.sock] = Append(@, Hello(p))]
    BY <1>7, <2>1 DEF OnOpen
  <2>3. /\ Hello(p) \in HostMsg /\ Hello(p).type = "hello"
        /\ Hello(p).client = p
    BY MessagesTyped DEF Hello
  <2> HIDE DEF r
  <2> QED
    BY <2>1, <2>2, <2>3 DEF Says, SessionFrom, Fitting
<1>8. CASE OnFailure(p)
  BY <1>0, <1>8, RetryingSilent, WaysAssumption DEF OnFailure, HangUp, Redials
<1>9. CASE SwitchRoute(p)
  <2>1. [ph EXCEPT !.redial = @ \ {"timer"}] \in PhoneState
    BY <1>0 DEF PhoneState
  <2> QED
    BY <1>9, <2>1, RetryingSilent DEF SwitchRoute, HangUp, Redials
<1>10. CASE RouteFound(p)
  BY <1>0, <1>10, ConnectSilent DEF RouteFound, Connect
<1>11. CASE AckTimeout(p) \/ HandleAckMismatch(p) \/ HandleOtherError(p)
  BY <1>0, <1>11, RestartSilent DEF AckTimeout, HandleAckMismatch, HandleOtherError
<1>12. CASE Heartbeat(p)
  <2>1. ph.sock \in Conns /\ Ping(ph.sess) \in HostMsg
    <3>1. ph.sess \in SessionIds
      BY <1>0, <1>12, BoundsAssumption
         DEF Heartbeat, Authed, PhoneState, SessionIds, NoSid
    <3> QED
      BY <1>0, <1>12, <3>1, SockInUse, MessagesTyped DEF Heartbeat
  <2>2. SessionFrom(p, ph) /\ Fitting(p, ph, Ping(ph.sess))
    BY DEF SessionFrom, Fitting, Ping
  <2> QED
    BY <1>0, <1>12, <2>1, <2>2, SendSays DEF Heartbeat
<1>13. CASE HandleHelloOk(p)
  <2>1. ph.sock \in Conns /\ Auth(ph.mode) \in HostMsg
    BY <1>0, <1>13, InboxTyped, MessagesTyped DEF HandleHelloOk, PhoneState
  <2>2. SessionFrom(p, ph) /\ Fitting(p, ph, Auth(ph.mode))
    BY DEF SessionFrom, Fitting, Auth
  <2> QED
    BY <1>0, <1>13, <2>1, <2>2, SendSays DEF HandleHelloOk
<1>14. CASE HandleIgnored(p)
  BY <1>0, <1>1, <1>14 DEF HandleIgnored, Become, PhoneInv
<1>15. CASE HandleAuthOk(p)
  <2> DEFINE m == Heard(p)
             r == [ph EXCEPT !.sess = m.sid, !.reauth = FALSE, !.mode = m.mode]
  <2>1. m.sid \in SessionIds /\ m.mode \in Modes
    <3>1. m \in PhoneMsg /\ m.type = "auth_ok"
      BY <1>15, InboxTyped DEF HandleAuthOk, Hears, Heard
    <3> HIDE DEF m
    <3> QED
      BY <3>1 DEF PhoneMsg
  <2>2. ThenDrain(p, r, Inbox(p)) /\ ph.conn = "open" /\ Hears(p, "auth_ok")
    BY <1>15 DEF HandleAuthOk, Hears
  <2> HIDE DEF m
  <2>3. Sound(r) /\ r.sess = m.sid /\ r.sock = ph.sock
    BY <1>0, <2>1, <2>2, SoundAuthorized DEF PhoneState
  <2> HIDE DEF r
  <2> QED
    BY <2>2, <2>3, DrainSays DEF SessionFrom, m
<1>16. CASE HandleAck(p)
  <2>1. ThenDrain(p, Delivered(ph), Inbox(p)) /\ ph.inflight # 0
    BY <1>16 DEF HandleAck, MatchesInflight
  <2>2. /\ Sound(Delivered(ph)) /\ Delivered(ph).sess = ph.sess
        /\ Delivered(ph).sock = ph.sock
    BY <1>0, <2>1, SoundDelivered DEF Delivered, PhoneState
  <2> QED
    BY <2>1, <2>2, DrainSays DEF SessionFrom
<1>17. CASE HandleSessionError(p)
  <2>1. CASE SendOrRestart(p, Recovering(ph), Hello(p), Inbox(p))
    <3>1. /\ Recovering(ph) \in PhoneState /\ Recovering(ph).sess = NoSid
          /\ Recovering(ph).sock = ph.sock
      BY <1>0, SoundRecovering DEF Sound, Recovering, PhoneState
    <3>2. ph.sock \in Conns /\ Hello(p) \in HostMsg
      BY <1>17, InboxTyped, MessagesTyped DEF HandleSessionError
    <3>3. SessionFrom(p, Recovering(ph)) /\ Fitting(p, Recovering(ph), Hello(p))
      BY <3>1 DEF SessionFrom, Fitting, Hello
    <3> QED
      BY <2>1, <3>1, <3>2, <3>3, SendSays
  <2>2. CASE /\ Become(p, [ph EXCEPT !.inflight = 0, !.inflightSeq = 0])
             /\ UNCHANGED toHost
    <3>1. LET r == [ph EXCEPT !.inflight = 0, !.inflightSeq = 0]
          IN r \in PhoneState /\ r.sess = ph.sess /\ r.sock = ph.sock
      BY <1>0, Zeroes DEF PhoneState
    <3> QED
      BY <1>1, <2>2, <3>1
  <2> QED
    BY <1>17, <2>1, <2>2 DEF HandleSessionError
<1> QED
  BY <1>2, <1>3, <1>4, <1>5, <1>6, <1>7, <1>8, <1>9, <1>10, <1>11, <1>12,
     <1>13, <1>14, <1>15, <1>16, <1>17
     DEF PhoneNext, Hearing

-----------------------------------------------------------------------------
(* The host. *)

(* The operators of the ledger keep its form and add no key but the one    *)
(* that is recorded.                                                       *)

LEMMA EmptyLedgerSound == LedgerOf(EmptyLedger) /\ Keys(EmptyLedger) = {}
BY DEF LedgerOf, EmptyLedger, Keys

LEMMA MoveToEndSound ==
  ASSUME NEW l, LedgerOf(l), NEW key \in Keys(l)
  PROVE  LedgerOf(MoveToEnd(l, key)) /\ Keys(MoveToEnd(l, key)) = Keys(l)
<1> DEFINE older == {pair \in l.older : pair[1] # key}
                      \cup {<<x, key>> : x \in Keys(l) \ {key}}
<1>1. older \subseteq Keys(l) \X Keys(l)
  BY DEF LedgerOf
<1>2. MoveToEnd(l, key) = [digest |-> l.digest, older |-> older]
  BY DEF MoveToEnd, LedgerOf
<1> HIDE DEF older
<1> QED
  BY <1>1, <1>2 DEF LedgerOf, Keys

LEMMA OnlySound ==
  ASSUME NEW l, LedgerOf(l), NEW S, S \subseteq Keys(l)
  PROVE  LedgerOf(Only(l, S)) /\ Keys(Only(l, S)) = S
BY DEF LedgerOf, Only, Keys

LEMMA NewestSound ==
  ASSUME NEW l, LedgerOf(l)
  PROVE  LedgerOf(Newest(l)) /\ Keys(Newest(l)) \subseteq Keys(l)
BY OnlySound DEF Newest

LEMMA PersistedSound ==
  ASSUME NEW l, LedgerOf(l)
  PROVE  LedgerOf(Persisted(l)) /\ Keys(Persisted(l)) \subseteq Keys(l)
BY OnlySound DEF Persisted

LEMMA PutSound ==
  ASSUME NEW l, LedgerOf(l), NEW key \in Key, NEW text \in Texts
  PROVE  /\ LedgerOf(Put(l, key, text))
         /\ Keys(Put(l, key, text)) \subseteq Keys(l) \cup {key}
<1> DEFINE digest == [x \in Keys(l) \cup {key} |->
                        IF x = key THEN text ELSE l.digest[x]]
           r == [digest |-> digest, older |-> l.older]
<1>1. LedgerOf(r) /\ Keys(r) = Keys(l) \cup {key}
  <2>1. digest \in [Keys(l) \cup {key} -> Texts \cup {Legacy}]
    BY DEF LedgerOf
  <2> HIDE DEF digest
  <2> QED
    BY <2>1 DEF LedgerOf, Keys
<1>2. Put(l, key, text) = Newest(MoveToEnd(r, key))
  BY DEF Put
<1> HIDE DEF r
<1>3. LedgerOf(MoveToEnd(r, key)) /\ Keys(MoveToEnd(r, key)) = Keys(r)
  BY <1>1, MoveToEndSound
<1> QED
  BY <1>1, <1>2, <1>3, NewestSound

LEMMA TouchedSound ==
  ASSUME LedgerTypeOK, NEW key
  PROVE  LedgerOf(Touched(key)) /\ Keys(Touched(key)) = Keys(ledger)
BY MoveToEndSound DEF LedgerTypeOK, Touched

LEMMA RecordSound ==
  ASSUME LedgerTypeOK, NEW key \in Key, NEW text \in Texts,
         RecordSkipped \/ RecordOk(key, text) \/ RecordFails(key, text)
  PROVE  /\ LedgerTypeOK'
         /\ Keys(ledger') \cup Keys(diskLedger')
              \subseteq Keys(ledger) \cup Keys(diskLedger) \cup {key}
<1> DEFINE l == Put(ledger, key, text)
<1>1. LedgerOf(l) /\ Keys(l) \subseteq Keys(ledger) \cup {key}
  BY PutSound DEF LedgerTypeOK
<1>2. LedgerOf(Persisted(l)) /\ Keys(Persisted(l)) \subseteq Keys(l)
  BY <1>1, PersistedSound
<1>3. CASE RecordSkipped
  BY <1>3 DEF RecordSkipped, ledgerVars, LedgerTypeOK
<1>4. CASE RecordOk(key, text) \/ RecordFails(key, text)
  <2>1. /\ ledger' = l
        /\ diskLedger' \in {diskLedger, Persisted(l)}
        /\ unavailable' \in BOOLEAN
    BY <1>4 DEF RecordOk, RecordFails, LedgerTypeOK
  <2> HIDE DEF l
  <2> QED
    BY <1>1, <1>2, <2>1 DEF LedgerTypeOK
<1> QED
  BY <1>3, <1>4

LEMMA LoadSound ==
  ASSUME LedgerTypeOK, LoadOk \/ LoadFails
  PROVE  /\ LedgerTypeOK'
         /\ Keys(ledger') \cup Keys(diskLedger') \subseteq Keys(diskLedger)
<1>1. CASE LoadOk
  BY <1>1, NewestSound DEF LoadOk, LedgerTypeOK
<1>2. CASE LoadFails
  BY <1>2, EmptyLedgerSound DEF LoadFails, LedgerTypeOK
<1> QED
  BY <1>1, <1>2

-----------------------------------------------------------------------------
(* The order of the entries.  Popping the oldest ones until max_entries    *)
(* are left keeps those with fewer than max_entries entries after them: in *)
(* a strict total order no two entries have equally many.                  *)

\* before is a strict total order on S.
Orders(before, S) ==
  /\ \A x, y \in S : IF x = y THEN <<x, y>> \notin before
                    ELSE <<x, y>> \in before <=> <<y, x>> \notin before
  /\ \A x, y, z \in S :
       <<x, y>> \in before /\ <<y, z>> \in before => <<x, z>> \in before

InOrder(l) == LedgerOf(l) /\ Orders(l.older, Keys(l)) /\ IsFiniteSet(Keys(l))

After(l, x) == {pair \in l.older : pair[1] = x}

LEMMA AfterCount ==
  ASSUME NEW l, InOrder(l), NEW x \in Keys(l)
  PROVE  /\ IsFiniteSet(After(l, x))
         /\ Cardinality(After(l, x)) \in Nat
         /\ Cardinality(After(l, x)) < Cardinality(Keys(l))
<1> DEFINE last == [pair \in After(l, x) |-> pair[2]]
<1>1. last \in Injection(After(l, x), Keys(l) \ {x})
  <2>1. \A pair \in After(l, x) : pair[2] \in Keys(l) \ {x} /\ pair = <<x, pair[2]>>
    BY DEF InOrder, LedgerOf, Orders, After
  <2>2. \A a, b \in After(l, x) : last[a] = last[b] => a = b
    BY <2>1
  <2>3. last \in [After(l, x) -> Keys(l) \ {x}]
    BY <2>1
  <2> QED
    BY <2>2, <2>3 DEF Injection, IsInjective
<1>2. /\ IsFiniteSet(Keys(l) \ {x})
      /\ Cardinality(Keys(l) \ {x}) = Cardinality(Keys(l)) - 1
      /\ Cardinality(Keys(l)) \in Nat
  BY FS_RemoveElement, FS_CardinalityType DEF InOrder
<1>3. /\ IsFiniteSet(After(l, x))
      /\ Cardinality(After(l, x)) <= Cardinality(Keys(l) \ {x})
  BY <1>1, <1>2, FS_Injection
<1>4. Cardinality(After(l, x)) \in Nat
  BY <1>3, FS_CardinalityType
<1> QED
  BY <1>2, <1>3, <1>4

LEMMA EarlierCountsMore ==
  ASSUME NEW l, InOrder(l), NEW x \in Keys(l), NEW y \in Keys(l),
         <<x, y>> \in l.older
  PROVE  Cardinality(After(l, y)) < Cardinality(After(l, x))
<1> DEFINE rest == After(l, x) \ {<<x, y>>}
           moved == [pair \in After(l, y) |-> <<x, pair[2]>>]
<1>1. \A pair \in After(l, y) :
        /\ pair = <<y, pair[2]>> /\ pair[2] \in Keys(l) \ {y}
        /\ <<x, pair[2]>> \in After(l, x) /\ <<x, pair[2]>> # <<x, y>>
  <2> SUFFICES ASSUME NEW pair \in After(l, y)
               PROVE  /\ pair = <<y, pair[2]>> /\ pair[2] \in Keys(l) \ {y}
                      /\ <<x, pair[2]>> \in After(l, x) /\ <<x, pair[2]>> # <<x, y>>
    OBVIOUS
  <2>1. pair = <<y, pair[2]>> /\ pair[2] \in Keys(l) \ {y} /\ <<y, pair[2]>> \in l.older
    BY DEF InOrder, LedgerOf, Orders, After
  <2>2. <<x, pair[2]>> \in l.older
    BY <2>1 DEF InOrder, Orders
  <2> QED
    BY <2>1, <2>2 DEF After
<1>2. moved \in Injection(After(l, y), rest)
  <2>1. \A a, b \in After(l, y) : moved[a] = moved[b] => a = b
    BY <1>1
  <2>2. moved \in [After(l, y) -> rest]
    BY <1>1
  <2> QED
    BY <2>1, <2>2 DEF Injection, IsInjective
<1>3. <<x, y>> \in After(l, x)
  BY DEF After
<1>4. /\ IsFiniteSet(rest) /\ Cardinality(rest) = Cardinality(After(l, x)) - 1
  BY <1>3, AfterCount, FS_RemoveElement
<1>5. Cardinality(After(l, y)) <= Cardinality(rest)
  BY <1>2, <1>4, FS_Injection
<1> QED
  BY <1>4, <1>5, AfterCount

LEMMA OnlyInOrder ==
  ASSUME NEW l, InOrder(l), NEW S, S \subseteq Keys(l)
  PROVE  InOrder(Only(l, S)) /\ Keys(Only(l, S)) = S
<1>1. LedgerOf(Only(l, S)) /\ Keys(Only(l, S)) = S
  BY OnlySound DEF InOrder
<1>2. Only(l, S).older = {pair \in l.older : pair[1] \in S /\ pair[2] \in S}
  BY DEF Only
<1>3. Orders(Only(l, S).older, S)
  BY <1>2 DEF InOrder, Orders
<1>4. IsFiniteSet(S)
  BY FS_Subset DEF InOrder
<1> QED
  BY <1>1, <1>3, <1>4 DEF InOrder

\* No more than max_entries are left,
LEMMA NewestFits ==
  ASSUME NEW l, InOrder(l)
  PROVE  InOrder(Newest(l)) /\ Cardinality(Keys(Newest(l))) <= MaxEntries
<1> DEFINE S == {x \in Keys(l) : Cardinality(After(l, x)) < MaxEntries}
           rank == [x \in S |-> Cardinality(After(l, x))]
<1>1. Newest(l) = Only(l, S)
  BY DEF Newest, After
<1>2. InOrder(Newest(l)) /\ Keys(Newest(l)) = S
  BY <1>1, OnlyInOrder
<1>3. rank \in Injection(S, 0..MaxEntries - 1)
  <2>1. \A x \in S : Cardinality(After(l, x)) \in 0..MaxEntries - 1
    BY AfterCount, LedgerAssumption
  <2>2. rank \in [S -> 0..MaxEntries - 1]
    BY <2>1
  <2>3. ASSUME NEW x \in S, NEW y \in S, x # y
        PROVE  rank[x] # rank[y]
    <3>1. <<x, y>> \in l.older \/ <<y, x>> \in l.older
      BY <2>3 DEF InOrder, Orders
    <3> QED
      BY <3>1, <2>1, EarlierCountsMore
  <2> QED
    BY <2>2, <2>3 DEF Injection, IsInjective
<1>4. IsFiniteSet(0..MaxEntries - 1) /\ Cardinality(0..MaxEntries - 1) = MaxEntries
  BY FS_Interval, LedgerAssumption
<1> QED
  BY <1>2, <1>3, <1>4, FS_Injection

\* and nothing is dropped from a ledger that fits.
LEMMA NewestKeepsAll ==
  ASSUME NEW l, InOrder(l), Cardinality(Keys(l)) <= MaxEntries
  PROVE  Newest(l).digest = l.digest
<1>1. \A x \in Keys(l) : Cardinality(After(l, x)) < MaxEntries
  BY AfterCount, FS_CardinalityType, LedgerAssumption DEF InOrder
<1>2. Newest(l) = Only(l, Keys(l))
  BY <1>1 DEF Newest, After
<1> QED
  BY <1>2 DEF Only, InOrder, LedgerOf, Keys

LEMMA MoveToEndInOrder ==
  ASSUME NEW l, LedgerOf(l), NEW key \in Keys(l),
         Orders(l.older, Keys(l) \ {key}), IsFiniteSet(Keys(l))
  PROVE  /\ InOrder(MoveToEnd(l, key)) /\ Keys(MoveToEnd(l, key)) = Keys(l)
         /\ MoveToEnd(l, key).digest = l.digest
<1> DEFINE K == Keys(l)
           older == {pair \in l.older : pair[1] # key} \cup {<<x, key>> : x \in K \ {key}}
<1>1. /\ LedgerOf(MoveToEnd(l, key)) /\ Keys(MoveToEnd(l, key)) = K
      /\ MoveToEnd(l, key).digest = l.digest
      /\ MoveToEnd(l, key).older = older
  BY MoveToEndSound DEF MoveToEnd, LedgerOf
<1>2. \A x, y \in K : <<x, y>> \in older <=>
        x # key /\ (y = key \/ <<x, y>> \in l.older)
  BY DEF LedgerOf
<1> HIDE DEF older
<1>3. Orders(older, K)
  BY <1>2 DEF Orders
<1> QED
  BY <1>1, <1>3 DEF InOrder

LEMMA PutInOrder ==
  ASSUME NEW l, InOrder(l), NEW key \in Key, NEW text \in Texts
  PROVE  /\ InOrder(Put(l, key, text))
         /\ Cardinality(Keys(Put(l, key, text))) <= MaxEntries
<1> DEFINE digest == [x \in Keys(l) \cup {key} |->
                        IF x = key THEN text ELSE l.digest[x]]
           r == [digest |-> digest, older |-> l.older]
<1>1. LedgerOf(r) /\ Keys(r) = Keys(l) \cup {key} /\ r.older = l.older
  <2>1. digest \in [Keys(l) \cup {key} -> Texts \cup {Legacy}]
    BY DEF InOrder, LedgerOf
  <2> HIDE DEF digest
  <2> QED
    BY <2>1 DEF InOrder, LedgerOf, Keys
<1>2. Put(l, key, text) = Newest(MoveToEnd(r, key))
  BY DEF Put
<1> HIDE DEF r
<1>3. IsFiniteSet(Keys(r))
  BY <1>1, FS_AddElement DEF InOrder
<1>4. Orders(r.older, Keys(r) \ {key})
  BY <1>1 DEF InOrder, Orders
<1>5. InOrder(MoveToEnd(r, key))
  BY <1>1, <1>3, <1>4, MoveToEndInOrder
<1> QED
  BY <1>2, <1>5, NewestFits

-----------------------------------------------------------------------------
(* The file and the memory.                                                *)

Fits(l) == InOrder(l) /\ Cardinality(Keys(l)) <= MaxEntries

SameKnown(l, m) == Persisted(l).digest = Persisted(m).digest

LedgerInv ==
  /\ Fits(ledger) /\ Fits(diskLedger)
  /\ ~unavailable => SameKnown(ledger, diskLedger)

LEMMA SameDigestSameKnown ==
  ASSUME NEW l, NEW m, l.digest = m.digest
  PROVE  SameKnown(l, m)
BY DEF SameKnown, Persisted, Only, Keys

LEMMA PersistedKnowsAll ==
  ASSUME NEW l, Fits(l)
  PROVE  Fits(Persisted(l)) /\ SameKnown(l, Persisted(l))
<1> DEFINE S == {x \in Keys(l) : l.digest[x] # Legacy}
<1>1. InOrder(Persisted(l)) /\ Keys(Persisted(l)) = S
  BY OnlyInOrder DEF Fits, Persisted
<1>2. Cardinality(S) <= MaxEntries
  <2>1. /\ Cardinality(S) \in Nat /\ Cardinality(Keys(l)) \in Nat
        /\ Cardinality(S) <= Cardinality(Keys(l))
    BY FS_Subset, FS_CardinalityType DEF Fits, InOrder
  <2> QED
    BY <2>1, LedgerAssumption DEF Fits
<1>3. Persisted(l).digest = [x \in S |-> l.digest[x]]
  BY DEF Persisted, Only
<1>4. {x \in S : Persisted(l).digest[x] # Legacy} = S
  BY <1>3
<1>5. Persisted(Persisted(l)).digest = [x \in S |-> Persisted(l).digest[x]]
  BY <1>1, <1>4 DEF Persisted, Only
<1> QED
  BY <1>1, <1>2, <1>3, <1>5 DEF Fits, SameKnown

LEMMA EmptyFits == Fits(EmptyLedger)
<1>1. Keys(EmptyLedger) = {}
  BY EmptyLedgerSound
<1> QED
  BY <1>1, EmptyLedgerSound, FS_EmptySet, LedgerAssumption DEF Fits, InOrder, Orders

\* status
LEMMA TouchedInv ==
  ASSUME LedgerInv, NEW key, ledger' = Touched(key),
         UNCHANGED <<diskLedger, unavailable>>
  PROVE  LedgerInv'
<1>1. Fits(ledger') /\ ledger'.digest = ledger.digest
  <2>1. CASE ~unavailable /\ key \in Keys(ledger)
    <3>1. Orders(ledger.older, Keys(ledger) \ {key})
      BY DEF LedgerInv, Fits, InOrder, Orders
    <3>2. ledger' = MoveToEnd(ledger, key)
      BY <2>1 DEF Touched
    <3> QED
      BY <2>1, <3>1, <3>2, MoveToEndInOrder DEF LedgerInv, Fits, InOrder
  <2>2. CASE ~(~unavailable /\ key \in Keys(ledger))
    BY <2>2 DEF Touched, LedgerInv
  <2> QED
    BY <2>1, <2>2
<1>2. SameKnown(ledger', ledger)
  BY <1>1, SameDigestSameKnown
<1> QED
  BY <1>1, <1>2 DEF LedgerInv, SameKnown

\* record
LEMMA RecordInv ==
  ASSUME LedgerInv, NEW key \in Key, NEW text \in Texts,
         RecordSkipped \/ RecordOk(key, text) \/ RecordFails(key, text)
  PROVE  LedgerInv'
<1> DEFINE l == Put(ledger, key, text)
<1>1. Fits(l)
  BY PutInOrder DEF LedgerInv, Fits
<1>2. Fits(Persisted(l)) /\ SameKnown(l, Persisted(l))
  BY <1>1, PersistedKnowsAll
<1>3. CASE RecordSkipped
  BY <1>3 DEF RecordSkipped, ledgerVars, LedgerInv, SameKnown, Persisted, Only, Keys
<1>4. CASE RecordOk(key, text) \/ RecordFails(key, text)
  <2>1. /\ ledger' = l
        /\ diskLedger' \in {diskLedger, Persisted(l)}
        /\ ~unavailable' => diskLedger' = Persisted(l)
    BY <1>4 DEF RecordOk, RecordFails
  <2> HIDE DEF l
  <2> QED
    BY <1>1, <1>2, <2>1 DEF LedgerInv
<1> QED
  BY <1>3, <1>4

\* _load
LEMMA LoadInv ==
  ASSUME Fits(diskLedger), LoadOk \/ LoadFails
  PROVE  LedgerInv'
<1>1. CASE LoadOk
  <2>1. Fits(Newest(diskLedger)) /\ Newest(diskLedger).digest = diskLedger.digest
    BY NewestFits, NewestKeepsAll DEF Fits
  <2>2. SameKnown(Newest(diskLedger), diskLedger)
    BY <2>1, SameDigestSameKnown
  <2> QED
    BY <1>1, <2>1, <2>2 DEF LoadOk, LedgerInv
<1>2. CASE LoadFails
  BY <1>2, EmptyFits DEF LoadFails, LedgerInv
<1> QED
  BY <1>1, <1>2

-----------------------------------------------------------------------------
(* The messages that are read and sent.                                    *)

LEMMA ReadTyped ==
  ASSUME WireTypeOK, NEW k \in Conns, NEW type, Reads(k, type), Consumed(k)
  PROVE  /\ Head(toHost[k]) \in HostMsg
         /\ toHost' \in [Conns -> Seq(HostMsg)]
<1>1. Head(toHost[k]) \in HostMsg /\ Tail(toHost[k]) \in Seq(HostMsg)
  BY HeadTailProperties DEF WireTypeOK, Reads
<1> QED
  BY <1>1 DEF Consumed, WireTypeOK

LEMMA InsertTyped ==
  ASSUME NEW m \in HostMsg, m.type = "text_insert"
  PROVE  /\ m.sid \in SessionIds /\ m.seq \in 0..MaxOps + 1
         /\ m.op \in OpId \cup {None} /\ m.text \in Texts \cup {None}
         /\ m.mode \in Modes \cup {None}
BY DEF HostMsg

LEMMA OtherTyped ==
  ASSUME NEW m \in HostMsg
  PROVE  /\ m.type = "hello" => m.client \in Clients
         /\ m.type = "auth" => m.mode \in Modes
BY DEF HostMsg

LEMMA RepliesTyped ==
  /\ HelloOk \in PhoneMsg /\ Pong \in PhoneMsg
  /\ \A s \in SessionIds, mode \in Modes : AuthOk(s, mode) \in PhoneMsg
  /\ \A reason \in Reasons : Error(reason) \in PhoneMsg
  /\ \A seq \in 0..MaxOps + 1, op \in OpId \cup {None}, ok \in BOOLEAN :
       Ack(seq, op, ok) \in PhoneMsg
BY DEF PhoneMsg, HelloOk, Pong, AuthOk, Error, Ack

\* An emitted message goes to the end of what its connection carries.
LEMMA EmitTyped ==
  ASSUME WireTypeOK, NEW k \in Conns, NEW m \in PhoneMsg, Emit(k, m)
  PROVE  /\ toPhone' \in [Conns -> Seq(PhoneMsg)]
         /\ \A j \in Conns : \A i \in DOMAIN toPhone'[j] :
              \/ i \in DOMAIN toPhone[j] /\ toPhone'[j][i] = toPhone[j][i]
              \/ toPhone'[j][i] = m
<1>1. /\ toPhone[k] \in Seq(PhoneMsg)
      /\ toPhone' = [toPhone EXCEPT ![k] = Carrying(k, m)]
  BY DEF Emit, WireTypeOK
<1>2. /\ Carrying(k, m) \in Seq(PhoneMsg)
      /\ \A i \in DOMAIN Carrying(k, m) :
           \/ i \in DOMAIN toPhone[k] /\ Carrying(k, m)[i] = toPhone[k][i]
           \/ Carrying(k, m)[i] = m
  BY <1>1, AppendProperties, LenProperties DEF Carrying
<1> HIDE DEF Carrying
<1> QED
  BY <1>1, <1>2 DEF WireTypeOK

\* What the checks of _on_text_insert have established when they let an insert
\* through.
LEMMA VerdictMeans ==
  ASSUME NEW m, Verdict(m) \in {"match", "missing"}
  PROVE  /\ WellFormed(m) /\ Valid(m.sid) /\ IsNextSeq(m.seq)
         /\ OpStatus(m) = Verdict(m)
<1>1. WellFormed(m)
  BY DEF Verdict
<1>2. Valid(m.sid)
  BY <1>1 DEF Verdict, Invalid
<1> QED
  BY <1>1, <1>2 DEF Verdict

LEMMA MatchMeans ==
  ASSUME NEW m, Verdict(m) = "match"
  PROVE  m.op # None /\ KeyOf(m) \in Keys(ledger)
BY VerdictMeans DEF OpStatus, Status

-----------------------------------------------------------------------------
(* The session.                                                            *)

LEMMA SessionFields ==
  ASSUME SessionTypeOK, active # None
  PROVE  /\ active \in Session
         /\ active.sid \in SessionIds /\ active.client \in Clients
         /\ active.mode \in Modes /\ active.lastSeq \in 0..MaxOps + 1
         /\ active.snapshot \in Seq(Texts)
BY DEF SessionTypeOK, Session

LEMMA AdvancedTyped ==
  ASSUME NEW s \in Session, NEW seq \in 0..MaxOps + 1
  PROVE  /\ Advanced(s, seq) \in Session
         /\ Advanced(s, seq).sid = s.sid /\ Advanced(s, seq).lastSeq = seq
BY DEF Advanced, Session

LEMMA GrownTyped ==
  ASSUME NEW s \in Session, NEW text \in Texts
  PROVE  /\ Grown(s, text) \in Session
         /\ Grown(s, text).sid = s.sid /\ Grown(s, text).lastSeq = s.lastSeq
<1>1. Append(s.snapshot, text) \in Seq(Texts)
  BY AppendProperties DEF Session
<1> QED
  BY <1>1 DEF Grown, Session

LEMMA NewSessionTyped ==
  ASSUME nextSession \in SessionIds, NEW c \in Clients, NEW mode \in Modes
  PROVE  NewSession(c, mode) \in Session /\ NewSession(c, mode).sid = nextSession
<1>1. 0 \in 0..MaxOps + 1 /\ <<>> \in Seq(Texts)
  BY BoundsAssumption, EmptySeq
<1> QED
  BY <1>1 DEF NewSession, Session

-----------------------------------------------------------------------------
(* The two queues of the worker.                                           *)

LEMMA AppendDistinct ==
  ASSUME NEW S, NEW q \in Seq(S), NEW x \in S, IsInjective(q),
         \A i \in DOMAIN q : q[i] # x
  PROVE  LET a == Append(q, x)
         IN /\ a \in Seq(S) /\ IsInjective(a)
            /\ \A i \in DOMAIN a : (i \in DOMAIN q /\ a[i] = q[i]) \/ a[i] = x
<1> DEFINE a == Append(q, x)
<1>1. /\ a \in Seq(S) /\ DOMAIN a = 1..Len(q) + 1
      /\ \A i \in 1..Len(q) : a[i] = q[i]
      /\ a[Len(q) + 1] = x
      /\ DOMAIN q = 1..Len(q) /\ Len(q) \in Nat
  BY AppendProperties, LenProperties
<1> HIDE DEF a
<1>2. \A i \in DOMAIN a : i \in DOMAIN q \/ i = Len(q) + 1
  BY <1>1
<1>3. IsInjective(a)
  BY <1>1, <1>2 DEF IsInjective
<1>4. \A i \in DOMAIN a : (i \in DOMAIN q /\ a[i] = q[i]) \/ a[i] = x
  BY <1>1, <1>2
<1> QED
  BY <1>1, <1>3, <1>4, Zenon DEF a

LEMMA TailDistinct ==
  ASSUME NEW S, NEW q \in Seq(S), q # <<>>, IsInjective(q)
  PROVE  /\ Head(q) \in S /\ Tail(q) \in Seq(S) /\ IsInjective(Tail(q))
         /\ \E i \in DOMAIN q : Head(q) = q[i]
         /\ \A i \in DOMAIN Tail(q) :
              /\ Tail(q)[i] # Head(q)
              /\ \E j \in DOMAIN q : Tail(q)[i] = q[j]
<1> DEFINE t == Tail(q)
<1>1. /\ t \in Seq(S) /\ Head(q) \in S
      /\ DOMAIN t = 1..Len(q) - 1
      /\ \A i \in 1..Len(q) - 1 : t[i] = q[i + 1]
      /\ Head(q) = q[1]
      /\ DOMAIN q = 1..Len(q) /\ Len(q) \in Nat /\ Len(q) >= 1
  BY HeadTailProperties, LenProperties, EmptySeq
<1> HIDE DEF t
<1>2. \A i \in DOMAIN t : i + 1 \in DOMAIN q /\ t[i] = q[i + 1] /\ i + 1 # 1
  BY <1>1
<1>3. 1 \in DOMAIN q
  BY <1>1
<1>4. IsInjective(t)
  <2> SUFFICES ASSUME NEW i \in DOMAIN t, NEW j \in DOMAIN t, t[i] = t[j]
               PROVE  i = j
    BY DEF IsInjective
  <2>1. i + 1 = j + 1
    BY <1>2 DEF IsInjective
  <2> QED
    BY <1>1, <2>1
<1>5. \A i \in DOMAIN t : t[i] # Head(q)
  BY <1>1, <1>2, <1>3 DEF IsInjective
<1> QED
  BY <1>1, <1>2, <1>3, <1>4, <1>5 DEF t

\* StartInsert puts a connection in the first queue...
LEMMA StartQueues ==
  ASSUME HostTypeOK, WorkerQueues, NEW k \in Conns, job[k] = None,
         NEW j \in Job, j # None, j.stage = "waiting",
         job' = [job EXCEPT ![k] = j],
         execQ' = Append(execQ, k), UNCHANGED doneQ
  PROVE  WorkerQueues' /\ execQ' \in Seq(Conns)
<1>1. \A i \in DOMAIN execQ : execQ[i] # k
  BY DEF WorkerQueues
<1>2. \A i \in DOMAIN doneQ : doneQ[i] # k
  BY DEF WorkerQueues
<1>3. /\ execQ' \in Seq(Conns) /\ IsInjective(execQ')
      /\ \A i \in DOMAIN execQ' :
           (i \in DOMAIN execQ /\ execQ'[i] = execQ[i]) \/ execQ'[i] = k
  <2>1. execQ \in Seq(Conns) /\ IsInjective(execQ)
    BY DEF HostTypeOK, WorkerQueues
  <2> QED
    BY <1>1, <2>1, AppendDistinct
<1>4. /\ \A c \in Conns \ {k} : job'[c] = job[c]
      /\ job'[k] = j
  BY DEF HostTypeOK
<1>5. /\ \A i \in DOMAIN execQ : execQ[i] \in Conns
      /\ \A i \in DOMAIN doneQ : doneQ[i] \in Conns
  BY ElementOfSeq, LenProperties DEF HostTypeOK
<1> QED
  BY <1>1, <1>2, <1>3, <1>4, <1>5 DEF WorkerQueues

\* ...the worker moves it to the second...
LEMMA MoveQueues ==
  ASSUME HostTypeOK, WorkerQueues, execQ # <<>>,
         NEW stage \in {"injected", "failed"},
         job' = [job EXCEPT ![Head(execQ)].stage = stage],
         execQ' = Tail(execQ), doneQ' = Append(doneQ, Head(execQ))
  PROVE  /\ WorkerQueues' /\ execQ' \in Seq(Conns) /\ doneQ' \in Seq(Conns)
         /\ Head(execQ) \in Conns /\ job[Head(execQ)] \in Job
         /\ job' \in [Conns -> Job \cup {None}]
         /\ job'[Head(execQ)] = [job[Head(execQ)] EXCEPT !.stage = stage]
         /\ \A c \in Conns \ {Head(execQ)} : job'[c] = job[c]
<1> DEFINE k == Head(execQ)
<1>1. /\ k \in Conns /\ execQ' \in Seq(Conns) /\ IsInjective(execQ')
      /\ \E i \in DOMAIN execQ : k = execQ[i]
      /\ \A i \in DOMAIN execQ' : /\ execQ'[i] # k
                                  /\ \E j \in DOMAIN execQ : execQ'[i] = execQ[j]
  BY TailDistinct DEF HostTypeOK, WorkerQueues
<1> HIDE DEF k
<1>2. job[k] # None /\ job[k].stage = "waiting"
  BY <1>1 DEF WorkerQueues
<1>3. /\ doneQ' \in Seq(Conns) /\ IsInjective(doneQ')
      /\ \A i \in DOMAIN doneQ' :
           (i \in DOMAIN doneQ /\ doneQ'[i] = doneQ[i]) \/ doneQ'[i] = k
  <2>1. \A i \in DOMAIN doneQ : doneQ[i] # k
    BY <1>2 DEF WorkerQueues
  <2>2. doneQ \in Seq(Conns) /\ IsInjective(doneQ) /\ doneQ' = Append(doneQ, k)
    BY DEF HostTypeOK, WorkerQueues, k
  <2> QED
    BY <1>1, <2>1, <2>2, AppendDistinct
<1>4. job[k] \in Job
  BY <1>1, <1>2 DEF HostTypeOK
<1>5. /\ job' = [job EXCEPT ![k].stage = stage]
      /\ job \in [Conns -> Job \cup {None}]
  BY DEF k, HostTypeOK
<1> DEFINE r == [job[k] EXCEPT !.stage = stage]
<1>6. r \in Job /\ r.stage = stage
  BY <1>4 DEF Job
<1>7. job' = [job EXCEPT ![k] = r]
  BY <1>1, <1>4, <1>5
<1> HIDE DEF r
<1>8. /\ job' \in [Conns -> Job \cup {None}]
      /\ \A c \in Conns \ {k} : job'[c] = job[c]
      /\ job'[k] = r
  BY <1>1, <1>5, <1>6, <1>7
<1>9. r # None
  BY <1>6, NoneIsNoJob
<1>10. \A i \in DOMAIN execQ' : job'[execQ'[i]] # None
                                /\ job'[execQ'[i]].stage = "waiting"
  <2> SUFFICES ASSUME NEW i \in DOMAIN execQ'
               PROVE  job'[execQ'[i]] # None /\ job'[execQ'[i]].stage = "waiting"
    OBVIOUS
  <2>1. PICK j \in DOMAIN execQ : execQ'[i] = execQ[j]
    BY <1>1
  <2>2. execQ'[i] # k /\ execQ'[i] \in Conns
    BY <1>1, ElementOfSeq, LenProperties
  <2> QED
    BY <1>8, <2>1, <2>2 DEF WorkerQueues
<1>11. \A i \in DOMAIN doneQ' : job'[doneQ'[i]] # None
                                /\ job'[doneQ'[i]].stage # "waiting"
  <2> SUFFICES ASSUME NEW i \in DOMAIN doneQ'
               PROVE  job'[doneQ'[i]] # None /\ job'[doneQ'[i]].stage # "waiting"
    OBVIOUS
  <2>1. CASE doneQ'[i] = k
    BY <1>6, <1>8, <1>9, <2>1
  <2>2. CASE doneQ'[i] # k /\ i \in DOMAIN doneQ /\ doneQ'[i] = doneQ[i]
    <3>1. doneQ'[i] \in Conns
      BY <1>3, ElementOfSeq, LenProperties
    <3> QED
      BY <1>8, <2>2, <3>1 DEF WorkerQueues
  <2> QED
    BY <1>3, <2>1, <2>2
<1> QED
  BY <1>1, <1>3, <1>4, <1>8, <1>10, <1>11 DEF WorkerQueues, k, r

\* ...and the event loop takes it out again.
LEMMA ResumeQueues ==
  ASSUME HostTypeOK, WorkerQueues, NEW k \in Conns,
         NEW stage \in {"injected", "failed"}, Resumes(k, stage), UNCHANGED execQ
  PROVE  /\ WorkerQueues' /\ doneQ' \in Seq(Conns)
         /\ job[k] \in Job /\ job[k] # None
         /\ job' \in [Conns -> Job \cup {None}] /\ job'[k] = None
         /\ \A c \in Conns \ {k} : job'[c] = job[c]
<1>1. /\ doneQ' \in Seq(Conns) /\ IsInjective(doneQ')
      /\ \E i \in DOMAIN doneQ : k = doneQ[i]
      /\ \A i \in DOMAIN doneQ' : /\ doneQ'[i] # k
                                  /\ \E j \in DOMAIN doneQ : doneQ'[i] = doneQ[j]
  BY TailDistinct DEF HostTypeOK, WorkerQueues, Resumes
<1>2. job[k] # None /\ job[k] \in Job
  BY <1>1 DEF WorkerQueues, HostTypeOK
<1>3. /\ job' \in [Conns -> Job \cup {None}] /\ job'[k] = None
      /\ \A c \in Conns \ {k} : job'[c] = job[c]
  BY DEF Resumes, HostTypeOK
<1>4. \A i \in DOMAIN execQ : execQ[i] # k
  BY DEF WorkerQueues, Resumes
<1>5. /\ \A i \in DOMAIN execQ : execQ[i] \in Conns
      /\ \A i \in DOMAIN doneQ' : doneQ'[i] \in Conns
  BY <1>1, ElementOfSeq, LenProperties DEF HostTypeOK
<1> QED
  BY <1>1, <1>2, <1>3, <1>4, <1>5 DEF WorkerQueues

-----------------------------------------------------------------------------
(* The inductive invariant of the host, and the steps one by one.          *)

HostTypes == WireTypeOK /\ SessionTypeOK /\ LedgerTypeOK /\ HostTypeOK

HostInv == HostTypes /\ WorkerQueues /\ NumbersConsumed /\ QueuedInSeqOrder

\* A step that starts no insert and no session consumes numbers at most.
LEMMA NumbersKept ==
  ASSUME HostInv, UNCHANGED nextSession,
         \A k \in Conns :
           job'[k] = None \/ /\ job[k] # None /\ job'[k].sid = job[k].sid
                             /\ job'[k].seq = job[k].seq,
         active' = None \/ /\ active # None /\ active'.sid = active.sid
                           /\ active'.lastSeq \in Nat
                           /\ active.lastSeq <= active'.lastSeq
  PROVE  NumbersConsumed'
<1> SUFFICES ASSUME NEW k \in Conns, job'[k] # None
             PROVE  /\ job'[k].sid < nextSession
                    /\ active' # None /\ active'.sid = job'[k].sid =>
                         job'[k].seq <= active'.lastSeq
  BY DEF HostInv, NumbersConsumed
<1>1. job[k] \in Job /\ job[k].seq \in Nat
  BY BoundsAssumption DEF HostInv, HostTypes, HostTypeOK, Job
<1>2. active # None => active.lastSeq \in Nat
  BY SessionFields, BoundsAssumption DEF HostInv, HostTypes
<1> QED
  BY <1>1, <1>2 DEF HostInv, NumbersConsumed

\* A step that leaves the handlers that await alone.
LEMMA NoWork ==
  ASSUME HostInv, UNCHANGED <<job, execQ, doneQ, injectorMode, desktop>>,
         helloFrom' \in [Conns -> Clients \cup {None}], acked' \subseteq OpId,
         WireTypeOK', SessionTypeOK', LedgerTypeOK', NumbersConsumed'
  PROVE  HostInv'
<1>1. HostTypeOK'
  BY DEF HostInv, HostTypes, HostTypeOK
<1>2. WorkerQueues' /\ QueuedInSeqOrder'
  BY DEF HostInv, WorkerQueues, QueuedInSeqOrder
<1> QED
  BY <1>1, <1>2 DEF HostInv, HostTypes

LEMMA FaultsLeft ==
  ASSUME HostInv,
         UNCHANGED faults \/ \E kind \in FaultKinds : Spend(kind)
  PROVE  faults' \in [FaultKinds -> Nat]
<1>1. faults \in [FaultKinds -> Nat]
  BY DEF HostInv, HostTypes, WireTypeOK
<1>2. ASSUME NEW kind \in FaultKinds, Spend(kind)
      PROVE  faults' \in [FaultKinds -> Nat]
  BY <1>1, <1>2 DEF Spend
<1> QED
  BY <1>1, <1>2

\* A message is read and answered, by a handler that does not await.
LEMMA AnswerTyped ==
  ASSUME HostInv, NEW k \in Conns, NEW type, Reads(k, type), Consumed(k),
         NEW m \in PhoneMsg, Emit(k, m), UNCHANGED <<link, faults>>
  PROVE  WireTypeOK'
BY ReadTyped, EmitTyped DEF HostInv, HostTypes, WireTypeOK

LEMMA OnHelloInv ==
  ASSUME HostInv, NEW k \in Conns, OnHello(k)
  PROVE  HostInv'
<1>1. WireTypeOK'
  BY AnswerTyped, RepliesTyped DEF OnHello
<1>2. helloFrom' \in [Conns -> Clients \cup {None}]
  <2>1. Head(toHost[k]).client \in Clients
    BY ReadTyped, OtherTyped DEF OnHello, Reads, HostInv, HostTypes
  <2> QED
    BY <2>1 DEF OnHello, HostInv, HostTypes, HostTypeOK
<1>3. SessionTypeOK' /\ LedgerTypeOK' /\ NumbersConsumed'
  BY DEF OnHello, sessionVars, ledgerVars, HostInv, HostTypes, SessionTypeOK,
         LedgerTypeOK, NumbersConsumed
<1> QED
  BY <1>1, <1>2, <1>3, NoWork DEF OnHello, HostInv, HostTypes, HostTypeOK

LEMMA OnAuthRefusedInv ==
  ASSUME HostInv, NEW k \in Conns, OnAuthRefused(k)
  PROVE  HostInv'
<1>1. WireTypeOK'
  BY AnswerTyped, RepliesTyped DEF OnAuthRefused, Reasons
<1>2. SessionTypeOK' /\ LedgerTypeOK' /\ NumbersConsumed'
  BY DEF OnAuthRefused, hostVars, sessionVars, ledgerVars, HostInv, HostTypes,
         SessionTypeOK, LedgerTypeOK, NumbersConsumed
<1> QED
  BY <1>1, <1>2, NoWork
     DEF OnAuthRefused, hostVars, HostInv, HostTypes, HostTypeOK

LEMMA OnAuthInv ==
  ASSUME HostInv, NEW k \in Conns, OnAuth(k)
  PROVE  HostInv'
<1> DEFINE c == helloFrom[k]
           mode == Head(toHost[k]).mode
           s == NewSession(c, mode)
<1>1. c \in Clients
  BY DEF OnAuth, HostInv, HostTypes, HostTypeOK
<1>2. mode \in Modes
  BY ReadTyped, OtherTyped DEF OnAuth, Reads, HostInv, HostTypes
<1>3. nextSession \in SessionIds /\ active' = s /\ nextSession' = nextSession + 1
  BY DEF OnAuth, Authenticate
<1>4. s \in Session /\ s.sid = nextSession
  BY <1>1, <1>2, <1>3, NewSessionTyped
<1>5. WireTypeOK'
  BY <1>2, <1>3, AnswerTyped, RepliesTyped DEF OnAuth
<1> HIDE DEF s
<1>6. SessionTypeOK'
  <2>1. nextSession' \in 1..MaxSession + 1
    BY <1>3, BoundsAssumption DEF SessionIds
  <2> QED
    BY <1>3, <1>4, <2>1 DEF SessionTypeOK
<1>7. NumbersConsumed'
  <2>1. nextSession \in Nat
    BY <1>3, BoundsAssumption DEF SessionIds
  <2> SUFFICES ASSUME NEW j \in Conns, job[j] # None
               PROVE  job[j].sid < nextSession + 1 /\ s.sid # job[j].sid
    BY <1>3, <1>4, <2>1 DEF NumbersConsumed, OnAuth, hostVars
  <2>2. job[j].sid \in Nat
    BY BoundsAssumption DEF HostInv, HostTypes, HostTypeOK, Job, SessionIds
  <2> QED
    BY <1>4, <2>1, <2>2 DEF HostInv, NumbersConsumed
<1>8. LedgerTypeOK'
  BY DEF OnAuth, ledgerVars, HostInv, HostTypes, LedgerTypeOK
<1> QED
  BY <1>5, <1>6, <1>7, <1>8, NoWork
     DEF OnAuth, hostVars, HostInv, HostTypes, HostTypeOK

LEMMA OnPingInv ==
  ASSUME HostInv, NEW k \in Conns, OnPing(k)
  PROVE  HostInv'
<1>1. WireTypeOK'
  BY AnswerTyped, RepliesTyped DEF OnPing, Invalid, Reasons
<1>2. SessionTypeOK' /\ NumbersConsumed'
  <2>1. CASE UNCHANGED sessionVars
    BY <2>1 DEF OnPing, sessionVars, hostVars, HostInv, HostTypes,
                SessionTypeOK, NumbersConsumed
  <2>2. CASE Valid(Head(toHost[k]).sid) /\ UpdateHeartbeat
    <3> DEFINE r == [active EXCEPT !.quiet = FALSE]
    <3>1. active \in Session /\ active # None /\ active.lastSeq \in Nat
      BY <2>2, SessionFields, BoundsAssumption DEF Valid, HostInv, HostTypes
    <3>2. r \in Session /\ r.sid = active.sid /\ r.lastSeq = active.lastSeq
      BY <3>1 DEF Session
    <3>3. active' = r /\ UNCHANGED nextSession
      BY <2>2 DEF UpdateHeartbeat
    <3> HIDE DEF r
    <3>4. SessionTypeOK'
      BY <3>2, <3>3 DEF HostInv, HostTypes, SessionTypeOK
    <3>5. \A j \in Conns : job'[j] = job[j]
      BY DEF OnPing, hostVars
    <3> QED
      BY <3>1, <3>2, <3>3, <3>4, <3>5, NumbersKept
  <2> QED
    BY <2>1, <2>2 DEF OnPing
<1>3. LedgerTypeOK'
  BY DEF OnPing, ledgerVars, HostInv, HostTypes, LedgerTypeOK
<1> QED
  BY <1>1, <1>2, <1>3, NoWork
     DEF OnPing, hostVars, HostInv, HostTypes, HostTypeOK

LEMMA RefuseInsertInv ==
  ASSUME HostInv, NEW k \in Conns, RefuseInsert(k)
  PROVE  HostInv'
<1> DEFINE m == Head(toHost[k])
           op == IF Validated(m) THEN m.op ELSE None
<1>1. m.seq \in 0..MaxOps + 1 /\ m.op \in OpId \cup {None}
  BY ReadTyped, InsertTyped DEF RefuseInsert, Reads, HostInv, HostTypes
<1>2. Ack(m.seq, op, FALSE) \in PhoneMsg
  <2>1. op \in OpId \cup {None}
    BY <1>1
  <2> HIDE DEF op
  <2> QED
    BY <1>1, <2>1, RepliesTyped
<1>3. WireTypeOK'
  BY <1>2, AnswerTyped DEF RefuseInsert
<1>4. LedgerTypeOK'
  <2>1. LedgerOf(LedgerSeen(m))
    BY TouchedSound DEF LedgerSeen, HostInv, HostTypes, LedgerTypeOK
  <2> QED
    BY <2>1 DEF RefuseInsert, HostInv, HostTypes, LedgerTypeOK
<1>5. SessionTypeOK' /\ NumbersConsumed'
  BY DEF RefuseInsert, sessionVars, hostVars, HostInv, HostTypes,
         SessionTypeOK, NumbersConsumed
<1> QED
  BY <1>3, <1>4, <1>5, NoWork
     DEF RefuseInsert, hostVars, HostInv, HostTypes, HostTypeOK

\* What an insert that is let through looks like, and what the session becomes.
LEMMA AcceptedInsert ==
  ASSUME HostInv, NEW k \in Conns, Reads(k, "text_insert"), Consumed(k),
         Verdict(Head(toHost[k])) \in {"match", "missing"}
  PROVE  LET m == Head(toHost[k])
             s == Advanced(active, m.seq)
         IN /\ m.seq \in 0..MaxOps + 1 /\ m.op \in OpId \cup {None}
            /\ m.text \in Texts /\ m.mode \in Modes \cup {None}
            /\ active \in Session /\ active # None
            /\ m.sid = active.sid /\ m.seq = active.lastSeq + 1
            /\ active.lastSeq \in Nat
            /\ s \in Session /\ s.sid = active.sid /\ s.lastSeq = m.seq
<1> DEFINE m == Head(toHost[k])
<1>1. m \in HostMsg /\ m.type = "text_insert"
  BY ReadTyped DEF Reads, HostInv, HostTypes
<1>2. WellFormed(m) /\ Valid(m.sid) /\ IsNextSeq(m.seq)
  BY VerdictMeans
<1> HIDE DEF m
<1>3. /\ m.seq \in 0..MaxOps + 1 /\ m.op \in OpId \cup {None}
      /\ m.text \in Texts /\ m.mode \in Modes \cup {None}
  BY <1>1, <1>2, InsertTyped DEF WellFormed
<1>4. /\ active \in Session /\ active # None /\ m.sid = active.sid
      /\ m.seq = active.lastSeq + 1 /\ active.lastSeq \in Nat
  BY <1>2, SessionFields, BoundsAssumption
     DEF Valid, IsNextSeq, HostInv, HostTypes
<1>5. LET s == Advanced(active, m.seq)
      IN s \in Session /\ s.sid = active.sid /\ s.lastSeq = m.seq
  BY <1>3, <1>4, AdvancedTyped
<1> QED
  BY <1>3, <1>4, <1>5 DEF m

LEMMA AckDuplicateInv ==
  ASSUME HostInv, NEW k \in Conns, AckDuplicate(k)
  PROVE  HostInv'
<1> DEFINE m == Head(toHost[k])
           s == Advanced(active, m.seq)
<1>1. Reads(k, "text_insert") /\ Consumed(k) /\ Verdict(m) = "match"
  BY DEF AckDuplicate
<1>2. /\ m.seq \in 0..MaxOps + 1 /\ m.op \in OpId /\ m.text \in Texts
      /\ active # None /\ active.lastSeq \in Nat /\ m.seq = active.lastSeq + 1
      /\ s \in Session /\ s.sid = active.sid /\ s.lastSeq = m.seq
  BY <1>1, AcceptedInsert, MatchMeans
<1>3. /\ Grown(s, m.text) \in Session /\ Grown(s, m.text).sid = active.sid
      /\ Grown(s, m.text).lastSeq = m.seq
  BY <1>2, GrownTyped
<1>4. active' = Grown(s, m.text) /\ UNCHANGED <<nextSession, job>>
  BY DEF AckDuplicate
<1>5. Ack(m.seq, m.op, TRUE) \in PhoneMsg
  BY <1>2, RepliesTyped
<1>6. WireTypeOK'
  BY <1>5, AnswerTyped DEF AckDuplicate
<1>7. LedgerTypeOK'
  <2>1. LedgerOf(LedgerSeen(m))
    BY TouchedSound DEF LedgerSeen, HostInv, HostTypes, LedgerTypeOK
  <2> QED
    BY <2>1 DEF AckDuplicate, HostInv, HostTypes, LedgerTypeOK
<1> HIDE DEF m, s
<1>8. SessionTypeOK'
  BY <1>3, <1>4 DEF SessionTypeOK, HostInv, HostTypes
<1>9. NumbersConsumed'
  <2>1. /\ active'.lastSeq \in Nat /\ active.lastSeq <= active'.lastSeq
        /\ active'.sid = active.sid
    BY <1>2, <1>3, <1>4, BoundsAssumption
  <2>2. \A j \in Conns : job'[j] = job[j]
    BY <1>4
  <2> QED
    BY <1>2, <1>4, <2>1, <2>2, NumbersKept
<1>10. acked' \subseteq OpId
  BY <1>2 DEF AckDuplicate, m, HostInv, HostTypes, HostTypeOK
<1> QED
  BY <1>6, <1>7, <1>8, <1>9, <1>10, NoWork
     DEF AckDuplicate, HostInv, HostTypes, HostTypeOK

\* The number of the new job is larger than those of its session in the queue.
LEMMA StartInsertInv ==
  ASSUME HostInv, NEW k \in Conns, StartInsert(k)
  PROVE  HostInv'
<1> DEFINE m == Head(toHost[k])
           s == Advanced(active, m.seq)
           mode == IF m.mode = None THEN active.mode ELSE m.mode
           j == [stage |-> "waiting", sid |-> m.sid, client |-> active.client,
                 seq |-> m.seq, op |-> m.op, text |-> m.text, mode |-> mode]
<1>1. Reads(k, "text_insert") /\ Consumed(k) /\ Verdict(m) = "missing"
  BY DEF StartInsert
<1>2. /\ m.seq \in 0..MaxOps + 1 /\ m.op \in OpId \cup {None}
      /\ m.text \in Texts /\ m.mode \in Modes \cup {None}
      /\ active \in Session /\ active # None
      /\ m.sid = active.sid /\ m.seq = active.lastSeq + 1
      /\ active.lastSeq \in Nat
      /\ s \in Session /\ s.sid = active.sid /\ s.lastSeq = m.seq
  BY <1>1, AcceptedInsert
<1>3. /\ active.sid \in SessionIds /\ active.client \in Clients
      /\ mode \in Modes
  BY <1>2 DEF Session
<1>4. /\ active' = s /\ UNCHANGED <<nextSession, ledgerVars>>
      /\ injectorMode' = mode
      /\ job' = [job EXCEPT ![k] = j] /\ job[k] = None
      /\ execQ' = Append(execQ, k)
      /\ UNCHANGED <<link, toPhone, faults, helloFrom, doneQ, desktop, acked>>
  BY DEF StartInsert, Reads
<1>5. WireTypeOK'
  BY <1>1, <1>4, ReadTyped DEF HostInv, HostTypes, WireTypeOK
<1> HIDE DEF m, s, mode
<1>6. /\ j \in Job /\ j.stage = "waiting" /\ j.sid = active.sid
      /\ j.seq = m.seq
  BY <1>2, <1>3 DEF Job
<1>7. j # None
  BY <1>6, NoneIsNoJob
<1> HIDE DEF j
<1>8. SessionTypeOK' /\ LedgerTypeOK'
  BY <1>2, <1>4 DEF HostInv, HostTypes, SessionTypeOK, LedgerTypeOK, ledgerVars
<1>9. WorkerQueues' /\ execQ' \in Seq(Conns)
  BY <1>4, <1>6, <1>7, StartQueues DEF HostInv, HostTypes
<1>10. HostTypeOK'
  BY <1>3, <1>4, <1>6, <1>9 DEF HostInv, HostTypes, HostTypeOK
<1>11. /\ job'[k] = j
       /\ \A c \in Conns \ {k} : job'[c] = job[c]
  BY <1>4 DEF HostInv, HostTypes, HostTypeOK
<1>12. \A c \in Conns : job[c] # None =>
         /\ job[c].seq \in Nat
         /\ job[c].sid = active.sid => job[c].seq < m.seq
  <2> SUFFICES ASSUME NEW c \in Conns, job[c] # None
               PROVE  /\ job[c].seq \in Nat
                      /\ job[c].sid = active.sid => job[c].seq < m.seq
    OBVIOUS
  <2>1. job[c].seq \in Nat
    BY BoundsAssumption DEF HostInv, HostTypes, HostTypeOK, Job
  <2>2. job[c].sid = active.sid => job[c].seq <= active.lastSeq
    BY <1>2 DEF HostInv, NumbersConsumed
  <2> QED
    BY <1>2, <2>1, <2>2
<1>13. NumbersConsumed'
  <2> SUFFICES ASSUME NEW c \in Conns, job'[c] # None
               PROVE  /\ job'[c].sid < nextSession
                      /\ s.sid = job'[c].sid => job'[c].seq <= s.lastSeq
    BY <1>2, <1>4 DEF HostInv, NumbersConsumed
  <2>1. CASE c = k
    BY <1>2, <1>6, <1>11, <2>1, BoundsAssumption DEF HostInv, NumbersConsumed
  <2>2. CASE c # k
    <3>1. job'[c] = job[c] /\ m.seq \in Nat
      BY <1>2, <1>11, <2>2
    <3> QED
      BY <1>2, <1>12, <3>1 DEF HostInv, NumbersConsumed
  <2> QED
    BY <2>1, <2>2
<1>14. QueuedInSeqOrder'
  <2>1. /\ DOMAIN execQ = 1..Len(execQ) /\ Len(execQ) \in Nat
        /\ DOMAIN execQ' = 1..Len(execQ) + 1
        /\ \A i \in 1..Len(execQ) : execQ'[i] = execQ[i]
        /\ execQ'[Len(execQ) + 1] = k
    BY <1>4, AppendProperties, LenProperties DEF HostInv, HostTypes, HostTypeOK
  <2>2. \A i \in DOMAIN execQ : execQ[i] \in Conns \ {k} /\ job[execQ[i]] # None
    BY <1>4, <2>1, ElementOfSeq DEF HostInv, HostTypes, HostTypeOK, WorkerQueues
  <2> SUFFICES ASSUME NEW a \in DOMAIN execQ', NEW b \in DOMAIN execQ', a < b,
                      job'[execQ'[a]].sid = job'[execQ'[b]].sid
               PROVE  job'[execQ'[a]].seq < job'[execQ'[b]].seq
    BY DEF QueuedInSeqOrder
  <2>3. a \in DOMAIN execQ /\ execQ'[a] = execQ[a] /\ job'[execQ'[a]] = job[execQ[a]]
    <3>1. a \in DOMAIN execQ
      BY <2>1
    <3> QED
      BY <1>11, <2>1, <2>2, <3>1
  <2>4. CASE b = Len(execQ) + 1
    BY <1>6, <1>11, <1>12, <2>1, <2>2, <2>3, <2>4
  <2>5. CASE b \in DOMAIN execQ
    <3>1. job'[execQ'[b]] = job[execQ[b]]
      BY <1>11, <2>1, <2>2, <2>5
    <3> QED
      BY <2>3, <2>5, <3>1 DEF HostInv, QueuedInSeqOrder
  <2> QED
    BY <2>1, <2>4, <2>5
<1> QED
  BY <1>5, <1>8, <1>9, <1>10, <1>13, <1>14 DEF HostInv, HostTypes

LEMMA RunInjectorInv ==
  ASSUME HostInv, RunInjector
  PROVE  HostInv'
<1> DEFINE k == Head(execQ)
<1>1. PICK stage \in {"injected", "failed"} :
        job' = [job EXCEPT ![k].stage = stage]
  BY DEF RunInjector
<1>2. /\ WorkerQueues' /\ execQ' \in Seq(Conns) /\ doneQ' \in Seq(Conns)
      /\ k \in Conns /\ job[k] \in Job
      /\ job' \in [Conns -> Job \cup {None}]
      /\ job'[k] = [job[k] EXCEPT !.stage = stage]
      /\ \A c \in Conns \ {k} : job'[c] = job[c]
  BY <1>1, MoveQueues DEF RunInjector, HostInv, HostTypes
<1>3. desktop' \in Seq(Typed)
  <2>1. CASE UNCHANGED desktop
    BY <2>1 DEF HostInv, HostTypes, HostTypeOK
  <2>2. CASE desktop' = Append(desktop,
               [client |-> job[k].client, op |-> job[k].op, text |-> job[k].text,
                mode |-> injectorMode])
    <3> DEFINE t == [client |-> job[k].client, op |-> job[k].op,
                     text |-> job[k].text, mode |-> injectorMode]
    <3>1. /\ job[k].client \in Clients /\ job[k].op \in OpId \cup {None}
          /\ job[k].text \in Texts /\ job[k].mode \in Modes
          /\ injectorMode \in Modes
      BY <1>2 DEF Job, HostInv, HostTypes, HostTypeOK
    <3>2. t \in Typed
      BY <3>1 DEF Typed
    <3> HIDE DEF t
    <3> QED
      BY <2>2, <3>2, AppendProperties DEF t, HostInv, HostTypes, HostTypeOK
  <2> QED
    BY <2>1, <2>2 DEF RunInjector
<1>4. WireTypeOK'
  <2>1. faults' \in [FaultKinds -> Nat]
    <3>1. UNCHANGED faults \/ Spend("inject")
      BY DEF RunInjector
    <3> QED
      BY <3>1, FaultsLeft DEF FaultKinds
  <2> QED
    BY <2>1 DEF RunInjector, wireVars, HostInv, HostTypes, WireTypeOK
<1>5. /\ SessionTypeOK' /\ LedgerTypeOK'
      /\ UNCHANGED <<active, nextSession, helloFrom, injectorMode, acked>>
  BY DEF RunInjector, sessionVars, ledgerVars, HostInv, HostTypes,
         SessionTypeOK, LedgerTypeOK
<1>6. HostTypeOK'
  BY <1>2, <1>3, <1>5 DEF HostInv, HostTypes, HostTypeOK
<1> HIDE DEF k
<1>7. \A c \in Conns :
        /\ job'[c] = None \/ job[c] # None
        /\ job[c] # None => job'[c].sid = job[c].sid /\ job'[c].seq = job[c].seq
  <2>1. /\ job'[k].sid = job[k].sid /\ job'[k].seq = job[k].seq
        /\ job[k] # None
    BY <1>2, NoneIsNoJob DEF Job
  <2> QED
    BY <1>2, <2>1
<1>8. NumbersConsumed'
  <2>1. active # None => active.lastSeq \in Nat /\ active.lastSeq <= active.lastSeq
    BY SessionFields, BoundsAssumption DEF HostInv, HostTypes
  <2> QED
    BY <1>5, <1>7, <2>1, NumbersKept
<1>9. QueuedInSeqOrder'
  <2>1. /\ DOMAIN execQ = 1..Len(execQ) /\ Len(execQ) \in Nat
        /\ DOMAIN execQ' = 1..Len(execQ) - 1
        /\ \A i \in 1..Len(execQ) - 1 : execQ'[i] = execQ[i + 1]
    BY HeadTailProperties, LenProperties
       DEF RunInjector, HostInv, HostTypes, HostTypeOK
  <2>2. \A i \in DOMAIN execQ : execQ[i] \in Conns /\ job[execQ[i]] # None
    BY <2>1, ElementOfSeq DEF HostInv, HostTypes, HostTypeOK, WorkerQueues
  <2> SUFFICES ASSUME NEW a \in DOMAIN execQ', NEW b \in DOMAIN execQ', a < b,
                      job'[execQ'[a]].sid = job'[execQ'[b]].sid
               PROVE  job'[execQ'[a]].seq < job'[execQ'[b]].seq
    BY DEF QueuedInSeqOrder
  <2>3. /\ a + 1 \in DOMAIN execQ /\ b + 1 \in DOMAIN execQ /\ a + 1 < b + 1
        /\ execQ'[a] = execQ[a + 1] /\ execQ'[b] = execQ[b + 1]
    BY <2>1
  <2>4. /\ job'[execQ'[a]].sid = job[execQ[a + 1]].sid
        /\ job'[execQ'[a]].seq = job[execQ[a + 1]].seq
        /\ job'[execQ'[b]].sid = job[execQ[b + 1]].sid
        /\ job'[execQ'[b]].seq = job[execQ[b + 1]].seq
    BY <1>7, <2>2, <2>3
  <2> QED
    BY <2>3, <2>4 DEF HostInv, QueuedInSeqOrder
<1> QED
  BY <1>2, <1>4, <1>5, <1>6, <1>8, <1>9 DEF HostInv, HostTypes

\* A handler is resumed: the first queue is as it was.
LEMMA ResumedInv ==
  ASSUME HostInv, NEW k \in Conns, NEW stage \in {"injected", "failed"},
         Resumes(k, stage), UNCHANGED <<execQ, nextSession>>,
         active' = None \/ /\ active # None /\ active'.sid = active.sid
                           /\ active'.lastSeq = active.lastSeq
  PROVE  /\ WorkerQueues' /\ NumbersConsumed' /\ QueuedInSeqOrder'
         /\ job' \in [Conns -> Job \cup {None}] /\ doneQ' \in Seq(Conns)
         /\ job[k] \in Job /\ job[k] # None
         /\ \A c \in Conns \ {k} : job'[c] = job[c]
         /\ job'[k] = None
<1>1. /\ WorkerQueues' /\ doneQ' \in Seq(Conns)
      /\ job[k] \in Job /\ job[k] # None
      /\ job' \in [Conns -> Job \cup {None}] /\ job'[k] = None
      /\ \A c \in Conns \ {k} : job'[c] = job[c]
  BY ResumeQueues DEF HostInv, HostTypes
<1>2. active # None => active.lastSeq \in Nat
  BY SessionFields, BoundsAssumption DEF HostInv, HostTypes
<1>3. NumbersConsumed'
  BY <1>1, <1>2, NumbersKept
<1>4. QueuedInSeqOrder'
  <2>1. \A i \in DOMAIN execQ : execQ[i] \in Conns /\ execQ[i] # k
    BY ElementOfSeq, LenProperties
       DEF Resumes, HostInv, HostTypes, HostTypeOK, WorkerQueues
  <2> QED
    BY <1>1, <2>1 DEF HostInv, QueuedInSeqOrder
<1> QED
  BY <1>1, <1>3, <1>4

LEMMA FinishInsertInv ==
  ASSUME HostInv, NEW k \in Conns, FinishInsert(k)
  PROVE  HostInv'
<1> DEFINE j == job[k]
           key == <<j.client, j.op>>
<1>1. /\ Resumes(k, "injected")
      /\ active' = IF Valid(j.sid) THEN Grown(active, j.text) ELSE active
      /\ \/ UNCHANGED <<ledgerVars, faults>>
         \/ /\ j.op # None
            /\ \/ RecordSkipped /\ UNCHANGED faults
               \/ RecordOk(key, j.text) /\ UNCHANGED faults
               \/ RecordFails(key, j.text) /\ Spend("persist")
      /\ acked' = acked \cup ({j.op} \ {None})
      /\ Emit(k, Ack(j.seq, j.op, TRUE))
      /\ UNCHANGED <<nextSession, link, toHost, helloFrom, execQ, injectorMode,
                     desktop>>
  BY DEF FinishInsert
<1>2. j \in Job
  BY <1>1, ResumeQueues DEF HostInv, HostTypes
<1>3. /\ j.seq \in 0..MaxOps + 1 /\ j.op \in OpId \cup {None}
      /\ j.text \in Texts /\ j.client \in Clients
  BY <1>2 DEF Job
<1>4. /\ active' \in Session \cup {None}
      /\ active' = None \/ /\ active # None /\ active'.sid = active.sid
                           /\ active'.lastSeq = active.lastSeq
  <2>1. CASE Valid(j.sid)
    <3>1. active \in Session /\ active # None
      BY <2>1 DEF Valid, HostInv, HostTypes, SessionTypeOK
    <3> QED
      BY <1>1, <1>3, <2>1, <3>1, GrownTyped
  <2>2. CASE ~Valid(j.sid)
    BY <1>1, <2>2 DEF HostInv, HostTypes, SessionTypeOK
  <2> QED
    BY <2>1, <2>2
<1>5. LedgerTypeOK'
  <2>1. CASE UNCHANGED ledgerVars
    BY <2>1 DEF ledgerVars, HostInv, HostTypes, LedgerTypeOK
  <2>2. CASE j.op # None /\ (RecordSkipped \/ RecordOk(key, j.text)
                                \/ RecordFails(key, j.text))
    <3>1. key \in Key
      BY <1>3, <2>2 DEF Key
    <3> QED
      BY <1>3, <2>2, <3>1, RecordSound DEF HostInv, HostTypes
  <2> QED
    BY <1>1, <2>1, <2>2
<1>6. WireTypeOK'
  <2>1. Ack(j.seq, j.op, TRUE) \in PhoneMsg
    BY <1>3, RepliesTyped
  <2>2. faults' \in [FaultKinds -> Nat]
    BY <1>1, FaultsLeft DEF FaultKinds
  <2> QED
    BY <1>1, <2>1, <2>2, EmitTyped DEF HostInv, HostTypes, WireTypeOK
<1>7. /\ WorkerQueues' /\ NumbersConsumed' /\ QueuedInSeqOrder'
      /\ job' \in [Conns -> Job \cup {None}] /\ doneQ' \in Seq(Conns)
  BY <1>1, <1>4, ResumedInv
<1>8. acked' \subseteq OpId
  BY <1>1, <1>3 DEF HostInv, HostTypes, HostTypeOK
<1>9. HostTypeOK'
  BY <1>1, <1>7, <1>8 DEF HostInv, HostTypes, HostTypeOK
<1> QED
  BY <1>1, <1>4, <1>5, <1>6, <1>7, <1>9
     DEF HostInv, HostTypes, SessionTypeOK

LEMMA FailInsertInv ==
  ASSUME HostInv, NEW k \in Conns, FailInsert(k)
  PROVE  HostInv'
<1> DEFINE j == job[k]
<1>1. /\ Resumes(k, "failed") /\ Emit(k, Ack(j.seq, j.op, FALSE))
      /\ UNCHANGED <<active, nextSession, ledger, diskLedger, unavailable, link,
                     toHost, faults, helloFrom, execQ, injectorMode, desktop,
                     acked>>
  BY DEF FailInsert, sessionVars, ledgerVars
<1>2. j \in Job
  BY <1>1, ResumeQueues DEF HostInv, HostTypes
<1>3. j.seq \in 0..MaxOps + 1 /\ j.op \in OpId \cup {None}
  BY <1>2 DEF Job
<1>4. Ack(j.seq, j.op, FALSE) \in PhoneMsg
  BY <1>3, RepliesTyped
<1>5. WireTypeOK'
  BY <1>1, <1>4, EmitTyped DEF HostInv, HostTypes, WireTypeOK
<1>6. /\ WorkerQueues' /\ NumbersConsumed' /\ QueuedInSeqOrder'
      /\ job' \in [Conns -> Job \cup {None}] /\ doneQ' \in Seq(Conns)
  BY <1>1, ResumedInv
<1>7. HostTypeOK' /\ SessionTypeOK' /\ LedgerTypeOK'
  BY <1>1, <1>6 DEF HostInv, HostTypes, HostTypeOK, SessionTypeOK, LedgerTypeOK
<1> QED
  BY <1>5, <1>6, <1>7 DEF HostInv, HostTypes

\* The session times out, or goes quiet.
LEMMA TimeInv ==
  ASSUME HostInv, HeartbeatGuard \/ QuietPeriod
  PROVE  HostInv'
<1>1. /\ UNCHANGED <<nextSession, job, execQ, doneQ, helloFrom, injectorMode,
                     desktop, acked, ledger, diskLedger, unavailable, link,
                     toHost, toPhone>>
      /\ UNCHANGED faults \/ Spend("quiet")
      /\ active' = None \/ /\ active # None
                           /\ active' = [active EXCEPT !.quiet = TRUE]
  BY DEF HeartbeatGuard, DropQuietSession, QuietPeriod, Quieten, ledgerVars,
         hostVars, wireVars
<1>2. WireTypeOK'
  <2>1. faults' \in [FaultKinds -> Nat]
    BY <1>1, FaultsLeft DEF FaultKinds
  <2> QED
    BY <1>1, <2>1 DEF HostInv, HostTypes, WireTypeOK
<1>3. active' = None \/ /\ active # None /\ active' \in Session
                        /\ active'.sid = active.sid
                        /\ active'.lastSeq = active.lastSeq
                        /\ active.lastSeq \in Nat
  <2> SUFFICES ASSUME active # None, active' = [active EXCEPT !.quiet = TRUE]
               PROVE  /\ active' \in Session /\ active'.sid = active.sid
                      /\ active'.lastSeq = active.lastSeq
                      /\ active.lastSeq \in Nat
    BY <1>1
  <2>1. active \in Session /\ active.lastSeq \in Nat
    BY SessionFields, BoundsAssumption DEF HostInv, HostTypes
  <2> QED
    BY <2>1 DEF Session
<1>4. SessionTypeOK' /\ LedgerTypeOK'
  BY <1>1, <1>3 DEF HostInv, HostTypes, SessionTypeOK, LedgerTypeOK
<1>5. NumbersConsumed'
  BY <1>1, <1>3, NumbersKept
<1> QED
  BY <1>1, <1>2, <1>4, <1>5, NoWork DEF HostInv, HostTypes, HostTypeOK

LEMMA RestartInv ==
  ASSUME HostInv, RestartHost \/ RestartHostUnreadable
  PROVE  HostInv'
<1>1. Restarted /\ (LoadOk \/ LoadFails) /\ faults' \in [FaultKinds -> Nat]
  <2>1. Restarted /\ (LoadOk \/ LoadFails)
    BY DEF RestartHost, RestartHostUnreadable
  <2>2. Spend("crash") \/ Spend("load")
    BY DEF RestartHost, RestartHostUnreadable
  <2>3. "crash" \in FaultKinds /\ "load" \in FaultKinds
    BY DEF FaultKinds
  <2>4. faults' \in [FaultKinds -> Nat]
    BY <2>2, <2>3, FaultsLeft
  <2> QED
    BY <2>1, <2>4
<1>2. LedgerTypeOK'
  BY <1>1, LoadSound DEF HostInv, HostTypes
<1>3. SessionTypeOK'
  BY <1>1 DEF Restarted, HostInv, HostTypes, SessionTypeOK
<1>4. WireTypeOK'
  <2>1. toHost' \in [Conns -> Seq(HostMsg)]
    BY <1>1, EmptySeq DEF Restarted
  <2>2. link' \in [Conns -> LinkState]
    BY <1>1 DEF Restarted, HostInv, HostTypes, WireTypeOK, LinkState
  <2> QED
    BY <1>1, <2>1, <2>2 DEF Restarted, HostInv, HostTypes, WireTypeOK
<1>5. /\ job' = [c \in Conns |-> None] /\ execQ' = <<>> /\ doneQ' = <<>>
      /\ active' = None
  BY <1>1 DEF Restarted
<1>6. HostTypeOK'
  BY <1>1, EmptySeq, NoneAssumption DEF Restarted, HostInv, HostTypes, HostTypeOK
<1>7. WorkerQueues' /\ NumbersConsumed' /\ QueuedInSeqOrder'
  <2>1. DOMAIN execQ' = {} /\ DOMAIN doneQ' = {}
    BY <1>5
  <2> QED
    BY <1>5, <2>1 DEF WorkerQueues, NumbersConsumed, QueuedInSeqOrder, IsInjective
<1> QED
  BY <1>2, <1>3, <1>4, <1>6, <1>7 DEF HostInv, HostTypes

\* Every step of the host, whatever it is asked.
LEMMA HostStepInv ==
  ASSUME HostInv, HostNext
  PROVE  HostInv'
<1>1. ASSUME NEW k \in Conns, HostConnNext(k)
      PROVE  HostInv'
  BY <1>1, OnHelloInv, OnAuthRefusedInv, OnAuthInv, OnPingInv, RefuseInsertInv,
     AckDuplicateInv, StartInsertInv, FinishInsertInv, FailInsertInv
     DEF HostConnNext
<1> QED
  BY <1>1, RunInjectorInv, TimeInv, RestartInv DEF HostNext

-----------------------------------------------------------------------------
(* What is acknowledged has been typed.                                    *)

Truthful == RecordedIsInjected /\ AckImpliesInjected

\* A reply that is no successful ACK of an operation that was not typed.
LEMMA TruthfulReply ==
  ASSUME HostInv, Truthful, UNCHANGED desktop,
         NEW k \in Conns, NEW m \in PhoneMsg, Emit(k, m),
         m.type = "ack" /\ m.ok => m.op \in Injected
  PROVE  AckImpliesInjected'
<1>1. Injected' = Injected
  BY DEF Injected
<1>2. \A j \in Conns : \A i \in DOMAIN toPhone'[j] :
        \/ i \in DOMAIN toPhone[j] /\ toPhone'[j][i] = toPhone[j][i]
        \/ toPhone'[j][i] = m
  BY EmitTyped DEF HostInv, HostTypes
<1> QED
  BY <1>1, <1>2 DEF Truthful, AckImpliesInjected

\* A step that records nothing but what was typed, and types nothing.
LEMMA TruthfulRecord ==
  ASSUME Truthful, UNCHANGED desktop,
         \A x \in Keys(ledger') \cup Keys(diskLedger') :
           x \in Keys(ledger) \cup Keys(diskLedger) \/ x[2] \in Injected,
         \A k \in Conns : \/ job'[k] = None \/ job'[k].stage # "injected"
                          \/ job'[k] = job[k]
  PROVE  RecordedIsInjected' /\ Injected' = Injected
<1>1. Injected' = Injected
  BY DEF Injected
<1>2. \A x \in Keys(ledger') \cup Keys(diskLedger') : x[2] \in Injected
  BY DEF Truthful, RecordedIsInjected
<1>3. \A k \in Conns :
        job'[k] # None /\ job'[k].stage = "injected" => job'[k].op \in Injected
  BY DEF Truthful, RecordedIsInjected
<1>4. Keys(ledger)' = Keys(ledger') /\ Keys(diskLedger)' = Keys(diskLedger')
  BY DEF Keys
<1> QED
  BY <1>1, <1>2, <1>3, <1>4 DEF RecordedIsInjected

LEMMA TruthfulAnswer ==
  ASSUME HostInv, Truthful, NEW k \in Conns,
         \/ OnHello(k) \/ OnAuthRefused(k) \/ OnAuth(k) \/ OnPing(k)
         \/ RefuseInsert(k) \/ AckDuplicate(k)
  PROVE  Truthful' /\ Injected' = Injected
<1>1. UNCHANGED <<desktop, job, diskLedger>>
  BY DEF OnHello, OnAuthRefused, OnAuth, OnPing, RefuseInsert, AckDuplicate,
         ledgerVars, hostVars
<1>2. Keys(ledger') = Keys(ledger)
  <2>1. CASE UNCHANGED ledgerVars
    BY <2>1 DEF ledgerVars
  <2>2. CASE ledger' = LedgerSeen(Head(toHost[k]))
    BY <2>2, TouchedSound DEF LedgerSeen, HostInv, HostTypes
  <2> QED
    BY <2>1, <2>2 DEF OnHello, OnAuthRefused, OnAuth, OnPing, RefuseInsert,
                      AckDuplicate
<1>3. RecordedIsInjected' /\ Injected' = Injected
  BY <1>1, <1>2, TruthfulRecord
<1>4. AckImpliesInjected'
  <2>1. CASE OnHello(k) \/ OnAuthRefused(k)
    BY <1>1, <2>1, TruthfulReply, RepliesTyped
       DEF OnHello, OnAuthRefused, HelloOk, Error, Reasons
  <2>2. CASE OnPing(k)
    BY <1>1, <2>2, TruthfulReply, RepliesTyped
       DEF OnPing, Pong, Error, Invalid, Reasons
  <2>3. CASE OnAuth(k)
    <3> DEFINE mode == Head(toHost[k]).mode
    <3>1. mode \in Modes
      BY <2>3, ReadTyped, OtherTyped DEF OnAuth, Reads, HostInv, HostTypes
    <3>2. nextSession \in SessionIds /\ Emit(k, AuthOk(nextSession, mode))
      BY <2>3 DEF OnAuth, Authenticate
    <3>3. AuthOk(nextSession, mode).type # "ack"
      BY DEF AuthOk
    <3> QED
      BY <1>1, <3>1, <3>2, <3>3, TruthfulReply, RepliesTyped
  <2>4. CASE RefuseInsert(k)
    <3> DEFINE m == Head(toHost[k])
               op == IF Validated(m) THEN m.op ELSE None
    <3>1. m.seq \in 0..MaxOps + 1 /\ op \in OpId \cup {None}
      BY <2>4, ReadTyped, InsertTyped DEF RefuseInsert, Reads, HostInv, HostTypes
    <3>2. Emit(k, Ack(m.seq, op, FALSE))
      BY <2>4 DEF RefuseInsert
    <3> HIDE DEF op
    <3>3. Ack(m.seq, op, FALSE) \in PhoneMsg /\ ~Ack(m.seq, op, FALSE).ok
      BY <3>1, RepliesTyped DEF Ack
    <3> QED
      BY <1>1, <3>2, <3>3, TruthfulReply
  <2>5. CASE AckDuplicate(k)
    <3> DEFINE m == Head(toHost[k])
    <3>1. m.seq \in 0..MaxOps + 1 /\ m.op \in OpId /\ Verdict(m) = "match"
      BY <2>5, AcceptedInsert, MatchMeans DEF AckDuplicate
    <3>2. m.op \in Injected
      <4>1. KeyOf(m) \in Keys(ledger) /\ KeyOf(m)[2] = m.op
        BY <3>1, MatchMeans DEF KeyOf
      <4> QED
        BY <4>1 DEF Truthful, RecordedIsInjected
    <3>3. /\ Ack(m.seq, m.op, TRUE) \in PhoneMsg
          /\ Ack(m.seq, m.op, TRUE).op = m.op
      BY <3>1, RepliesTyped DEF Ack
    <3> QED
      BY <1>1, <2>5, <3>2, <3>3, TruthfulReply DEF AckDuplicate
  <2> QED
    BY <2>1, <2>2, <2>3, <2>4, <2>5
<1> QED
  BY <1>3, <1>4 DEF Truthful

\* What the worker has typed it has typed: the desktop only grows.
LEMMA TruthfulInjector ==
  ASSUME HostInv, Truthful, RunInjector
  PROVE  Truthful' /\ Injected \subseteq Injected'
<1> DEFINE k == Head(execQ)
           t == [client |-> job[k].client, op |-> job[k].op,
                 text |-> job[k].text, mode |-> injectorMode]
<1>1. PICK stage \in {"injected", "failed"} :
        /\ job' = [job EXCEPT ![k].stage = stage]
        /\ \/ stage = "injected" /\ desktop' = Append(desktop, t)
           \/ stage = "failed" /\ UNCHANGED desktop
  BY DEF RunInjector
<1>2. /\ k \in Conns /\ job[k] \in Job
      /\ job'[k] = [job[k] EXCEPT !.stage = stage]
      /\ \A c \in Conns \ {k} : job'[c] = job[c]
  BY <1>1, MoveQueues DEF RunInjector, HostInv, HostTypes
<1>3. UNCHANGED <<ledger, diskLedger, toPhone>>
  BY DEF RunInjector, ledgerVars, wireVars
<1>4. /\ Injected \subseteq Injected'
      /\ stage = "injected" => job[k].op \in Injected'
  <2>1. CASE UNCHANGED desktop /\ stage = "failed"
    BY <2>1 DEF Injected
  <2>2. CASE desktop' = Append(desktop, t)
    <3>1. desktop' \in Seq(Typed) /\ desktop \in Seq(Typed)
      BY <1>2, RunInjectorInv DEF HostInv, HostTypes, HostTypeOK
    <3>2. t.op = job[k].op
      OBVIOUS
    <3> HIDE DEF t
    <3>3. /\ DOMAIN desktop = 1..Len(desktop) /\ Len(desktop) \in Nat
          /\ DOMAIN desktop' = 1..Len(desktop) + 1
          /\ \A i \in 1..Len(desktop) : desktop'[i] = desktop[i]
          /\ desktop'[Len(desktop) + 1] = t
      BY <2>2, <3>1, LenProperties
    <3>4. /\ \A i \in DOMAIN desktop : i \in DOMAIN desktop' /\ desktop'[i] = desktop[i]
          /\ Len(desktop) + 1 \in DOMAIN desktop'
      BY <3>3
    <3> QED
      BY <3>2, <3>3, <3>4 DEF Injected
  <2> QED
    BY <1>1, <2>1, <2>2
<1> HIDE DEF k, t
<1>5. RecordedIsInjected'
  <2>1. \A c \in Conns : job'[c] # None /\ job'[c].stage = "injected"
                           => job'[c].op \in Injected'
    <3> SUFFICES ASSUME NEW c \in Conns, job'[c] # None, job'[c].stage = "injected"
                 PROVE  job'[c].op \in Injected'
      OBVIOUS
    <3>1. CASE c = k
      <4>1. job'[c].op = job[k].op /\ stage = "injected"
        BY <1>2, <3>1 DEF Job
      <4> QED
        BY <1>4, <4>1
    <3>2. CASE c # k
      BY <1>2, <1>4, <3>2 DEF Truthful, RecordedIsInjected
    <3> QED
      BY <3>1, <3>2
  <2>2. \A x \in Keys(ledger) \cup Keys(diskLedger) : x[2] \in Injected'
    BY <1>4 DEF Truthful, RecordedIsInjected
  <2>3. Keys(ledger)' = Keys(ledger) /\ Keys(diskLedger)' = Keys(diskLedger)
    BY <1>3 DEF Keys
  <2> QED
    BY <2>1, <2>2, <2>3 DEF RecordedIsInjected
<1>6. AckImpliesInjected'
  BY <1>3, <1>4 DEF Truthful, AckImpliesInjected
<1> QED
  BY <1>4, <1>5, <1>6 DEF Truthful

LEMMA TruthfulFinish ==
  ASSUME HostInv, Truthful, NEW k \in Conns, FinishInsert(k) \/ FailInsert(k)
  PROVE  Truthful' /\ Injected' = Injected
<1> DEFINE j == job[k]
           key == <<j.client, j.op>>
<1>1. PICK stage \in {"injected", "failed"} :
        /\ Resumes(k, stage)
        /\ Emit(k, Ack(j.seq, j.op, stage = "injected"))
        /\ stage = "failed" => UNCHANGED ledgerVars
        /\ UNCHANGED <<desktop, execQ>>
  <2>1. CASE FinishInsert(k)
    BY <2>1 DEF FinishInsert
  <2>2. CASE FailInsert(k)
    BY <2>2 DEF FailInsert
  <2> QED
    BY <2>1, <2>2
<1>2. /\ j \in Job /\ j # None /\ j.stage = stage
      /\ \A c \in Conns \ {k} : job'[c] = job[c]
      /\ job'[k] = None
  BY <1>1, ResumeQueues DEF HostInv, HostTypes, Resumes
<1>3. /\ j.seq \in 0..MaxOps + 1 /\ j.op \in OpId \cup {None}
      /\ j.text \in Texts /\ j.client \in Clients
  BY <1>2 DEF Job
<1>4. stage = "injected" => j.op \in Injected
  BY <1>2 DEF Truthful, RecordedIsInjected
<1>5. \A x \in Keys(ledger') \cup Keys(diskLedger') :
        x \in Keys(ledger) \cup Keys(diskLedger) \/ x[2] \in Injected
  <2>1. CASE UNCHANGED ledgerVars
    BY <2>1 DEF ledgerVars
  <2>2. CASE /\ FinishInsert(k) /\ j.op # None
             /\ RecordSkipped \/ RecordOk(key, j.text) \/ RecordFails(key, j.text)
    <3>1. key \in Key /\ key[2] \in Injected
      <4>1. stage = "injected"
        BY <1>2, <2>2 DEF FinishInsert, Resumes
      <4> QED
        BY <1>3, <1>4, <2>2, <4>1 DEF Key
    <3>2. Keys(ledger') \cup Keys(diskLedger')
            \subseteq Keys(ledger) \cup Keys(diskLedger) \cup {key}
      BY <1>3, <2>2, <3>1, RecordSound DEF HostInv, HostTypes
    <3> QED
      BY <3>1, <3>2
  <2> QED
    BY <2>1, <2>2 DEF FinishInsert, FailInsert
<1>6. RecordedIsInjected' /\ Injected' = Injected
  BY <1>1, <1>2, <1>5, TruthfulRecord
<1>7. AckImpliesInjected'
  <2> DEFINE m == Ack(j.seq, j.op, stage = "injected")
  <2>1. m \in PhoneMsg /\ (m.ok => m.op \in Injected)
    BY <1>3, <1>4, RepliesTyped DEF Ack
  <2> QED
    BY <1>1, <2>1, TruthfulReply
<1> QED
  BY <1>6, <1>7 DEF Truthful

\* Every step of the host tells the truth, if the host did so far.
LEMMA HostStepTruthful ==
  ASSUME HostInv, Truthful, HostNext
  PROVE  Truthful' /\ Injected \subseteq Injected'
<1>1. ASSUME NEW k \in Conns, StartInsert(k)
      PROVE  Truthful' /\ Injected' = Injected
  <2>1. /\ UNCHANGED <<desktop, ledger, diskLedger, toPhone>>
        /\ job'[k].stage = "waiting"
        /\ \A c \in Conns \ {k} : job'[c] = job[c]
    BY <1>1 DEF StartInsert, ledgerVars, HostInv, HostTypes, HostTypeOK
  <2>2. RecordedIsInjected' /\ Injected' = Injected
    BY <2>1, TruthfulRecord
  <2> QED
    BY <2>1, <2>2 DEF Truthful, AckImpliesInjected
<1>2. ASSUME HeartbeatGuard \/ QuietPeriod
      PROVE  Truthful' /\ Injected' = Injected
  <2>1. UNCHANGED <<desktop, ledger, diskLedger, toPhone, job>>
    BY <1>2 DEF HeartbeatGuard, QuietPeriod, ledgerVars, hostVars, wireVars
  <2>2. RecordedIsInjected' /\ Injected' = Injected
    BY <2>1, TruthfulRecord
  <2> QED
    BY <2>1, <2>2 DEF Truthful, AckImpliesInjected
<1>3. ASSUME RestartHost \/ RestartHostUnreadable
      PROVE  Truthful' /\ Injected' = Injected
  <2>1. /\ UNCHANGED <<desktop, toPhone>>
        /\ \A c \in Conns : job'[c] = None
        /\ LoadOk \/ LoadFails
    BY <1>3 DEF RestartHost, RestartHostUnreadable, Restarted
  <2>2. Keys(ledger') \cup Keys(diskLedger') \subseteq Keys(diskLedger)
    BY <2>1, LoadSound DEF HostInv, HostTypes
  <2>3. RecordedIsInjected' /\ Injected' = Injected
    BY <2>1, <2>2, TruthfulRecord
  <2> QED
    BY <2>1, <2>3 DEF Truthful, AckImpliesInjected
<1>4. ASSUME NEW k \in Conns, HostConnNext(k)
      PROVE  Truthful' /\ Injected' = Injected
  BY <1>1, <1>4, TruthfulAnswer, TruthfulFinish DEF HostConnNext
<1> QED
  BY <1>2, <1>3, <1>4, TruthfulInjector DEF HostNext

-----------------------------------------------------------------------------
(* The ledger is touched by a validated insert, by a successful injection  *)
(* and by a restart, and by nothing else.                                  *)

LEMMA HostStepLedger ==
  ASSUME HostInv, LedgerInv, HostNext
  PROVE  LedgerInv'
<1>1. ASSUME UNCHANGED ledgerVars
      PROVE  LedgerInv'
  BY <1>1 DEF ledgerVars, LedgerInv, SameKnown, Persisted, Only, Keys
<1>2. ASSUME NEW k \in Conns, RefuseInsert(k) \/ AckDuplicate(k)
      PROVE  LedgerInv'
  <2>1. PICK m : ledger' = LedgerSeen(m)
    BY <1>2 DEF RefuseInsert, AckDuplicate
  <2>2. UNCHANGED <<diskLedger, unavailable>>
    BY <1>2 DEF RefuseInsert, AckDuplicate
  <2>3. CASE ledger' = ledger
    BY <1>1, <2>2, <2>3 DEF ledgerVars
  <2>4. CASE ledger' = Touched(KeyOf(m))
    BY <2>2, <2>4, TouchedInv
  <2> QED
    BY <2>1, <2>3, <2>4 DEF LedgerSeen
<1>3. ASSUME NEW k \in Conns, FinishInsert(k)
      PROVE  LedgerInv'
  <2> DEFINE key == <<job[k].client, job[k].op>>
  <2>1. Resumes(k, "injected") /\ UNCHANGED execQ
    BY <1>3 DEF FinishInsert
  <2>2. job[k] \in Job
    BY <2>1, ResumeQueues DEF HostInv, HostTypes
  <2>3. /\ job[k].op \in OpId \cup {None}
        /\ job[k].text \in Texts /\ job[k].client \in Clients
    BY <2>2 DEF Job
  <2>4. CASE UNCHANGED ledgerVars
    BY <1>1, <2>4
  <2>5. CASE /\ job[k].op # None
             /\ \/ RecordSkipped \/ RecordOk(key, job[k].text)
                \/ RecordFails(key, job[k].text)
    <3>1. key \in Key
      BY <2>3, <2>5 DEF Key
    <3> QED
      BY <2>3, <2>5, <3>1, RecordInv
  <2> QED
    BY <1>3, <2>4, <2>5 DEF FinishInsert
<1>4. ASSUME RestartHost \/ RestartHostUnreadable
      PROVE  LedgerInv'
  BY <1>4, LoadInv DEF RestartHost, RestartHostUnreadable, LedgerInv
<1>5. ASSUME NEW k \in Conns, HostConnNext(k)
      PROVE  LedgerInv'
  <2>1. CASE \/ OnHello(k) \/ OnAuthRefused(k) \/ OnAuth(k) \/ OnPing(k)
             \/ StartInsert(k) \/ FailInsert(k)
    BY <1>1, <2>1 DEF OnHello, OnAuthRefused, OnAuth, OnPing, StartInsert, FailInsert
  <2> QED
    BY <1>2, <1>3, <1>5, <2>1 DEF HostConnNext
<1>6. CASE RunInjector \/ HeartbeatGuard \/ QuietPeriod
  BY <1>1, <1>6 DEF RunInjector, HeartbeatGuard, QuietPeriod
<1> QED
  BY <1>4, <1>5, <1>6 DEF HostNext

LEMMA LedgerInvSound == LedgerInv => LedgerSound
<1> SUFFICES ASSUME LedgerInv, NEW l \in {ledger, diskLedger}
             PROVE  /\ \A x, y \in Keys(l) :
                         IF x = y THEN <<x, y>> \notin l.older
                         ELSE <<x, y>> \in l.older <=> <<y, x>> \notin l.older
                    /\ \A a, b \in l.older : a[2] = b[1] => <<a[1], b[2]>> \in l.older
                    /\ Cardinality(Keys(l)) <= MaxEntries
  BY DEF LedgerSound
<1>1. LedgerOf(l) /\ Orders(l.older, Keys(l)) /\ Cardinality(Keys(l)) <= MaxEntries
  BY DEF LedgerInv, Fits, InOrder
<1>2. \A a \in l.older : a = <<a[1], a[2]>> /\ a[1] \in Keys(l) /\ a[2] \in Keys(l)
  BY <1>1 DEF LedgerOf
<1> QED
  BY <1>1, <1>2 DEF Orders
=============================================================================
