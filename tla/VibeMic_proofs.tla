--------------------------- MODULE VibeMic_proofs ---------------------------
(***************************************************************************)
(* The phones, the wire and the host together lose no text, and deliver it *)
(* in order: they implement TextDelivery.                                  *)
(*                                                                         *)
(* The argument: a successful ACK under way is of an operation that was    *)
(* typed (Truthful), because the host acknowledges what the worker has     *)
(* just typed or what its ledger knows, and the ledger knows what was      *)
(* typed; a phone takes a chunk off its queue only when it hears the       *)
(* successful ACK of that chunk (Removed in PhoneStepLemma); and neither   *)
(* the desktop nor what was appended ever shrinks.                         *)
(*                                                                         *)
(* Then order (Ordered), the numbering of the two ends (StepInv), the      *)
(* owners of connections and operations (OwnerInv) and, resting on all of  *)
(* these, what the ledger knows (FileInv, MemoryInv).                      *)
(***************************************************************************)
EXTENDS VibeMic, BothSides_proofs

Inv == PhoneInv /\ HostInv /\ Truthful /\ NoSilentLoss

LEMMA InitInv == Init => Inv
<1> SUFFICES ASSUME Init PROVE Inv
  OBVIOUS
<1>1. PhoneInv /\ WireTypeOK
  BY PhoneInitLemma, WireInitLemma DEF Init
<1>2. SessionTypeOK /\ LedgerTypeOK /\ HostTypeOK
  <2>1. SessionTypeOK
    BY BoundsAssumption DEF Init, SessionInit, SessionTypeOK
  <2>2. LedgerTypeOK
    BY EmptyLedgerSound DEF Init, LedgerInit, LedgerTypeOK
  <2>3. HostTypeOK
    BY EmptySeq, NoneAssumption DEF Init, HostInit, HostTypeOK
  <2> QED
    BY <2>1, <2>2, <2>3
<1>3. WorkerQueues /\ NumbersConsumed /\ QueuedInSeqOrder
  <2>1. /\ job = [k \in Conns |-> None] /\ active = None
        /\ execQ = <<>> /\ doneQ = <<>>
    BY DEF Init, SessionInit, HostInit
  <2>2. DOMAIN execQ = {} /\ DOMAIN doneQ = {}
    BY <2>1
  <2> QED
    BY <2>1, <2>2 DEF WorkerQueues, NumbersConsumed, QueuedInSeqOrder, IsInjective
<1>4. Truthful
  <2>1. RecordedIsInjected
    BY EmptyLedgerSound DEF Init, LedgerInit, HostInit, RecordedIsInjected
  <2>2. AckImpliesInjected
    BY DEF Init, WireInit, AckImpliesInjected
  <2> QED
    BY <2>1, <2>2 DEF Truthful
<1>5. NoSilentLoss
  BY DEF Init, PhoneInit, NoSilentLoss
<1> QED
  BY <1>1, <1>2, <1>3, <1>4, <1>5 DEF Inv, HostInv, HostTypes

\* What the host has sent can only be read, or lost.
LEMMA ReadingIsTruthful ==
  ASSUME WireTypeOK, WireTypeOK', AckImpliesInjected, OnlyRead(toPhone'),
         UNCHANGED desktop
  PROVE  AckImpliesInjected'
<1> SUFFICES ASSUME NEW k \in Conns, NEW i \in DOMAIN toPhone'[k],
                    toPhone'[k][i].type = "ack", toPhone'[k][i].ok
             PROVE  toPhone'[k][i].op \in Injected
  BY DEF AckImpliesInjected, Injected
<1>1. CASE toPhone'[k] = toPhone[k]
  BY <1>1 DEF AckImpliesInjected
<1>2. CASE toPhone'[k] = <<>>
  BY <1>2
<1>3. CASE toPhone[k] # <<>> /\ toPhone'[k] = Tail(toPhone[k])
  <2>1. /\ DOMAIN toPhone'[k] = 1..Len(toPhone[k]) - 1
        /\ \A j \in 1..Len(toPhone[k]) - 1 : toPhone'[k][j] = toPhone[k][j + 1]
        /\ DOMAIN toPhone[k] = 1..Len(toPhone[k]) /\ Len(toPhone[k]) \in Nat
    BY <1>3, HeadTailProperties, LenProperties DEF WireTypeOK
  <2>2. i + 1 \in DOMAIN toPhone[k] /\ toPhone'[k][i] = toPhone[k][i + 1]
    BY <2>1
  <2> QED
    BY <2>2 DEF AckImpliesInjected
<1> QED
  BY <1>1, <1>2, <1>3 DEF OnlyRead

\* A chunk that leaves the queue has been typed.
LEMMA RemovedIsTyped ==
  ASSUME PhoneInv, WireTypeOK, AckImpliesInjected, NEW p \in Clients, Removed(p)
  PROVE  <<p, Head(phone[p].queue)>> \in Injected
<1> DEFINE Q == phone[p].queue
           k == phone[p].sock
<1>1. /\ Head(Q) = phone[p].inflight /\ Hears(p, "ack")
      /\ MatchesInflight(p, Heard(p))
  BY DEF Removed
<1>2. k \in Conns
  BY <1>1, SockInUse DEF Hears, PhoneInv
<1>3. toPhone[k] \in Seq(PhoneMsg) /\ toPhone[k] # <<>>
  BY <1>1, <1>2 DEF Hears, WireTypeOK
<1>4. 1 \in DOMAIN toPhone[k] /\ toPhone[k][1] = Heard(p)
  BY <1>3, HeadTailProperties, LenProperties, EmptySeq DEF Heard
<1>5. Heard(p).type = "ack" /\ Heard(p).ok /\ Heard(p).op = <<p, Head(Q)>>
  BY <1>1 DEF Hears, Heard, MatchesInflight
<1> QED
  BY <1>2, <1>4, <1>5 DEF AckImpliesInjected

\* A phone's step: what it takes off its queue is on the desktop.
LEMMA PhoneLosesNothing ==
  ASSUME PhoneInv, WireTypeOK, AckImpliesInjected, NoSilentLoss,
         NEW p \in Clients, Kept(p) \/ Appended(p) \/ Removed(p),
         \A q \in Clients \ {p} : phone'[q] = phone[q], UNCHANGED desktop
  PROVE  NoSilentLoss'
<1> SUFFICES ASSUME NEW q \in Clients, NEW n \in 1..phone'[q].submitted
             PROVE  n \in Queued(q)' \/ <<q, n>> \in Injected
  BY DEF NoSilentLoss, Injected
<1>1. /\ phone[q].queue \in Seq(1..MaxOps) /\ Len(phone[q].queue) \in Nat
      /\ phone[q].submitted \in Nat
      /\ DOMAIN phone[q].queue = 1..Len(phone[q].queue)
  BY SoundFields, LenProperties DEF PhoneInv
<1>2. CASE /\ phone'[q].queue = phone[q].queue
           /\ phone'[q].submitted = phone[q].submitted
  BY <1>2 DEF NoSilentLoss, Queued
<1>3. CASE q = p /\ Appended(p)
  <2> DEFINE m == phone[p].submitted + 1
             Q == phone[p].queue
             S == 1..MaxOps \cup {m}
  <2>1. /\ phone'[p].submitted = m /\ phone'[p].queue = Append(Q, m)
        /\ Q \in Seq(S) /\ m \in S
    <3>1. Q \in Seq(1..MaxOps) /\ 1..MaxOps \subseteq S
      BY <1>1, <1>3
    <3>2. Q \in Seq(S)
      <4> HIDE DEF Q, S
      <4> QED
        BY <3>1, SeqMonotonic
    <3>3. phone'[p].submitted = m /\ phone'[p].queue = Append(Q, m)
      BY <1>3 DEF Appended
    <3> QED
      BY <3>2, <3>3
  <2>2. /\ DOMAIN phone'[p].queue = 1..Len(Q) + 1
        /\ \A i \in 1..Len(Q) : phone'[p].queue[i] = Q[i]
        /\ phone'[p].queue[Len(Q) + 1] = m
    BY <2>1, AppendProperties, LenProperties
  <2>3. CASE n = m
    <3>1. Len(Q) + 1 \in DOMAIN phone'[p].queue
      BY <1>1, <1>3, <2>2
    <3> QED
      BY <1>3, <2>2, <2>3, <3>1 DEF Queued
  <2>4. CASE n # m
    <3>1. n \in 1..phone[p].submitted
      BY <1>1, <1>3, <2>1, <2>4
    <3>2. CASE <<p, n>> \in Injected
      BY <1>3, <3>2
    <3>3. CASE n \in Queued(p)
      <4>1. PICK i \in 1..Len(Q) : Q[i] = n
        BY <1>1, <1>3, <3>3 DEF Queued
      <4>2. i \in DOMAIN phone'[p].queue /\ phone'[p].queue[i] = n
        BY <1>1, <1>3, <2>2, <4>1
      <4> QED
        BY <1>3, <4>2 DEF Queued
    <3> QED
      BY <3>1, <3>2, <3>3 DEF NoSilentLoss
  <2> QED
    BY <2>3, <2>4
<1>4. CASE q = p /\ Removed(p)
  <2> DEFINE Q == phone[p].queue
  <2>1. /\ phone'[p].queue = Tail(Q) /\ Q # <<>>
        /\ phone'[p].submitted = phone[p].submitted
        /\ Head(Q) = phone[p].inflight
        /\ Hears(p, "ack") /\ MatchesInflight(p, Heard(p))
    BY <1>4 DEF Removed
  <2>2. <<p, Head(Q)>> \in Injected
    BY <1>4, RemovedIsTyped
  <2>3. /\ DOMAIN phone'[p].queue = 1..Len(Q) - 1
        /\ \A i \in 1..Len(Q) - 1 : phone'[p].queue[i] = Q[i + 1]
        /\ Head(Q) = Q[1]
    BY <1>1, <1>4, <2>1, HeadTailProperties, LenProperties
  <2>4. CASE <<p, n>> \in Injected
    BY <1>4, <2>4
  <2>5. CASE n \in Queued(p)
    <3>1. PICK i \in 1..Len(Q) : Q[i] = n
      BY <1>1, <1>4, <2>5 DEF Queued
    <3>2. CASE i = 1
      BY <1>4, <2>2, <2>3, <3>1, <3>2
    <3>3. CASE i # 1
      <4>1. i - 1 \in DOMAIN phone'[p].queue /\ phone'[p].queue[i - 1] = n
        <5>1. i - 1 \in 1..Len(Q) - 1 /\ (i - 1) + 1 = i
          BY <1>1, <1>4, <3>1, <3>3
        <5> QED
          BY <2>3, <3>1, <5>1
      <4> QED
        BY <1>4, <4>1 DEF Queued
    <3> QED
      BY <3>2, <3>3
  <2> QED
    BY <1>4, <2>1, <2>4, <2>5 DEF NoSilentLoss
<1> QED
  BY <1>2, <1>3, <1>4 DEF Kept

\* The host's variables stay as they are, and so do the types of the wire.
LEMMA HostAside ==
  ASSUME HostInv, WireTypeOK', UNCHANGED <<sessionVars, ledgerVars, hostVars>>
  PROVE  HostInv'
<1>1. UNCHANGED <<active, nextSession, ledger, diskLedger, unavailable, helloFrom,
                  job, execQ, doneQ, injectorMode, desktop, acked>>
  BY DEF sessionVars, ledgerVars, hostVars
<1> QED
  BY <1>1, NoWork DEF HostInv, HostTypes, SessionTypeOK, LedgerTypeOK,
                      HostTypeOK, NumbersConsumed

LEMMA RecordedAside ==
  ASSUME RecordedIsInjected, UNCHANGED <<ledgerVars, hostVars>>
  PROVE  RecordedIsInjected'
BY DEF RecordedIsInjected, ledgerVars, hostVars, Keys, Injected

LEMMA NextInv == Inv /\ [Next]_vars => Inv'
<1> SUFFICES ASSUME Inv, [Next]_vars
             PROVE  Inv'
  OBVIOUS
<1>0. WireTypeOK /\ AckImpliesInjected /\ RecordedIsInjected
  BY DEF Inv, HostInv, HostTypes, Truthful
<1>1. ASSUME NEW p \in Clients, PhoneStep(p)
      PROVE  Inv'
  <2>1. /\ PhoneInv' /\ WireTypeOK' /\ OnlyRead(toPhone')
        /\ Kept(p) \/ Appended(p) \/ Removed(p)
        /\ \A q \in Clients \ {p} : phone'[q] = phone[q]
    BY <1>0, <1>1, PhoneStepLemma DEF PhoneStep, Inv
  <2>2. UNCHANGED <<sessionVars, ledgerVars, hostVars>> /\ UNCHANGED desktop
    BY <1>1 DEF PhoneStep, hostVars
  <2>3. HostInv'
    BY <2>1, <2>2, HostAside DEF Inv
  <2>4. Truthful'
    BY <1>0, <2>1, <2>2, ReadingIsTruthful, RecordedAside DEF Truthful
  <2>5. NoSilentLoss'
    BY <1>0, <2>1, <2>2, PhoneLosesNothing DEF Inv
  <2> QED
    BY <2>1, <2>3, <2>4, <2>5 DEF Inv
<1>2. CASE HostStep
  <2>1. HostInv' /\ Truthful' /\ Injected \subseteq Injected' /\ UNCHANGED phone
    BY <1>2, HostStepInv, HostStepTruthful DEF HostStep, Inv
  <2> QED
    BY <2>1 DEF Inv, PhoneInv, NoSilentLoss, Queued
<1>3. CASE WireStep
  <2>1. /\ WireTypeOK' /\ UNCHANGED toPhone
        /\ UNCHANGED <<phone, sessionVars, ledgerVars, hostVars>>
    BY <1>0, <1>3, WireStepLemma DEF WireStep
  <2>2. UNCHANGED desktop
    BY <2>1 DEF hostVars
  <2>3. HostInv'
    BY <2>1, HostAside DEF Inv
  <2>4. Truthful'
    BY <1>0, <2>1, <2>2, RecordedAside DEF Truthful, AckImpliesInjected, Injected
  <2> QED
    BY <2>1, <2>2, <2>3, <2>4
       DEF Inv, PhoneInv, NoSilentLoss, Queued, Injected
<1>4. CASE UNCHANGED vars
  <2>1. /\ UNCHANGED <<phone, toPhone, desktop, wireVars, faults>>
        /\ UNCHANGED <<sessionVars, ledgerVars, hostVars>>
    BY <1>4 DEF vars, wireVars, hostVars
  <2>2. WireTypeOK'
    BY <1>0, <2>1 DEF WireTypeOK, wireVars
  <2>3. HostInv'
    BY <2>1, <2>2, HostAside DEF Inv
  <2>4. Truthful'
    BY <1>0, <2>1, RecordedAside DEF Truthful, AckImpliesInjected, Injected
  <2> QED
    BY <2>1, <2>3, <2>4 DEF Inv, PhoneInv, NoSilentLoss, Queued, Injected
<1> QED
  BY <1>1, <1>2, <1>3, <1>4 DEF Next

LEMMA SpecInv == Spec => []Inv
BY InitInv, NextInv, PTL DEF Spec

\* Every variable of the system keeps its type.
THEOREM TypesHold == Spec => []TypeOK
<1>1. Inv => TypeOK
  BY DEF Inv, PhoneInv, HostInv, HostTypes, TypeOK, PhoneTypeOK
<1> QED
  BY SpecInv, <1>1, PTL

\* A successful ACK under way to a phone names an operation the desktop shows
\* (_on_text_insert, AppliedOpLedger).
THEOREM AcksAreTruthful == Spec => []AckImpliesInjected
<1>1. Inv => AckImpliesInjected
  BY DEF Inv, Truthful
<1> QED
  BY SpecInv, <1>1, PTL

\* No silent loss: a chunk the user appended is in the phone's saved queue or
\* on the desktop, whatever fails (MainActivity's delivery queue and the host).
THEOREM NothingIsLost == Spec => []NoSilentLoss
<1>1. Inv => NoSilentLoss
  BY DEF Inv
<1> QED
  BY SpecInv, <1>1, PTL

LEMMA SpecLedger == Spec => []LedgerInv
<1>1. Init => LedgerInv
  BY EmptyFits, SameDigestSameKnown DEF Init, LedgerInit, LedgerInv
<1>2. Inv /\ LedgerInv /\ [Next]_vars => LedgerInv'
  <2>1. ASSUME LedgerInv, UNCHANGED ledgerVars
        PROVE  LedgerInv'
    BY <2>1 DEF ledgerVars, LedgerInv, SameKnown, Persisted, Only, Keys
  <2> QED
    BY <2>1, HostStepLedger DEF Inv, Next, PhoneStep, HostStep, WireStep, vars
<1> QED
  BY SpecInv, <1>1, <1>2, PTL DEF Spec

\* The ledger stays a strict total order of its entries and never holds more
\* than max_entries, in memory or on file (AppliedOpLedger.record, _load).
THEOREM LedgerKeepsBound == Spec => []LedgerSound
BY SpecLedger, LedgerInvSound, PTL

-----------------------------------------------------------------------------
(* Nothing is overtaken.  A chunk is sent only while every chunk before it *)
(* is confirmed (Fitting, in PhoneSays), so whatever is under way, waiting  *)
(* or typed is at most the oldest unconfirmed chunk of its phone when       *)
(* another copy of that one is sent.  Afterwards the host lets through the  *)
(* inserts of one session only, which all came through one connection, in   *)
(* order; and the worker types in the order in which it was asked.          *)

OrderInv == HeadsOnly /\ NothingOvertaken /\ LinesInOrder /\ SessionOnOneConn

LEMMA OpFields ==
  ASSUME NEW o \in OpId
  PROVE  /\ o[1] \in Clients /\ o[2] \in 1..MaxOps /\ o[2] \in Nat
         /\ o = <<o[1], o[2]>>
<1>1. PICK c \in Clients, n \in 1..MaxOps : o = <<c, n>>
  BY DEF OpId
<1>2. o[1] = c /\ o[2] = n
  BY <1>1
<1> QED
  BY <1>1, <1>2, BoundsAssumption

\* The host has read from some connections, or some of them have failed.
LinesRead ==
  \A k \in Conns : \/ toHost'[k] = toHost[k]
                   \/ toHost'[k] = <<>>
                   \/ toHost[k] # <<>> /\ toHost'[k] = Tail(toHost[k])

LEMMA ReadLines ==
  ASSUME WireTypeOK, LinesRead, NEW k \in Conns
  PROVE  \E d \in {0, 1} : \A i \in DOMAIN toHost'[k] :
           /\ i \in Nat /\ i + d \in DOMAIN toHost[k]
           /\ toHost'[k][i] = toHost[k][i + d]
<1>1. /\ toHost[k] \in Seq(HostMsg) /\ DOMAIN toHost[k] = 1..Len(toHost[k])
      /\ Len(toHost[k]) \in Nat
  BY LenProperties DEF WireTypeOK
<1>2. CASE toHost'[k] = toHost[k]
  <2>1. \A i \in DOMAIN toHost[k] : i \in Nat /\ i + 0 = i
    BY <1>1
  <2> QED
    BY <1>2, <2>1
<1>3. CASE toHost'[k] = <<>>
  BY <1>3
<1>4. CASE toHost[k] # <<>> /\ toHost'[k] = Tail(toHost[k])
  <2>1. /\ DOMAIN toHost'[k] = 1..Len(toHost[k]) - 1
        /\ \A i \in 1..Len(toHost[k]) - 1 : toHost'[k][i] = toHost[k][i + 1]
    BY <1>1, <1>4, HeadTailProperties, LenProperties
  <2>2. \A i \in DOMAIN toHost'[k] : i \in Nat /\ i + 1 \in DOMAIN toHost[k]
    BY <1>1, <2>1
  <2> QED
    BY <2>1, <2>2
<1> QED
  BY <1>2, <1>3, <1>4 DEF LinesRead

\* The messages of a connection, whatever their places.
LEMMA ReadMessage ==
  ASSUME WireTypeOK, LinesRead, NEW k \in Conns, NEW i \in DOMAIN toHost'[k]
  PROVE  \E j \in DOMAIN toHost[k] : toHost'[k][i] = toHost[k][j]
BY ReadLines

LEMMA HeadsStay ==
  ASSUME WireTypeOK, HeadsOnly, LinesRead, UNCHANGED phone,
         \A k \in Conns : job'[k] # None => Issued(job'[k].op),
         \A o \in Injected' : Issued(o)
  PROVE  HeadsOnly'
<1>1. \A o : Issued(o)' <=> Issued(o)
  BY DEF Issued, Confirmed
<1>2. ASSUME NEW k \in Conns, NEW i \in DOMAIN toHost'[k],
             toHost'[k][i].type = "text_insert"
      PROVE  Issued(toHost'[k][i].op)
  BY <1>2, ReadMessage DEF HeadsOnly
<1> QED
  BY <1>1, <1>2 DEF HeadsOnly, Issued, Confirmed

LEMMA LinesStay ==
  ASSUME WireTypeOK, LinesInOrder, LinesRead
  PROVE  LinesInOrder'
<1> SUFFICES ASSUME NEW k \in Conns, NEW i \in DOMAIN toHost'[k],
                    NEW j \in DOMAIN toHost'[k], i < j,
                    toHost'[k][i].type = "text_insert",
                    toHost'[k][j].type = "text_insert"
             PROVE  ~Later(toHost'[k][i].op, toHost'[k][j].op)
  BY DEF LinesInOrder, Later
<1>1. PICK d \in {0, 1} : \A n \in DOMAIN toHost'[k] :
        /\ n \in Nat /\ n + d \in DOMAIN toHost[k]
        /\ toHost'[k][n] = toHost[k][n + d]
  BY ReadLines
<1>2. i + d < j + d
  BY <1>1
<1> QED
  BY <1>1, <1>2 DEF LinesInOrder

LEMMA NamesStay ==
  ASSUME WireTypeOK, LinesRead, UNCHANGED phone, NEW k \in Conns, NEW s,
         \A i \in DOMAIN toPhone'[k] :
           toPhone'[k][i].type = "auth_ok" /\ toPhone'[k][i].sid = s =>
             \E j \in DOMAIN toPhone[k] : toPhone[k][j] = toPhone'[k][i],
         Names(k, s)'
  PROVE  Names(k, s)
<1>1. CASE \E i \in DOMAIN toHost'[k] :
             toHost'[k][i].type = "text_insert" /\ toHost'[k][i].sid = s
  BY <1>1, ReadMessage DEF Names
<1>2. CASE \E i \in DOMAIN toPhone'[k] :
             toPhone'[k][i].type = "auth_ok" /\ toPhone'[k][i].sid = s
  BY <1>2 DEF Names
<1>3. CASE \E p \in Clients : phone'[p].sock = k /\ phone'[p].sess = s
  BY <1>3 DEF Names
<1> QED
  BY <1>1, <1>2, <1>3 DEF Names

LEMMA OneConnStays ==
  ASSUME SessionOnOneConn, nextSession \in Nat, nextSession' \in Nat,
         nextSession <= nextSession',
         \A s \in SessionIds, k \in Conns : Names(k, s)' => Names(k, s)
  PROVE  SessionOnOneConn'
<1>1. \A s \in SessionIds : s \in Nat
  BY BoundsAssumption DEF SessionIds
<1> QED
  BY <1>1 DEF SessionOnOneConn

\* What a phone confirms it confirms for good.
LEMMA IssuedStays ==
  ASSUME PhoneInv, PhoneInv', NEW p \in Clients,
         Kept(p) \/ Appended(p) \/ Removed(p),
         \A q \in Clients \ {p} : phone'[q] = phone[q]
  PROVE  /\ \A q \in Clients : /\ Confirmed(q) \in Nat /\ Confirmed(q)' \in Nat
                               /\ Confirmed(q) <= Confirmed(q)'
                               /\ phone[q].submitted <= phone'[q].submitted
         /\ \A o : Issued(o) => Issued(o)'
<1>1. \A q \in Clients :
        /\ phone[q].submitted \in Nat /\ phone[q].queue \in Seq(1..MaxOps)
        /\ Len(phone[q].queue) \in Nat
        /\ Len(phone[q].queue) <= phone[q].submitted
        /\ phone'[q].submitted \in Nat /\ Len(phone'[q].queue) \in Nat
        /\ Len(phone'[q].queue) <= phone'[q].submitted
  <2>1. ASSUME NEW q \in Clients
        PROVE  /\ phone[q].submitted \in Nat /\ phone[q].queue \in Seq(1..MaxOps)
               /\ Len(phone[q].queue) \in Nat
               /\ Len(phone[q].queue) <= phone[q].submitted
    <3>1. Sound(phone[q])
      BY DEF PhoneInv
    <3> QED
      BY <3>1, SoundFields DEF Sound
  <2>2. ASSUME NEW q \in Clients
        PROVE  /\ phone'[q].submitted \in Nat /\ Len(phone'[q].queue) \in Nat
               /\ Len(phone'[q].queue) <= phone'[q].submitted
    <3>1. Sound(phone'[q])
      BY DEF PhoneInv
    <3> QED
      BY <3>1, SoundFields DEF Sound
  <2> QED
    BY <2>1, <2>2
<1>2. \A q \in Clients :
        /\ Confirmed(q) = phone[q].submitted - Len(phone[q].queue)
        /\ Confirmed(q)' = phone'[q].submitted - Len(phone'[q].queue)
  BY DEF Confirmed
<1>3. \A q \in Clients :
        /\ phone[q].submitted - Len(phone[q].queue) <=
             phone'[q].submitted - Len(phone'[q].queue)
        /\ phone[q].submitted <= phone'[q].submitted
  <2> SUFFICES ASSUME NEW q \in Clients
               PROVE  /\ phone[q].submitted - Len(phone[q].queue) <=
                           phone'[q].submitted - Len(phone'[q].queue)
                      /\ phone[q].submitted <= phone'[q].submitted
    OBVIOUS
  <2>1. CASE q # p
    BY <1>1, <2>1
  <2>2. CASE q = p /\ Kept(p)
    BY <1>1, <2>2 DEF Kept
  <2>3. CASE q = p /\ Appended(p)
    <3> DEFINE n == phone[p].submitted + 1
               S == 1..MaxOps \cup {n}
    <3>1. phone[p].queue \in Seq(S) /\ n \in S
      <4>1. phone[p].queue \in Seq(1..MaxOps) /\ 1..MaxOps \subseteq S
        BY <1>1
      <4> HIDE DEF S
      <4>2. phone[p].queue \in Seq(S)
        BY <4>1, SeqMonotonic
      <4> QED
        BY <4>2 DEF S
    <3>2. phone'[p].submitted = n /\ phone'[p].queue = Append(phone[p].queue, n)
      BY <2>3 DEF Appended
    <3> HIDE DEF S
    <3>3. Len(phone'[p].queue) = Len(phone[p].queue) + 1
      BY <3>1, <3>2, AppendProperties
    <3> QED
      BY <1>1, <2>3, <3>2, <3>3
  <2>4. CASE q = p /\ Removed(p)
    <3>1. Len(phone'[p].queue) = Len(phone[p].queue) - 1
      BY <1>1, <2>4, HeadTailProperties DEF Removed
    <3> QED
      BY <1>1, <2>4, <3>1 DEF Removed
  <2> QED
    BY <2>1, <2>2, <2>3, <2>4
<1>4. \A q \in Clients : /\ Confirmed(q) \in Nat /\ Confirmed(q)' \in Nat
                         /\ Confirmed(q) <= Confirmed(q)'
                         /\ phone[q].submitted <= phone'[q].submitted
  BY <1>1, <1>2, <1>3
<1>5. ASSUME NEW o, Issued(o)
      PROVE  Issued(o)'
  <2>1. /\ o \in OpId /\ o[1] \in Clients /\ o[2] \in Nat
        /\ o[2] <= Confirmed(o[1]) + 1 /\ o[2] <= phone[o[1]].submitted
    BY <1>5, OpFields DEF Issued
  <2> DEFINE q == o[1]
  <2>2. /\ Confirmed(q) \in Nat /\ Confirmed(q)' \in Nat
        /\ Confirmed(q) <= Confirmed(q)'
        /\ phone[q].submitted <= phone'[q].submitted
        /\ phone[q].submitted \in Nat /\ phone'[q].submitted \in Nat
    BY <1>1, <1>4, <2>1
  <2>3. \A a, b, c \in Nat : a <= b + 1 /\ b <= c => a <= c + 1
    OBVIOUS
  <2>4. \A a, b, c \in Nat : a <= b /\ b <= c => a <= c
    OBVIOUS
  <2>5. o[2] <= Confirmed(q)' + 1 /\ o[2] <= phone'[q].submitted
    BY <2>1, <2>2, <2>3, <2>4
  <2> QED
    BY <2>1, <2>5 DEF Issued
<1> QED
  BY <1>4, <1>5

\* The head of the queue is the oldest chunk that is not confirmed.
LEMMA HeadIsNext ==
  ASSUME NEW ph, Sound(ph), ph.queue # <<>>
  PROVE  /\ Head(ph.queue) = ph.submitted - Len(ph.queue) + 1
         /\ Head(ph.queue) \in 1..MaxOps /\ Head(ph.queue) <= ph.submitted
<1>1. /\ ph.queue \in Seq(1..MaxOps) /\ Len(ph.queue) \in Nat
      /\ ph.submitted \in Nat /\ Len(ph.queue) <= ph.submitted
      /\ DOMAIN ph.queue = 1..Len(ph.queue)
  BY SoundFields, LenProperties DEF Sound
<1>2. Len(ph.queue) >= 1 /\ Head(ph.queue) = ph.queue[1] /\ 1 \in DOMAIN ph.queue
  BY <1>1, EmptySeq, HeadTailProperties
<1>3. ph.queue[1] = ph.submitted - Len(ph.queue) + 1
  BY <1>2 DEF Sound, IsUnconfirmedTail
<1>4. ph.queue[1] \in 1..MaxOps
  BY <1>1, <1>2, ElementOfSeq
<1> QED
  BY <1>1, <1>2, <1>3, <1>4

\* A phone's session came to it through its connection.
LEMMA PhoneNames ==
  ASSUME WireTypeOK, PhoneInv, NEW p \in Clients, NEW r, SessionFrom(p, r),
         r.sess \in SessionIds
  PROVE  Names(r.sock, r.sess)
<1>1. r.sess # NoSid
  BY BoundsAssumption DEF SessionIds, NoSid
<1>2. CASE r.sess = phone[p].sess /\ r.sock = phone[p].sock
  BY <1>2 DEF Names
<1>3. CASE Hears(p, "auth_ok") /\ r.sess = Heard(p).sid /\ r.sock = phone[p].sock
  <2>1. r.sock \in Conns
    BY <1>3, SockInUse DEF Hears, PhoneInv
  <2>2. toPhone[r.sock] \in Seq(PhoneMsg) /\ toPhone[r.sock] # <<>>
    BY <1>3, <2>1 DEF Hears, WireTypeOK
  <2>3. 1 \in DOMAIN toPhone[r.sock] /\ toPhone[r.sock][1] = Heard(p)
    BY <1>3, <2>2, HeadTailProperties, LenProperties, EmptySeq DEF Heard
  <2> QED
    BY <1>3, <2>3 DEF Hears, Heard, Names
<1> QED
  BY <1>1, <1>2, <1>3 DEF SessionFrom

\* What a phone has yet to hear.
LEMMA ReadReplies ==
  ASSUME WireTypeOK, OnlyRead(toPhone'), NEW k \in Conns,
         NEW i \in DOMAIN toPhone'[k]
  PROVE  \E j \in DOMAIN toPhone[k] : toPhone'[k][i] = toPhone[k][j]
<1>1. CASE toPhone'[k] = toPhone[k] \/ toPhone'[k] = <<>>
  BY <1>1
<1>2. CASE toPhone[k] # <<>> /\ toPhone'[k] = Tail(toPhone[k])
  <2>1. /\ DOMAIN toPhone'[k] = 1..Len(toPhone[k]) - 1
        /\ \A j \in 1..Len(toPhone[k]) - 1 : toPhone'[k][j] = toPhone[k][j + 1]
        /\ DOMAIN toPhone[k] = 1..Len(toPhone[k]) /\ Len(toPhone[k]) \in Nat
    BY <1>2, HeadTailProperties, LenProperties DEF WireTypeOK
  <2>2. i + 1 \in DOMAIN toPhone[k] /\ toPhone'[k][i] = toPhone[k][i + 1]
    BY <2>1
  <2> QED
    BY <2>2
<1> QED
  BY <1>1, <1>2 DEF OnlyRead

\* A phone's step: what it sends comes after all it has sent before.
LEMMA PhoneOrder ==
  ASSUME PhoneInv, PhoneInv', WireTypeOK, HostInv, OrderInv, NEW p \in Clients,
         Says(p), Kept(p) \/ Appended(p) \/ Removed(p), OnlyRead(toPhone'),
         \A q \in Clients \ {p} : phone'[q] = phone[q],
         UNCHANGED <<sessionVars, ledgerVars, hostVars>>
  PROVE  OrderInv'
<1>0. UNCHANGED <<active, nextSession, job, execQ, desktop>>
  BY DEF sessionVars, hostVars
<1>1. PICK r \in PhoneState :
        /\ Become(p, r) /\ SessionFrom(p, r)
        /\ \/ UNCHANGED toHost
           \/ /\ r.sock \in Conns
              /\ \E m \in HostMsg :
                   /\ Fitting(p, r, m)
                   /\ toHost' = [toHost EXCEPT ![r.sock] = Append(@, m)]
  BY DEF Says
<1>2. phone'[p] = r /\ Sound(r)
  BY <1>1 DEF Become, PhoneInv
<1>3. /\ \A q \in Clients : Confirmed(q)' \in Nat
      /\ \A o : Issued(o) => Issued(o)'
  BY IssuedStays
\* A message is an old one, or the one that p sends, at the end of its line.
<1> DEFINE New(k, i) ==
             /\ k = r.sock /\ Fitting(p, r, toHost'[k][i])
             /\ \A j \in DOMAIN toHost'[k] : j <= i
           Old(k, i) == i \in DOMAIN toHost[k] /\ toHost'[k][i] = toHost[k][i]
<1>4. \A k \in Conns : \A i \in DOMAIN toHost'[k] : i \in Nat /\ (Old(k, i) \/ New(k, i))
  <2> SUFFICES ASSUME NEW k \in Conns, NEW i \in DOMAIN toHost'[k]
               PROVE  i \in Nat /\ (Old(k, i) \/ New(k, i))
    OBVIOUS
  <2>1. /\ toHost[k] \in Seq(HostMsg) /\ DOMAIN toHost[k] = 1..Len(toHost[k])
        /\ Len(toHost[k]) \in Nat
    BY LenProperties DEF WireTypeOK
  <2>2. CASE toHost'[k] = toHost[k]
    BY <2>1, <2>2
  <2>3. ASSUME k = r.sock, NEW m \in HostMsg, Fitting(p, r, m),
               toHost' = [toHost EXCEPT ![r.sock] = Append(@, m)]
        PROVE  i \in Nat /\ (Old(k, i) \/ New(k, i))
    <3>1. toHost'[k] = Append(toHost[k], m)
      BY <2>3 DEF WireTypeOK
    <3>2. /\ DOMAIN toHost'[k] = 1..Len(toHost[k]) + 1
          /\ \A j \in 1..Len(toHost[k]) : toHost'[k][j] = toHost[k][j]
          /\ toHost'[k][Len(toHost[k]) + 1] = m
      BY <2>1, <3>1, AppendProperties, LenProperties
    <3>3. CASE i = Len(toHost[k]) + 1
      BY <2>1, <2>3, <3>2, <3>3
    <3>4. CASE i # Len(toHost[k]) + 1
      <4>1. i \in 1..Len(toHost[k])
        BY <2>1, <3>2, <3>4
      <4> QED
        BY <2>1, <3>2, <4>1
    <3> QED
      BY <3>3, <3>4
  <2>4. ASSUME k # r.sock, NEW m \in HostMsg,
               toHost' = [toHost EXCEPT ![r.sock] = Append(@, m)]
        PROVE  toHost'[k] = toHost[k]
    BY <2>4 DEF WireTypeOK
  <2> QED
    BY <1>1, <2>2, <2>3, <2>4
\* What p sends is later than nothing: it is the oldest it may send.
<1>5. ASSUME NEW k \in Conns, NEW i \in DOMAIN toHost'[k], New(k, i),
             toHost'[k][i].type = "text_insert"
      PROVE  /\ Issued(toHost[k][i].op)'
             /\ toHost'[k][i].sid = r.sess /\ r.sess # NoSid
             /\ \A e : Issued(e)' => ~Later(e, toHost'[k][i].op)
  <2> DEFINE m == toHost'[k][i]
             h == Head(r.queue)
  <2>1. m.op = <<p, h>> /\ m.sid = r.sess /\ r.sess # NoSid /\ r.queue # <<>>
    BY <1>5 DEF Fitting
  <2>2. h = Confirmed(p)' + 1 /\ h \in 1..MaxOps /\ h <= phone'[p].submitted
    BY <1>2, <2>1, HeadIsNext DEF Confirmed
  <2> HIDE DEF m, h
  <2>3. m.op \in OpId /\ m.op[1] = p /\ m.op[2] = h
    BY <2>1, <2>2 DEF OpId
  <2>4. Confirmed(p)' \in Nat /\ h \in Nat
    BY <1>3, <2>2, BoundsAssumption
  <2>5. h <= Confirmed(p)' + 1
    BY <2>2, <2>4
  <2>6. Issued(toHost[k][i].op)'
    <3>1. PICK o : o = m.op
      OBVIOUS
    <3>2. /\ o \in OpId /\ o[2] <= Confirmed(o[1])' + 1
          /\ o[2] <= phone'[o[1]].submitted
      BY <2>2, <2>3, <2>5, <3>1
    <3>3. Issued(o)' /\ o = toHost'[k][i].op
      BY <3>1, <3>2 DEF Issued, m
    <3> QED
      BY <3>3 DEF Issued, Confirmed
  <2>7. ASSUME NEW e, Issued(e)'
        PROVE  ~Later(e, m.op)
    <3>1. e \in OpId /\ e[2] \in Nat /\ e[2] <= Confirmed(e[1])' + 1
      BY <2>7, OpFields DEF Issued
    <3>2. CASE e[1] = p
      <4>1. e[2] <= Confirmed(p)' + 1
        BY <3>1, <3>2
      <4> QED
        BY <2>2, <2>3, <2>4, <3>1, <4>1 DEF Later
    <3>3. CASE e[1] # p
      BY <2>3, <3>3 DEF Later
    <3> QED
      BY <3>2, <3>3
  <2> QED
    BY <2>1, <2>6, <2>7 DEF m
<1> HIDE DEF New, Old
<1>6. HeadsOnly'
  <2>1. ASSUME NEW k \in Conns, NEW i \in DOMAIN toHost'[k],
               toHost'[k][i].type = "text_insert"
        PROVE  Issued(toHost[k][i].op)'
    <3>1. CASE Old(k, i)
      <4>1. Issued(toHost[k][i].op) /\ toHost'[k][i] = toHost[k][i]
        BY <2>1, <3>1 DEF OrderInv, HeadsOnly, Old
      <4>2. PICK o : o = toHost[k][i].op
        OBVIOUS
      <4>3. Issued(o)' /\ o = toHost'[k][i].op
        BY <1>3, <4>1, <4>2
      <4> QED
        BY <4>3 DEF Issued, Confirmed
    <3> QED
      BY <1>4, <1>5, <2>1, <3>1
  <2>2. ASSUME NEW k \in Conns, job'[k] # None
        PROVE  Issued(job[k].op)'
    <3>1. PICK o : o = job[k].op
      OBVIOUS
    <3>2. Issued(o)' /\ o = job'[k].op
      BY <1>0, <1>3, <2>2, <3>1 DEF OrderInv, HeadsOnly
    <3> QED
      BY <3>2 DEF Issued, Confirmed
  <2>3. ASSUME NEW o \in Injected'
        PROVE  Issued(o)'
    BY <1>0, <1>3, <2>3 DEF OrderInv, HeadsOnly, Injected
  <2> QED
    BY <2>1, <2>2, <2>3 DEF HeadsOnly
<1>7. NothingOvertaken'
  <2>1. Waiting' = Waiting /\ Injected' = Injected
    BY <1>0 DEF Waiting, Injected
  <2>2. \A e \in Injected \cup Waiting : Issued(e)'
    <3>1. \A e \in Injected \cup Waiting : Issued(e)
      <4>1. \A i \in DOMAIN execQ : execQ[i] \in Conns /\ job[execQ[i]] # None
        BY ElementOfSeq, LenProperties
           DEF HostInv, HostTypes, HostTypeOK, WorkerQueues
      <4> QED
        BY <4>1 DEF OrderInv, HeadsOnly, Waiting
    <3> QED
      BY <1>3, <3>1
  <2>3. ASSUME NEW k \in Conns, NEW i \in DOMAIN toHost'[k],
               toHost'[k][i].type = "text_insert", Valid(toHost[k][i].sid)',
               NEW e \in Injected \cup Waiting
        PROVE  ~Later(e, toHost'[k][i].op)
    <3>1. CASE Old(k, i)
      BY <1>0, <2>3, <3>1 DEF OrderInv, NothingOvertaken, Old, Valid
    <3> QED
      BY <1>4, <1>5, <2>2, <2>3, <3>1
  <2>4. /\ \A i, j \in DOMAIN execQ' :
             i < j => ~Later(job'[execQ'[i]].op, job'[execQ'[j]].op)
        /\ \A e \in Injected, o \in Waiting : ~Later(e, o)
    BY <1>0 DEF OrderInv, NothingOvertaken
  <2> QED
    BY <2>1, <2>3, <2>4 DEF NothingOvertaken, Later
<1>8. LinesInOrder'
  <2> SUFFICES ASSUME NEW k \in Conns, NEW i \in DOMAIN toHost'[k],
                      NEW j \in DOMAIN toHost'[k], i < j,
                      toHost'[k][i].type = "text_insert",
                      toHost'[k][j].type = "text_insert"
               PROVE  ~Later(toHost'[k][i].op, toHost'[k][j].op)
    BY DEF LinesInOrder, Later
  <2>1. Old(k, i)
    <3>1. i \in Nat /\ j \in Nat
      BY <1>4
    <3>2. ~New(k, i)
      BY <3>1 DEF New
    <3> QED
      BY <1>4, <3>2
  <2>2. CASE Old(k, j)
    BY <2>1, <2>2 DEF OrderInv, LinesInOrder, Old
  <2>3. CASE New(k, j)
    <3>1. PICK o : o = toHost'[k][i].op
      OBVIOUS
    <3>2. Issued(o)
      BY <2>1, <3>1 DEF OrderInv, HeadsOnly, Old
    <3> QED
      BY <1>3, <1>5, <2>3, <3>1, <3>2
  <2> QED
    BY <1>4, <2>2, <2>3
<1>9. SessionOnOneConn'
  <2>1. ASSUME NEW s \in SessionIds, NEW k \in Conns, Names(k, s)'
        PROVE  Names(k, s)
    <3>1. ASSUME r.sess = s, r.sock = k
          PROVE  Names(k, s)
      BY <1>1, <3>1, PhoneNames
    <3>2. ASSUME NEW i \in DOMAIN toHost'[k],
                 toHost'[k][i].type = "text_insert", toHost'[k][i].sid = s
          PROVE  Names(k, s)
      <4>1. CASE Old(k, i)
        BY <3>2, <4>1 DEF Old, Names
      <4>2. CASE New(k, i)
        BY <1>5, <3>1, <3>2, <4>2 DEF New
      <4> QED
        BY <1>4, <4>1, <4>2
    <3>3. ASSUME NEW i \in DOMAIN toPhone'[k],
                 toPhone'[k][i].type = "auth_ok", toPhone'[k][i].sid = s
          PROVE  Names(k, s)
      <4>1. \E j \in DOMAIN toPhone[k] : toPhone'[k][i] = toPhone[k][j]
        BY ReadReplies
      <4> QED
        BY <3>3, <4>1 DEF Names
    <3>4. ASSUME NEW q \in Clients, phone'[q].sock = k, phone'[q].sess = s
          PROVE  Names(k, s)
      <4>1. CASE q = p
        BY <1>2, <3>1, <3>4, <4>1
      <4>2. CASE q # p
        BY <3>4, <4>2 DEF Names
      <4> QED
        BY <4>1, <4>2
    <3> QED
      BY <2>1, <3>2, <3>3, <3>4 DEF Names
  <2>2. nextSession \in Nat /\ nextSession' \in Nat /\ nextSession <= nextSession'
    BY <1>0, BoundsAssumption DEF HostInv, HostTypes, SessionTypeOK
  <2> QED
    BY <2>1, <2>2, OneConnStays DEF OrderInv
<1> QED
  BY <1>6, <1>7, <1>8, <1>9 DEF OrderInv

\* The worker's queue: the handlers it names, and what they wait to be typed.
LEMMA QueueJobs ==
  ASSUME HostInv
  PROVE  /\ execQ \in Seq(Conns) /\ Len(execQ) \in Nat
         /\ DOMAIN execQ = 1..Len(execQ)
         /\ \A i \in DOMAIN execQ : /\ i \in Nat /\ execQ[i] \in Conns
                                    /\ job[execQ[i]] # None
                                    /\ job[execQ[i]].op \in Waiting
<1>1. /\ execQ \in Seq(Conns) /\ Len(execQ) \in Nat
      /\ DOMAIN execQ = 1..Len(execQ)
  BY LenProperties DEF HostInv, HostTypes, HostTypeOK
<1>2. \A i \in DOMAIN execQ : execQ[i] \in Conns /\ job[execQ[i]] # None
  BY <1>1, ElementOfSeq DEF HostInv, WorkerQueues
<1> QED
  BY <1>1, <1>2 DEF Waiting

\* Handlers end, and nothing else happens to those that await.
JobsKept ==
  /\ UNCHANGED desktop
  /\ execQ' = <<>> \/ execQ' = execQ
  /\ \A k \in Conns : job'[k] \in {None, job[k]}

\* A step of the host that starts no insert and no session, and types nothing.
QuietStep ==
  /\ LinesRead /\ JobsKept /\ UNCHANGED <<phone, nextSession>>
  /\ \/ active' = None
     \/ /\ active # None /\ active'.sid = active.sid
        /\ active'.client = active.client
  /\ \A k \in Conns : \A i \in DOMAIN toPhone'[k] :
       toPhone'[k][i].type = "auth_ok" =>
         \E j \in DOMAIN toPhone[k] : toPhone[k][j] = toPhone'[k][i]

LEMMA OvertakenStays ==
  ASSUME WireTypeOK, HostInv, HostInv', NothingOvertaken, LinesRead, JobsKept,
         \A k \in Conns : \A i \in DOMAIN toHost[k] : \A s :
           /\ toHost[k][i].type = "text_insert" /\ toHost[k][i].sid = s
           /\ Valid(s)'
           => Valid(s)
  PROVE  NothingOvertaken'
<1>1. Injected' = Injected
  BY DEF JobsKept, Injected
<1>2. \A i \in DOMAIN execQ' : /\ i \in DOMAIN execQ /\ execQ'[i] = execQ[i]
                               /\ job'[execQ'[i]].op = job[execQ[i]].op
  <2>1. \A i \in DOMAIN execQ' : execQ'[i] \in Conns /\ job'[execQ'[i]] # None
    <3>1. execQ' \in Seq(Conns)
      BY DEF HostInv, HostTypes, HostTypeOK
    <3> QED
      BY <3>1, ElementOfSeq, LenProperties DEF HostInv, WorkerQueues
  <2> QED
    BY <2>1 DEF JobsKept
<1>3. Waiting' \subseteq Waiting
  BY <1>2 DEF Waiting
<1>4. \A i, j \in DOMAIN execQ' :
        i < j => ~Later(job'[execQ'[i]].op, job'[execQ'[j]].op)
  BY <1>2 DEF NothingOvertaken
<1>5. ASSUME NEW k \in Conns, NEW i \in DOMAIN toHost'[k], NEW s,
             toHost'[k][i].type = "text_insert", toHost'[k][i].sid = s, Valid(s)',
             NEW e \in Injected \cup Waiting
      PROVE  ~Later(e, toHost'[k][i].op)
  <2>1. PICK j \in DOMAIN toHost[k] : toHost'[k][i] = toHost[k][j]
    BY ReadMessage
  <2>2. Valid(toHost[k][j].sid)
    BY <1>5, <2>1
  <2> QED
    BY <1>5, <2>1, <2>2 DEF NothingOvertaken
<1>6. ASSUME NEW k \in Conns, NEW i \in DOMAIN toHost'[k],
             toHost'[k][i].type = "text_insert", Valid(toHost[k][i].sid)',
             NEW e \in Injected \cup Waiting
      PROVE  ~Later(e, toHost'[k][i].op)
  BY <1>5, <1>6 DEF Valid
<1> QED
  BY <1>1, <1>3, <1>4, <1>6 DEF NothingOvertaken, Later

LEMMA QuietOrder ==
  ASSUME WireTypeOK, HostInv, HostInv', OrderInv, QuietStep
  PROVE  OrderInv'
<1>0. /\ LinesRead /\ JobsKept /\ UNCHANGED <<phone, nextSession>>
      /\ active' = None \/ (active # None /\ active'.sid = active.sid)
      /\ \A k \in Conns : \A i \in DOMAIN toPhone'[k] :
           toPhone'[k][i].type = "auth_ok" =>
             \E j \in DOMAIN toPhone[k] : toPhone[k][j] = toPhone'[k][i]
  BY DEF QuietStep
<1>1. HeadsOnly'
  <2>1. \A k \in Conns : job'[k] # None => Issued(job'[k].op)
    BY <1>0 DEF JobsKept, OrderInv, HeadsOnly
  <2>2. \A o \in Injected' : Issued(o)
    BY <1>0 DEF JobsKept, Injected, OrderInv, HeadsOnly
  <2> QED
    BY <1>0, <2>1, <2>2, HeadsStay DEF OrderInv
<1>2. NothingOvertaken'
  <2>1. \A s : Valid(s)' => Valid(s)
    BY <1>0 DEF Valid
  <2> QED
    BY <1>0, <2>1, OvertakenStays DEF OrderInv
<1>3. LinesInOrder'
  BY <1>0, LinesStay DEF OrderInv
<1>4. SessionOnOneConn'
  <2>1. \A s \in SessionIds, k \in Conns : Names(k, s)' => Names(k, s)
    BY <1>0, NamesStay
  <2>2. nextSession \in Nat /\ nextSession <= nextSession
    BY BoundsAssumption DEF HostInv, HostTypes, SessionTypeOK
  <2> QED
    BY <1>0, <2>1, <2>2, OneConnStays DEF OrderInv
<1> QED
  BY <1>1, <1>2, <1>3, <1>4 DEF OrderInv

\* The host answers on k with something other than a new session.
LEMMA AnswerKeepsSessions ==
  ASSUME WireTypeOK, NEW k \in Conns, NEW m \in PhoneMsg, Emit(k, m),
         m.type # "auth_ok"
  PROVE  \A c \in Conns : \A i \in DOMAIN toPhone'[c] :
           toPhone'[c][i].type = "auth_ok" =>
             \E j \in DOMAIN toPhone[c] : toPhone[c][j] = toPhone'[c][i]
BY EmitTyped

LEMMA ConsumedReads ==
  ASSUME WireTypeOK, NEW k \in Conns, NEW type, Reads(k, type), Consumed(k)
  PROVE  LinesRead
<1>1. \A c \in Conns : toHost'[c] = IF c = k THEN Tail(toHost[k]) ELSE toHost[c]
  BY DEF WireTypeOK, Consumed
<1> QED
  BY <1>1 DEF LinesRead, Reads

\* What happens to the session when the host answers.
LEMMA AdvancedGrown ==
  ASSUME NEW s \in Session, NEW seq, NEW text
  PROVE  /\ Grown(Advanced(s, seq), text).sid = s.sid /\ Grown(s, text).sid = s.sid
         /\ Grown(Advanced(s, seq), text).client = s.client
         /\ Grown(s, text).client = s.client
BY DEF Grown, Advanced, Session

\* The handlers that answer a message at once, except that of auth.
LEMMA AnswersQuiet ==
  ASSUME HostInv, UNCHANGED phone, NEW k \in Conns,
         \/ OnHello(k) \/ OnAuthRefused(k) \/ OnPing(k) \/ RefuseInsert(k)
         \/ AckDuplicate(k)
  PROVE  QuietStep
<1>0. WireTypeOK /\ SessionTypeOK
  BY DEF HostInv, HostTypes
<1>1. /\ UNCHANGED <<desktop, execQ, job, nextSession>> /\ LinesRead
  <2>1. \E type : Reads(k, type) /\ Consumed(k)
    BY DEF OnHello, OnAuthRefused, OnPing, RefuseInsert, AckDuplicate
  <2>2. UNCHANGED <<desktop, execQ, job, nextSession>>
    BY DEF OnHello, OnAuthRefused, OnPing, RefuseInsert, AckDuplicate,
           UpdateHeartbeat, hostVars, sessionVars
  <2> QED
    BY <1>0, <2>1, <2>2, ConsumedReads
<1>2. JobsKept
  BY <1>1 DEF JobsKept
<1>3. \/ active' = active
      \/ /\ active # None /\ active'.sid = active.sid
         /\ active'.client = active.client
  <2>1. CASE OnHello(k) \/ OnAuthRefused(k) \/ RefuseInsert(k)
    BY <2>1 DEF OnHello, OnAuthRefused, RefuseInsert, sessionVars
  <2>2. CASE OnPing(k)
    <3>1. active' = active \/ (active # None /\ active' = [active EXCEPT !.quiet = FALSE])
      BY <2>2 DEF OnPing, UpdateHeartbeat, Valid, sessionVars
    <3>2. LET s == [active EXCEPT !.quiet = FALSE]
          IN active # None => s.sid = active.sid /\ s.client = active.client
      BY <1>0, SessionFields DEF Session
    <3> QED
      BY <3>1, <3>2
  <2>3. CASE AckDuplicate(k)
    <3> DEFINE m == Head(toHost[k])
    <3>1. active' = Grown(Advanced(active, m.seq), m.text) /\ Verdict(m) = "match"
      BY <2>3 DEF AckDuplicate
    <3>2. active # None
      BY <3>1, VerdictMeans DEF Valid
    <3> QED
      BY <1>0, <3>1, <3>2, SessionFields, AdvancedGrown
  <2> QED
    BY <2>1, <2>2, <2>3
<1>4. \E m \in PhoneMsg : Emit(k, m) /\ m.type # "auth_ok"
  <2>1. CASE OnHello(k) \/ OnAuthRefused(k)
    BY <2>1, RepliesTyped DEF OnHello, OnAuthRefused, HelloOk, Error, Reasons
  <2>2. CASE OnPing(k)
    BY <2>2, RepliesTyped DEF OnPing, Pong, Error, Invalid, Reasons
  <2>3. CASE RefuseInsert(k) \/ AckDuplicate(k)
    <3> DEFINE m == Head(toHost[k])
    <3>1. PICK op \in {m.op, None}, ok \in BOOLEAN : Emit(k, Ack(m.seq, op, ok))
      BY <2>3 DEF RefuseInsert, AckDuplicate
    <3>2. m.seq \in 0..MaxOps + 1 /\ op \in OpId \cup {None}
      <4>1. m \in HostMsg /\ m.type = "text_insert"
        BY <1>0, <2>3, ReadTyped DEF RefuseInsert, AckDuplicate, Reads
      <4> QED
        BY <4>1, InsertTyped
    <3>3. Ack(m.seq, op, ok) \in PhoneMsg /\ Ack(m.seq, op, ok).type = "ack"
      BY <3>2, RepliesTyped DEF Ack
    <3> QED
      BY <3>1, <3>3
  <2> QED
    BY <2>1, <2>2, <2>3
<1>5. \A c \in Conns : \A i \in DOMAIN toPhone'[c] :
        toPhone'[c][i].type = "auth_ok" =>
          \E j \in DOMAIN toPhone[c] : toPhone[c][j] = toPhone'[c][i]
  BY <1>0, <1>4, AnswerKeepsSessions
<1> QED
  BY <1>1, <1>2, <1>3, <1>5 DEF QuietStep

\* A handler that awaited is resumed.
LEMMA ResumesQuiet ==
  ASSUME HostInv, UNCHANGED phone, NEW k \in Conns, FinishInsert(k) \/ FailInsert(k)
  PROVE  QuietStep
<1> DEFINE j == job[k]
<1>0. WireTypeOK /\ SessionTypeOK
  BY DEF HostInv, HostTypes
<1>1. PICK stage \in {"injected", "failed"} :
        /\ Resumes(k, stage)
        /\ Emit(k, Ack(j.seq, j.op, stage = "injected"))
        /\ UNCHANGED <<desktop, execQ, toHost, nextSession>>
        /\ active' = active \/ (active # None /\ active' = Grown(active, j.text))
  <2>1. CASE FinishInsert(k)
    BY <2>1 DEF FinishInsert, Valid
  <2>2. CASE FailInsert(k)
    BY <2>2 DEF FailInsert, sessionVars
  <2> QED
    BY <2>1, <2>2
<1>2. /\ j \in Job /\ \A c \in Conns \ {k} : job'[c] = job[c]
      /\ job'[k] = None
  BY <1>1, ResumeQueues DEF HostInv, HostTypes
<1>3. JobsKept /\ LinesRead
  BY <1>1, <1>2 DEF JobsKept, LinesRead
<1>4. \/ active' = None
      \/ /\ active # None /\ active'.sid = active.sid
         /\ active'.client = active.client
  BY <1>0, <1>1, SessionFields, AdvancedGrown
<1>5. \A c \in Conns : \A i \in DOMAIN toPhone'[c] :
        toPhone'[c][i].type = "auth_ok" =>
          \E n \in DOMAIN toPhone[c] : toPhone[c][n] = toPhone'[c][i]
  <2> DEFINE m == Ack(j.seq, j.op, stage = "injected")
  <2>1. j.seq \in 0..MaxOps + 1 /\ j.op \in OpId \cup {None}
    BY <1>2 DEF Job
  <2>2. m \in PhoneMsg /\ m.type = "ack"
    BY <2>1, RepliesTyped DEF Ack
  <2> QED
    BY <1>0, <1>1, <2>2, AnswerKeepsSessions
<1> QED
  BY <1>1, <1>3, <1>4, <1>5 DEF QuietStep

\* Time passes, or the host dies and comes back.
LEMMA LapseQuiet ==
  ASSUME HostInv, UNCHANGED phone,
         HeartbeatGuard \/ QuietPeriod \/ RestartHost \/ RestartHostUnreadable
  PROVE  QuietStep
<1>0. WireTypeOK /\ SessionTypeOK
  BY DEF HostInv, HostTypes
<1>1. UNCHANGED <<toPhone, nextSession, desktop>>
  BY DEF HeartbeatGuard, DropQuietSession, QuietPeriod, Quieten, hostVars,
         wireVars, RestartHost, RestartHostUnreadable, Restarted
<1>2. JobsKept /\ LinesRead
  <2>1. CASE HeartbeatGuard \/ QuietPeriod
    BY <2>1 DEF HeartbeatGuard, QuietPeriod, hostVars, wireVars, JobsKept, LinesRead
  <2>2. CASE Restarted
    BY <1>1, <2>2 DEF Restarted, JobsKept, LinesRead
  <2> QED
    BY <2>1, <2>2 DEF RestartHost, RestartHostUnreadable
<1>3. active' = None \/ (active # None /\ active' = [active EXCEPT !.quiet = TRUE])
  BY DEF HeartbeatGuard, DropQuietSession, QuietPeriod, Quieten, RestartHost,
         RestartHostUnreadable, Restarted
<1>4. \/ active' = None
      \/ /\ active # None /\ active'.sid = active.sid
         /\ active'.client = active.client
  <2>1. LET s == [active EXCEPT !.quiet = TRUE]
        IN active # None => s.sid = active.sid /\ s.client = active.client
    BY <1>0, SessionFields DEF Session
  <2> QED
    BY <1>3, <2>1
<1> QED
  BY <1>1, <1>2, <1>4 DEF QuietStep

\* A new session: nothing under way names it yet, and one connection will.
LEMMA AuthOrder ==
  ASSUME HostInv, HostInv', OrderInv, UNCHANGED phone, NEW k \in Conns, OnAuth(k)
  PROVE  OrderInv'
<1> DEFINE n == nextSession
           mode == Head(toHost[k]).mode
<1>0. WireTypeOK /\ SessionTypeOK
  BY DEF HostInv, HostTypes
<1>1. /\ Reads(k, "auth") /\ Consumed(k) /\ Emit(k, AuthOk(n, mode))
      /\ n \in SessionIds /\ active' = NewSession(helloFrom[k], mode)
      /\ nextSession' = n + 1
      /\ UNCHANGED <<desktop, execQ, job>>
  BY DEF OnAuth, Authenticate, hostVars
<1>2. LinesRead /\ JobsKept
  BY <1>0, <1>1, ConsumedReads DEF JobsKept
<1>3. active'.sid = n
  BY <1>1 DEF NewSession
<1>4. \A j \in Conns : ~Names(j, n)
  <2>1. n \in Nat
    BY <1>1, BoundsAssumption DEF SessionIds
  <2> QED
    BY <1>1, <2>1 DEF OrderInv, SessionOnOneConn
<1>5. HeadsOnly' /\ LinesInOrder'
  <2>1. \A c \in Conns : job'[c] # None => Issued(job'[c].op)
    BY <1>1 DEF OrderInv, HeadsOnly
  <2>2. \A o \in Injected' : Issued(o)
    BY <1>1 DEF Injected, OrderInv, HeadsOnly
  <2> QED
    BY <1>0, <1>2, <2>1, <2>2, HeadsStay, LinesStay DEF OrderInv
<1>6. NothingOvertaken'
  <2>1. ASSUME NEW j \in Conns, NEW i \in DOMAIN toHost[j], NEW s,
               toHost[j][i].type = "text_insert", toHost[j][i].sid = s, Valid(s)'
        PROVE  Valid(s)
    <3>1. s = n
      BY <1>3, <2>1 DEF Valid
    <3> QED
      BY <1>4, <2>1, <3>1 DEF Names
  <2> QED
    BY <1>0, <1>2, <2>1, OvertakenStays DEF OrderInv
<1>7. SessionOnOneConn'
  <2>1. ASSUME NEW j \in Conns, NEW s \in SessionIds, s # n \/ j # k, Names(j, s)'
        PROVE  Names(j, s)
    <3>1. AuthOk(n, mode) \in PhoneMsg /\ AuthOk(n, mode).sid = n
      <4>1. mode \in Modes
        BY <1>0, <1>1, ReadTyped, OtherTyped DEF Reads
      <4> QED
        BY <1>1, <4>1, RepliesTyped DEF AuthOk
    <3>2. CASE s # n
      <4>1. \A i \in DOMAIN toPhone'[j] :
              toPhone'[j][i].sid = s =>
                \E c \in DOMAIN toPhone[j] : toPhone[j][c] = toPhone'[j][i]
        BY <1>0, <1>1, <3>1, <3>2, EmitTyped
      <4> QED
        BY <1>0, <1>2, <2>1, <4>1, NamesStay
    <3>3. CASE j # k
      <4>1. toPhone'[j] = toPhone[j]
        BY <1>0, <1>1, <3>3 DEF Emit, WireTypeOK
      <4> QED
        BY <1>0, <1>2, <2>1, <4>1, NamesStay
    <3> QED
      BY <2>1, <3>2, <3>3
  <2>2. ASSUME NEW s \in SessionIds, NEW j \in Conns, Names(j, s)'
        PROVE  s < n + 1 /\ \A c \in Conns : Names(c, s)' => c = j
    <3>0. s \in Nat /\ n \in Nat
      BY <1>1, BoundsAssumption DEF SessionIds
    <3>1. CASE s = n
      <4>1. \A c \in Conns : Names(c, s)' => c = k
        BY <1>4, <2>1, <3>1
      <4> QED
        BY <2>2, <3>0, <3>1, <4>1
    <3>2. CASE s # n
      <4>1. \A c \in Conns : Names(c, s)' => Names(c, s)
        BY <2>1, <3>2
      <4>2. s < n /\ \A c \in Conns : Names(c, s)' => c = j
        BY <2>2, <4>1 DEF OrderInv, SessionOnOneConn
      <4> QED
        BY <3>0, <4>2
    <3> QED
      BY <3>1, <3>2
  <2> QED
    BY <1>1, <2>2 DEF SessionOnOneConn
<1> QED
  BY <1>5, <1>6, <1>7 DEF OrderInv

\* An insert is handed to the worker: what waits already is not later than it,
\* and what its session has still under way came after it.
LEMMA StartOrder ==
  ASSUME HostInv, HostInv', OrderInv, UNCHANGED phone, NEW k \in Conns,
         StartInsert(k)
  PROVE  OrderInv'
<1> DEFINE m == Head(toHost[k])
           Q == 1..Len(execQ)
<1>0. WireTypeOK
  BY DEF HostInv, HostTypes
<1>1. /\ Reads(k, "text_insert") /\ Consumed(k) /\ Verdict(m) = "missing"
      /\ active' = Advanced(active, m.seq)
      /\ execQ' = Append(execQ, k)
      /\ UNCHANGED <<nextSession, toPhone, desktop>>
      /\ \A c \in Conns \ {k} : job'[c] = job[c]
      /\ job'[k].op = m.op
  BY DEF StartInsert, HostInv, HostTypes, HostTypeOK
<1>2. /\ active # None /\ active'.sid = active.sid /\ m.sid = active.sid
      /\ active.sid \in SessionIds
  <2>1. active \in Session /\ active # None /\ m.sid = active.sid
    BY <1>1, AcceptedInsert
  <2>2. m.seq \in 0..MaxOps + 1
    BY <1>1, AcceptedInsert
  <2> QED
    BY <1>1, <2>1, <2>2, AdvancedTyped DEF Session
<1>3. LinesRead
  BY <1>0, <1>1, ConsumedReads
<1>4. /\ 1 \in DOMAIN toHost[k] /\ toHost[k][1] = m /\ m.type = "text_insert"
      /\ toHost'[k] = Tail(toHost[k])
      /\ \A i \in DOMAIN toHost'[k] : /\ i + 1 \in DOMAIN toHost[k] /\ 1 < i + 1
                                      /\ toHost'[k][i] = toHost[k][i + 1]
  <2>1. /\ toHost[k] \in Seq(HostMsg) /\ toHost[k] # <<>>
        /\ m.type = "text_insert" /\ toHost'[k] = Tail(toHost[k])
    BY <1>0, <1>1 DEF Reads, Consumed, WireTypeOK
  <2>2. /\ Len(toHost[k]) \in Nat /\ Len(toHost[k]) # 0
        /\ DOMAIN toHost[k] = 1..Len(toHost[k]) /\ toHost[k][1] = m
        /\ DOMAIN toHost'[k] = 1..Len(toHost[k]) - 1
        /\ \A i \in 1..Len(toHost[k]) - 1 : toHost'[k][i] = toHost[k][i + 1]
    BY <2>1, HeadTailProperties, LenProperties, EmptySeq
  <2> QED
    BY <2>1, <2>2
<1> HIDE DEF m
\* Nothing later than m is typed, or waits.
<1>5. /\ Issued(m.op)
      /\ \A e \in Injected \cup Waiting : ~Later(e, m.op)
  <2>1. Valid(toHost[k][1].sid) /\ toHost[k][1].type = "text_insert"
    BY <1>2, <1>4 DEF Valid
  <2> QED
    BY <1>4, <2>1 DEF OrderInv, HeadsOnly, NothingOvertaken
<1>6. /\ DOMAIN execQ = Q /\ Len(execQ) \in Nat
      /\ DOMAIN execQ' = 1..Len(execQ) + 1
      /\ execQ'[Len(execQ) + 1] = k
      /\ \A i \in Q : /\ i \in Nat /\ execQ'[i] = execQ[i]
                      /\ job'[execQ[i]].op = job[execQ[i]].op
                      /\ job[execQ[i]].op \in Waiting
  <2>1. /\ execQ \in Seq(Conns) /\ Len(execQ) \in Nat /\ DOMAIN execQ = Q
        /\ \A i \in DOMAIN execQ : /\ i \in Nat /\ execQ[i] \in Conns
                                   /\ job[execQ[i]] # None
                                   /\ job[execQ[i]].op \in Waiting
    BY QueueJobs
  <2>2. /\ DOMAIN execQ' = 1..Len(execQ) + 1
        /\ \A i \in Q : execQ'[i] = execQ[i]
        /\ execQ'[Len(execQ) + 1] = k
    BY <1>1, <2>1, AppendProperties, LenProperties
  <2>3. job[k] = None
    BY <1>1 DEF Reads
  <2>4. \A i \in Q : job'[execQ[i]] = job[execQ[i]]
    BY <1>1, <2>1, <2>3
  <2> QED
    BY <2>1, <2>2, <2>4
<1> HIDE DEF Q
<1>7. HeadsOnly'
  <2>1. \A c \in Conns : job'[c] # None => Issued(job'[c].op)
    BY <1>1, <1>5 DEF OrderInv, HeadsOnly
  <2>2. \A o \in Injected' : Issued(o)
    BY <1>1 DEF Injected, OrderInv, HeadsOnly
  <2> QED
    BY <1>0, <1>3, <2>1, <2>2, HeadsStay DEF OrderInv
<1>8. NothingOvertaken'
  <2>1. Injected' = Injected
    BY <1>1 DEF Injected
  <2>2. \A i \in DOMAIN execQ' : i \in Q \/ i = Len(execQ) + 1
    BY <1>6 DEF Q
  <2>3. Waiting' \subseteq Waiting \cup {m.op}
    BY <1>1, <1>6, <2>2 DEF Waiting
  <2>4. ASSUME NEW i \in DOMAIN execQ', NEW j \in DOMAIN execQ', i < j
        PROVE  ~Later(job'[execQ'[i]].op, job'[execQ'[j]].op)
    <3>1. i \in Q
      BY <1>6, <2>4 DEF Q
    <3>2. CASE j \in Q
      BY <1>6, <2>4, <3>1, <3>2 DEF OrderInv, NothingOvertaken
    <3>3. CASE j = Len(execQ) + 1
      BY <1>1, <1>5, <1>6, <3>1, <3>3
    <3> QED
      BY <2>2, <3>2, <3>3
  <2>5. \A e \in Injected, o \in Waiting \cup {m.op} : ~Later(e, o)
    BY <1>5 DEF OrderInv, NothingOvertaken
  <2>6. ASSUME NEW c \in Conns, NEW i \in DOMAIN toHost'[c],
               toHost'[c][i].type = "text_insert", toHost'[c][i].sid = active.sid,
               NEW e \in Injected \cup Waiting \cup {m.op}
        PROVE  ~Later(e, toHost'[c][i].op)
    <3>1. PICK j \in DOMAIN toHost[c] : toHost'[c][i] = toHost[c][j]
      BY <1>0, <1>3, ReadMessage
    <3>2. CASE e \in Injected \cup Waiting
      <4>1. Valid(toHost[c][j].sid)
        BY <1>2, <2>6, <3>1 DEF Valid
      <4> QED
        BY <2>6, <3>1, <3>2, <4>1 DEF OrderInv, NothingOvertaken
    <3>3. CASE e = m.op
      <4>1. Names(c, active.sid) /\ Names(k, active.sid)
        BY <1>2, <1>4, <2>6, <3>1 DEF Names
      <4>2. c = k
        BY <1>2, <4>1 DEF OrderInv, SessionOnOneConn
      <4>3. /\ i + 1 \in DOMAIN toHost[k] /\ 1 < i + 1
            /\ toHost'[k][i] = toHost[k][i + 1]
        BY <1>4, <2>6, <4>2
      <4> QED
        BY <1>4, <2>6, <3>3, <4>2, <4>3 DEF OrderInv, LinesInOrder
    <3> QED
      BY <2>6, <3>2, <3>3
  <2>7. ASSUME NEW c \in Conns, NEW i \in DOMAIN toHost'[c],
               toHost'[c][i].type = "text_insert", Valid(toHost[c][i].sid)'
        PROVE  toHost'[c][i].sid = active.sid
    BY <1>2, <2>7 DEF Valid
  <2> QED
    BY <2>1, <2>3, <2>4, <2>5, <2>6, <2>7 DEF NothingOvertaken, Later
<1>9. LinesInOrder'
  BY <1>0, <1>3, LinesStay DEF OrderInv
<1>10. SessionOnOneConn'
  <2>1. \A s \in SessionIds, c \in Conns : Names(c, s)' => Names(c, s)
    BY <1>0, <1>1, <1>3, NamesStay
  <2>2. nextSession \in Nat /\ nextSession <= nextSession
    BY BoundsAssumption DEF HostInv, HostTypes, SessionTypeOK
  <2> QED
    BY <1>1, <2>1, <2>2, OneConnStays DEF OrderInv
<1> QED
  BY <1>7, <1>8, <1>9, <1>10 DEF OrderInv

\* What the desktop shows, operation by operation.
Ops(d) == [i \in DOMAIN d |-> d[i].op]

LEMMA ScreenIsSeq ==
  ASSUME NEW d \in Seq(Typed)
  PROVE  /\ Ops(d) \in Seq(OpId \cup {None}) /\ Len(Ops(d)) = Len(d)
         /\ Len(d) \in Nat /\ DOMAIN d = 1..Len(d)
         /\ \A i \in 1..Len(d) : Ops(d)[i] = d[i].op
<1>1. /\ Len(d) \in Nat /\ DOMAIN d = 1..Len(d)
      /\ \A i \in 1..Len(d) : d[i] \in Typed
  BY LenProperties, ElementOfSeq
<1>2. /\ \A i \in 1..Len(d) : d[i].op \in OpId \cup {None}
      /\ Ops(d) = [i \in 1..Len(d) |-> d[i].op]
  BY <1>1 DEF Typed, Ops
<1>3. Ops(d) \in Seq(OpId \cup {None}) /\ DOMAIN Ops(d) = 1..Len(d)
  BY <1>1, <1>2, IsASeq
<1>4. Len(Ops(d)) = Len(d)
  BY <1>1, <1>3, LenProperties
<1> QED
  BY <1>1, <1>2, <1>3, <1>4

\* The worker types what it took off its queue, or fails to.
LEMMA InjectorMoves ==
  ASSUME HostInv, HostInv', RunInjector
  PROVE  LET o == job[Head(execQ)].op
         IN /\ \A c \in Conns : /\ job'[c] = None <=> job[c] = None
                                /\ job'[c].op = job[c].op
            /\ 1 \in DOMAIN execQ /\ execQ[1] = Head(execQ) /\ o \in Waiting
            /\ \A i \in DOMAIN execQ' :
                 /\ i \in Nat /\ i + 1 \in DOMAIN execQ /\ 1 < i + 1
                 /\ job'[execQ'[i]].op = job[execQ[i + 1]].op
                 /\ job[execQ[i + 1]].op \in Waiting
            /\ \/ UNCHANGED <<Screen, Injected>>
               \/ Screen' = Append(Screen, o) /\ Injected' = Injected \cup {o}
<1> DEFINE k == Head(execQ)
           o == job[k].op
<1>1. PICK stage \in {"injected", "failed"} :
        /\ job' = [job EXCEPT ![k].stage = stage]
        /\ \/ UNCHANGED desktop
           \/ \E x : desktop' = Append(desktop, x) /\ x.op = o
  BY DEF RunInjector
<1>2. /\ k \in Conns /\ job[k] \in Job
      /\ job'[k] = [job[k] EXCEPT !.stage = stage]
      /\ \A c \in Conns \ {k} : job'[c] = job[c]
  BY <1>1, MoveQueues DEF RunInjector, HostInv, HostTypes
<1>3. /\ execQ \in Seq(Conns) /\ Len(execQ) \in Nat /\ execQ # <<>>
      /\ DOMAIN execQ = 1..Len(execQ) /\ execQ' = Tail(execQ)
      /\ \A i \in DOMAIN execQ : /\ i \in Nat /\ execQ[i] \in Conns
                                 /\ job[execQ[i]] # None
                                 /\ job[execQ[i]].op \in Waiting
  BY QueueJobs DEF RunInjector
<1>4. /\ Len(execQ) # 0 /\ 1 \in DOMAIN execQ /\ execQ[1] = k
      /\ DOMAIN execQ' = 1..Len(execQ) - 1
      /\ \A i \in 1..Len(execQ) - 1 : execQ'[i] = execQ[i + 1]
  BY <1>3, HeadTailProperties, LenProperties, EmptySeq
<1> HIDE DEF k
<1>5. \A c \in Conns : (job'[c] = None <=> job[c] = None) /\ job'[c].op = job[c].op
  <2>1. job'[k] # None /\ job[k] # None /\ job'[k].op = job[k].op
    <3>1. job'[k] \in Job /\ job'[k].op = job[k].op
      BY <1>2 DEF Job
    <3> QED
      BY <1>2, <3>1, NoneIsNoJob
  <2> QED
    BY <1>2, <2>1
<1>6. o \in Waiting
  BY <1>3, <1>4
<1>7. \A i \in DOMAIN execQ' : /\ i \in Nat /\ i + 1 \in DOMAIN execQ /\ 1 < i + 1
                               /\ execQ'[i] = execQ[i + 1]
  BY <1>3, <1>4
<1>8. \A i \in DOMAIN execQ' : /\ job'[execQ'[i]].op = job[execQ[i + 1]].op
                               /\ job[execQ[i + 1]].op \in Waiting
  BY <1>3, <1>5, <1>7
<1>9. \/ UNCHANGED <<Screen, Injected>>
      \/ Screen' = Append(Screen, o) /\ Injected' = Injected \cup {o}
  <2>1. CASE UNCHANGED desktop
    BY <2>1 DEF Screen, Injected
  <2>2. ASSUME NEW x, desktop' = Append(desktop, x), x.op = o
        PROVE  Screen' = Append(Screen, o) /\ Injected' = Injected \cup {o}
    <3> DEFINE n == Len(desktop)
               more == Append(Screen, o)
    <3>1. /\ desktop \in Seq(Typed) /\ desktop' \in Seq(Typed)
          /\ Screen = Ops(desktop) /\ Screen' = Ops(desktop')
      BY DEF HostInv, HostTypes, HostTypeOK, Screen, Ops
    <3>2. /\ Screen \in Seq(OpId \cup {None}) /\ Len(Screen) = n
          /\ n \in Nat /\ DOMAIN desktop = 1..n
          /\ \A i \in 1..n : Screen[i] = desktop[i].op
      BY <3>1, ScreenIsSeq
    <3>3. /\ Screen' \in Seq(OpId \cup {None}) /\ Len(Screen') = Len(desktop')
          /\ DOMAIN desktop' = 1..Len(desktop')
          /\ \A i \in 1..Len(desktop') : Screen'[i] = desktop'[i].op
      BY <3>1, ScreenIsSeq
    <3>4. /\ Len(desktop') = n + 1 /\ desktop'[n + 1] = x
          /\ \A i \in 1..n : desktop'[i] = desktop[i]
      BY <2>2, <3>1, <3>2
    <3>5. o \in OpId \cup {None}
      BY <1>2 DEF Job
    <3>6. /\ more \in Seq(OpId \cup {None}) /\ Len(more) = n + 1
          /\ more[n + 1] = o /\ \A i \in 1..n : more[i] = Screen[i]
      BY <3>2, <3>5, AppendProperties
    <3> HIDE DEF n, more
    <3>7. \A i \in 1..n + 1 : Screen'[i] = more[i]
      <4>1. \A i \in 1..n + 1 : i \in 1..n \/ i = n + 1
        BY <3>2
      <4> QED
        BY <2>2, <3>2, <3>3, <3>4, <3>6, <4>1
    <3>8. Screen' = more
      BY <3>3, <3>4, <3>6, <3>7, SeqEqual
    <3>9. \A i \in 1..n + 1 : i \in 1..n \/ i = n + 1
      BY <3>2
    <3>10. /\ n + 1 \in 1..n + 1
           /\ \A i \in 1..n : i \in 1..n + 1
      BY <3>2
    <3>11. Injected' = Injected \cup {o}
      BY <2>2, <3>2, <3>3, <3>4, <3>9, <3>10 DEF Injected
    <3> QED
      BY <3>8, <3>11 DEF more
  <2> QED
    BY <1>1, <2>1, <2>2
<1> QED
  BY <1>4, <1>5, <1>6, <1>7, <1>8, <1>9 DEF k

\* The worker types the oldest of what waits: the rest is not earlier.
LEMMA InjectorOrder ==
  ASSUME HostInv, HostInv', OrderInv, UNCHANGED phone, RunInjector
  PROVE  OrderInv'
<1>0. WireTypeOK
  BY DEF HostInv, HostTypes
<1>1. PICK k \in Conns, o \in Waiting :
        /\ \A c \in Conns : /\ job'[c] = None <=> job[c] = None
                            /\ job'[c].op = job[c].op
        /\ 1 \in DOMAIN execQ /\ execQ[1] = k /\ o = job[k].op
        /\ \A i \in DOMAIN execQ' :
             /\ i \in Nat /\ i + 1 \in DOMAIN execQ /\ 1 < i + 1
             /\ job'[execQ'[i]].op = job[execQ[i + 1]].op
             /\ job[execQ[i + 1]].op \in Waiting
        /\ Injected' \subseteq Injected \cup {o}
  <2>1. execQ \in Seq(Conns)
    BY QueueJobs
  <2> QED
    BY <2>1, InjectorMoves, ElementOfSeq, LenProperties
<1>2. /\ UNCHANGED <<active, nextSession, toHost, toPhone>> /\ LinesRead
  BY DEF RunInjector, sessionVars, wireVars, LinesRead
<1>3. /\ Waiting' \subseteq Waiting
      /\ \A e \in Waiting' : ~Later(o, e)
  <2>1. \A i \in DOMAIN execQ' : ~Later(o, job[execQ[i + 1]].op)
    BY <1>1 DEF OrderInv, NothingOvertaken
  <2> QED
    BY <1>1, <2>1 DEF Waiting
<1>4. job[k] # None
  BY <1>1, QueueJobs
<1>5. HeadsOnly'
  <2>1. \A c \in Conns : job'[c] # None => Issued(job'[c].op)
    BY <1>1 DEF OrderInv, HeadsOnly
  <2>2. \A e \in Injected' : Issued(e)
    BY <1>1, <1>4 DEF OrderInv, HeadsOnly
  <2> QED
    BY <1>0, <1>2, <2>1, <2>2, HeadsStay DEF OrderInv
<1>6. NothingOvertaken'
  <2>1. ASSUME NEW i \in DOMAIN execQ', NEW j \in DOMAIN execQ', i < j
        PROVE  ~Later(job'[execQ'[i]].op, job'[execQ'[j]].op)
    <3>1. i + 1 < j + 1
      BY <1>1, <2>1
    <3> QED
      BY <1>1, <3>1 DEF OrderInv, NothingOvertaken
  <2>2. \A e \in Injected', w \in Waiting' : ~Later(e, w)
    BY <1>1, <1>3 DEF OrderInv, NothingOvertaken
  <2>3. Injected' \cup Waiting' \subseteq Injected \cup Waiting
    BY <1>1, <1>3
  <2>4. \A c \in Conns : \A i \in DOMAIN toHost[c] :
          toHost[c][i].type = "text_insert" /\ Valid(toHost[c][i].sid) =>
            \A e \in Injected' \cup Waiting' : ~Later(e, toHost[c][i].op)
    BY <2>3 DEF OrderInv, NothingOvertaken
  <2> QED
    BY <1>2, <2>1, <2>2, <2>4 DEF NothingOvertaken, Later, Valid
<1>7. LinesInOrder' /\ SessionOnOneConn'
  BY <1>2 DEF OrderInv, LinesInOrder, SessionOnOneConn, Names, Later
<1> QED
  BY <1>5, <1>6, <1>7 DEF OrderInv

LEMMA HostOrder ==
  ASSUME HostInv, OrderInv, HostNext, UNCHANGED phone
  PROVE  HostInv' /\ OrderInv'
<1>0. WireTypeOK
  BY DEF HostInv, HostTypes
<1>1. HostInv'
  BY HostStepInv
<1>2. ASSUME NEW k \in Conns, HostConnNext(k)
      PROVE  OrderInv'
  <2>1. OnAuth(k) \/ StartInsert(k) \/ QuietStep
    BY <1>2, AnswersQuiet, ResumesQuiet DEF HostConnNext
  <2> QED
    BY <1>0, <1>1, <2>1, AuthOrder, StartOrder, QuietOrder
<1>3. CASE HeartbeatGuard \/ QuietPeriod \/ RestartHost \/ RestartHostUnreadable
  BY <1>0, <1>1, <1>3, LapseQuiet, QuietOrder
<1> QED
  BY <1>1, <1>2, <1>3, InjectorOrder DEF HostNext

\* The transport only loses what was sent.
LEMMA WireQuiet ==
  ASSUME HostInv, WireNext \/ UNCHANGED wireVars,
         UNCHANGED <<phone, sessionVars, ledgerVars, hostVars>>
  PROVE  QuietStep
<1>0. WireTypeOK
  BY DEF HostInv, HostTypes
<1>1. /\ UNCHANGED <<active, nextSession, job, execQ, desktop>>
      /\ JobsKept
  BY DEF sessionVars, hostVars, JobsKept
<1>2. LinesRead /\ UNCHANGED toPhone
  <2>1. CASE WireNext
    <3>1. PICK k \in Conns : Refuse(k) \/ Reset(k) \/ Silence(k) \/ LoseTail(k)
      BY <2>1 DEF WireNext
    <3> QED
      BY <1>0, <3>1
         DEF Refuse, Reset, Silence, LoseTail, LinesRead, WireTypeOK
  <2>2. CASE UNCHANGED wireVars
    BY <2>2 DEF wireVars, LinesRead
  <2> QED
    BY <2>1, <2>2
<1> QED
  BY <1>1, <1>2 DEF QuietStep

LEMMA OrderInit ==
  ASSUME Init
  PROVE  OrderInv
<1>1. /\ \A k \in Conns : DOMAIN toHost[k] = {} /\ DOMAIN toPhone[k] = {}
      /\ \A k \in Conns : job[k] = None
      /\ DOMAIN execQ = {} /\ DOMAIN desktop = {}
      /\ \A p \in Clients : phone[p].sess = NoSid
  BY DEF Init, WireInit, HostInit, PhoneInit
<1>2. Injected = {} /\ Waiting = {}
  BY <1>1 DEF Injected, Waiting
<1>3. \A s \in SessionIds : s # NoSid
  BY BoundsAssumption DEF SessionIds, NoSid
<1> QED
  BY <1>1, <1>2, <1>3 DEF OrderInv, HeadsOnly, NothingOvertaken, LinesInOrder,
     SessionOnOneConn, Names

LEMMA OrderNext == Inv /\ OrderInv /\ [Next]_vars => OrderInv'
<1> SUFFICES ASSUME Inv, OrderInv, [Next]_vars
             PROVE  OrderInv'
  OBVIOUS
<1>0. PhoneInv /\ HostInv /\ WireTypeOK /\ HostInv' /\ PhoneInv' /\ LinesTyped
  BY NextInv DEF Inv, HostInv, HostTypes, WireTypeOK, LinesTyped
<1>1. ASSUME NEW p \in Clients, PhoneStep(p)
      PROVE  OrderInv'
  <2>1. PhoneNext(p) /\ UNCHANGED <<sessionVars, ledgerVars, hostVars>>
    BY <1>1 DEF PhoneStep
  <2>2. /\ OnlyRead(toPhone')
        /\ Kept(p) \/ Appended(p) \/ Removed(p)
        /\ \A q \in Clients \ {p} : phone'[q] = phone[q]
    BY <1>0, <2>1, PhoneStepLemma
  <2>3. Says(p)
    BY <1>0, <2>1, PhoneSays
  <2> QED
    BY <1>0, <2>1, <2>2, <2>3, PhoneOrder
<1>2. CASE HostStep
  BY <1>0, <1>2, HostOrder DEF HostStep
<1>3. CASE WireStep
  BY <1>0, <1>3, WireQuiet, QuietOrder DEF WireStep
<1>4. CASE UNCHANGED vars
  BY <1>0, <1>4, WireQuiet, QuietOrder DEF vars
<1> QED
  BY <1>1, <1>2, <1>3, <1>4 DEF Next

LEMMA SpecOrder == Spec => []OrderInv
BY SpecInv, OrderInit, OrderNext, PTL DEF Spec

\* Nothing is overtaken: on its way to the worker, in its queue and on the
\* desktop, no chunk has a later chunk of its phone before it, however many
\* connections, sessions and restarts there have been (drainDeliveryQueue,
\* handle_ws and the single-threaded executor).
THEOREM NothingIsOvertaken == Spec => []NothingOvertaken
<1>1. OrderInv => NothingOvertaken
  BY DEF OrderInv
<1> QED
  BY SpecOrder, <1>1, PTL

-----------------------------------------------------------------------------
(* The system implements TextDelivery: a phone's step submits or confirms  *)
(* a chunk or neither, the worker types one, and nothing else is seen.     *)

LEMMA ShownIsInjected ==
  ASSUME NEW p, NEW n
  PROVE  Delivery!Shown(p, n) <=> <<p, n>> \in Injected
BY DEF Delivery!Shown, Screen, Injected

LEMMA DeliveryInit ==
  ASSUME Init
  PROVE  Delivery!Init
<1>1. \A p \in Clients : phone[p].submitted = 0 /\ phone[p].queue = <<>>
  BY DEF Init, PhoneInit
<1>2. \A p \in Clients : Confirmed(p) = 0
  BY <1>1, EmptySeq DEF Confirmed
<1>3. Screen = <<>>
  <2>1. desktop = <<>> /\ desktop \in Seq(Typed)
    BY EmptySeq DEF Init, HostInit
  <2>2. Screen = Ops(desktop) /\ Len(desktop) = 0
    BY <2>1, EmptySeq DEF Screen, Ops
  <2> QED
    BY <2>1, <2>2, ScreenIsSeq, EmptySeq
<1> QED
  BY <1>1, <1>2, <1>3 DEF Delivery!Init

LEMMA PhoneDelivers ==
  ASSUME Inv, PhoneInv', NEW p \in Clients,
         Kept(p) \/ Appended(p) \/ Removed(p),
         \A q \in Clients \ {p} : phone'[q] = phone[q], UNCHANGED desktop
  PROVE  [Delivery!Next]_(Delivery!vars)
<1> DEFINE Q == phone[p].queue
<1>0. PhoneInv /\ WireTypeOK /\ AckImpliesInjected
  BY DEF Inv, HostInv, HostTypes, Truthful
<1>1. UNCHANGED Screen
  BY DEF Screen
<1>2. /\ Q \in Seq(1..MaxOps) /\ Len(Q) \in Nat /\ phone[p].submitted \in Nat
      /\ phone'[p].submitted \in 0..MaxOps /\ Sound(phone[p])
  BY <1>0, SoundFields, LenProperties DEF PhoneInv
<1>3. \A q \in Clients \ {p} : /\ phone'[q].submitted = phone[q].submitted
                               /\ Confirmed(q)' = Confirmed(q)
  BY DEF Confirmed
<1>4. CASE Kept(p)
  <2>1. \A q \in Clients : /\ phone'[q].submitted = phone[q].submitted
                           /\ Confirmed(q)' = Confirmed(q)
    BY <1>3, <1>4 DEF Kept, Confirmed
  <2> QED
    BY <1>1, <2>1 DEF Delivery!vars
<1>5. CASE Appended(p)
  <2>1. /\ phone'[p].submitted = phone[p].submitted + 1
        /\ Len(phone'[p].queue) = Len(Q) + 1
    <3>1. /\ phone'[p].submitted = phone[p].submitted + 1
          /\ phone'[p].queue = Append(Q, phone[p].submitted + 1)
      BY <1>5 DEF Appended
    <3>2. phone[p].submitted + 1 \in 1..MaxOps
      BY <1>2, <3>1, BoundsAssumption
    <3> QED
      BY <1>2, <3>1, <3>2, AppendProperties
  <2>2. phone[p].submitted < MaxOps
    BY <1>2, <2>1, BoundsAssumption
  <2>3. Confirmed(p)' = Confirmed(p)
    <3>1. \A m, n \in Nat : (m + 1) - (n + 1) = m - n
      OBVIOUS
    <3>2. Confirmed(p)' = phone'[p].submitted - Len(phone'[p].queue)
      BY DEF Confirmed
    <3> QED
      BY <1>2, <2>1, <3>1, <3>2 DEF Confirmed
  <2>4. Delivery!Submit(p)
    BY <1>1, <1>3, <2>1, <2>2, <2>3 DEF Delivery!Submit
  <2> QED
    BY <2>4 DEF Delivery!Next
<1>6. CASE Removed(p)
  <2>1. /\ phone'[p].submitted = phone[p].submitted
        /\ Len(phone'[p].queue) = Len(Q) - 1 /\ Q # <<>>
    BY <1>2, <1>6, HeadTailProperties DEF Removed
  <2>2. Confirmed(p)' = Confirmed(p) + 1
    <3>1. \A m, n \in Nat : m - (n - 1) = (m - n) + 1
      OBVIOUS
    <3>2. Confirmed(p)' = phone'[p].submitted - Len(phone'[p].queue)
      BY DEF Confirmed
    <3> QED
      BY <1>2, <2>1, <3>1, <3>2 DEF Confirmed
  <2>3. Delivery!Shown(p, Confirmed(p) + 1)
    <3>1. Head(Q) = Confirmed(p) + 1
      BY <1>2, <2>1, HeadIsNext DEF Confirmed
    <3> QED
      BY <1>0, <1>6, <3>1, RemovedIsTyped, ShownIsInjected
  <2>4. Delivery!Confirm(p)
    BY <1>1, <1>3, <2>1, <2>2, <2>3 DEF Delivery!Confirm
  <2> QED
    BY <2>4 DEF Delivery!Next
<1> QED
  BY <1>4, <1>5, <1>6

\* The last chunk that was confirmed is on the desktop.
LEMMA ConfirmedIsTyped ==
  ASSUME PhoneInv, NoSilentLoss, NEW p \in Clients, Confirmed(p) >= 1
  PROVE  <<p, Confirmed(p)>> \in Injected
<1> DEFINE Q == phone[p].queue
<1>1. /\ Q \in Seq(1..MaxOps) /\ Len(Q) \in Nat /\ phone[p].submitted \in Nat
      /\ DOMAIN Q = 1..Len(Q) /\ Sound(phone[p])
  BY SoundFields, LenProperties DEF PhoneInv
<1>2. Confirmed(p) \in 1..phone[p].submitted
  BY <1>1 DEF Confirmed
<1>3. \A i \in DOMAIN Q : Q[i] = phone[p].submitted - Len(Q) + i
  BY <1>1 DEF Sound, IsUnconfirmedTail
<1>4. Confirmed(p) \notin Queued(p)
  <2>1. \A i \in DOMAIN Q : Q[i] # Confirmed(p)
    BY <1>1, <1>3 DEF Confirmed
  <2> QED
    BY <2>1 DEF Queued
<1> QED
  BY <1>2, <1>4 DEF NoSilentLoss

LEMMA InjectorDelivers ==
  ASSUME Inv, HostInv', OrderInv, RunInjector, UNCHANGED phone
  PROVE  [Delivery!Next]_(Delivery!vars)
<1> DEFINE o == job[Head(execQ)].op
<1>0. PhoneInv /\ HostInv /\ NoSilentLoss
  BY DEF Inv
<1>1. \A p \in Clients : /\ phone'[p].submitted = phone[p].submitted
                         /\ Confirmed(p)' = Confirmed(p)
  BY DEF Confirmed
<1>2. o \in Waiting /\ (UNCHANGED Screen \/ Screen' = Append(Screen, o))
  BY <1>0, InjectorMoves
<1> HIDE DEF o
<1>3. CASE UNCHANGED Screen
  BY <1>1, <1>3 DEF Delivery!vars
<1>4. CASE Screen' = Append(Screen, o)
  <2> DEFINE p == o[1]
             n == o[2]
  <2>1. Issued(o)
    BY <1>0, <1>2, QueueJobs DEF Waiting, OrderInv, HeadsOnly
  <2>2. /\ p \in Clients /\ n \in 1..MaxOps /\ n \in Nat /\ o = <<p, n>>
        /\ n <= Confirmed(p) + 1 /\ n <= phone[p].submitted
    BY <2>1, OpFields DEF Issued
  <2> HIDE DEF p, n
  <2>3. phone[p].submitted \in Nat /\ Confirmed(p) \in Nat
    BY <1>0, <2>2, SoundFields, LenProperties DEF PhoneInv, Sound, Confirmed
  <2>4. \A m \in Nat : m > n => <<p, m>> \notin Injected
    BY <1>2, <2>2 DEF OrderInv, NothingOvertaken, Later
  <2>5. n \in {Confirmed(p), Confirmed(p) + 1}
    <3>1. ~(Confirmed(p) > n)
      <4>1. Confirmed(p) > n => Confirmed(p) >= 1
        BY <2>2, <2>3
      <4> QED
        BY <1>0, <2>2, <2>3, <2>4, <4>1, ConfirmedIsTyped
    <3> QED
      BY <2>2, <2>3, <3>1
  <2>6. \A m \in n + 1..phone[p].submitted : ~Delivery!Shown(p, m)
    <3>1. \A m \in n + 1..phone[p].submitted : m \in Nat /\ m > n
      BY <2>2, <2>3
    <3> QED
      BY <2>4, <3>1, ShownIsInjected
  <2>7. Delivery!Type(p, n)
    BY <1>1, <1>4, <2>2, <2>3, <2>5, <2>6 DEF Delivery!Type
  <2> QED
    BY <2>2, <2>7 DEF Delivery!Next
<1> QED
  BY <1>2, <1>3, <1>4

LEMMA StepDelivers ==
  Inv /\ OrderInv /\ [Next]_vars => [Delivery!Next]_(Delivery!vars)
<1> SUFFICES ASSUME Inv, OrderInv, [Next]_vars
             PROVE  [Delivery!Next]_(Delivery!vars)
  OBVIOUS
<1>0. Inv' /\ PhoneInv /\ WireTypeOK /\ PhoneInv' /\ HostInv'
  BY NextInv DEF Inv, HostInv, HostTypes
<1>1. ASSUME UNCHANGED <<phone, desktop>>
      PROVE  UNCHANGED Delivery!vars
  BY <1>1 DEF Delivery!vars, Confirmed, Screen
<1>2. ASSUME NEW p \in Clients, PhoneStep(p)
      PROVE  [Delivery!Next]_(Delivery!vars)
  <2>1. PhoneNext(p) /\ UNCHANGED desktop
    BY <1>2 DEF PhoneStep, hostVars
  <2>2. /\ Kept(p) \/ Appended(p) \/ Removed(p)
        /\ \A q \in Clients \ {p} : phone'[q] = phone[q]
    BY <1>0, <2>1, PhoneStepLemma
  <2> QED
    BY <1>0, <2>1, <2>2, PhoneDelivers
<1>3. CASE HostStep
  <2>1. RunInjector \/ UNCHANGED desktop
    <3>1. ASSUME NEW k \in Conns, HostConnNext(k)
          PROVE  UNCHANGED desktop
      BY <3>1 DEF HostConnNext, OnHello, OnAuthRefused, OnAuth, OnPing,
         RefuseInsert, AckDuplicate, StartInsert, FinishInsert, FailInsert,
         hostVars
    <3>2. ASSUME \/ HeartbeatGuard \/ QuietPeriod
                 \/ RestartHost \/ RestartHostUnreadable
          PROVE  UNCHANGED desktop
      BY <3>2 DEF HeartbeatGuard, QuietPeriod, RestartHost,
         RestartHostUnreadable, Restarted, hostVars
    <3> QED
      BY <1>3, <3>1, <3>2 DEF HostStep, HostNext
  <2>2. UNCHANGED phone
    BY <1>3 DEF HostStep
  <2> QED
    BY <1>0, <1>1, <2>1, <2>2, InjectorDelivers
<1>4. CASE WireStep \/ UNCHANGED vars
  <2>1. UNCHANGED <<phone, desktop>>
    BY <1>4 DEF WireStep, vars, hostVars
  <2> QED
    BY <1>1, <2>1
<1> QED
  BY <1>2, <1>3, <1>4 DEF Next

\* Every phone's chunks reach the desktop in order and with no gap, and a chunk
\* is typed again only while it is the last one confirmed or the first that is
\* not, never after a later one: MainActivity and server.py, with the network
\* between them, implement TextDelivery.
THEOREM ChunksInOrder == Spec => DeliversInOrder
BY DeliveryInit, StepDelivers, SpecInv, SpecOrder, PTL
   DEF Spec, DeliversInOrder, Delivery!Spec
-----------------------------------------------------------------------------
(* Both sides stay in step.  What a phone's record and the two lines of    *)
(* its connection say of each other, whatever it says or hears next.       *)

Fine(ph, out, in, jb, act) == InTurn(out, in, jb) /\ Talks(ph, out, in, jb, act)

LEMMA AppendEnds ==
  ASSUME NEW S, NEW s \in Seq(S), NEW x \in S
  PROVE  LET t == Append(s, x)
         IN \A i \in DOMAIN t : \/ i = Len(t) /\ t[i] = x
                                \/ i \in DOMAIN s /\ i # Len(t) /\ t[i] = s[i]
<1> DEFINE t == Append(s, x)
<1>1. /\ DOMAIN t = 1..Len(s) + 1 /\ Len(t) = Len(s) + 1
      /\ Len(s) \in Nat /\ DOMAIN s = 1..Len(s)
      /\ t[Len(s) + 1] = x /\ \A i \in 1..Len(s) : t[i] = s[i]
  BY AppendProperties, LenProperties
<1> HIDE DEF t
<1> QED
  BY <1>1 DEF t

LEMMA TailEnds ==
  ASSUME NEW S, NEW s \in Seq(S), s # <<>>
  PROVE  LET t == Tail(s)
         IN /\ Head(s) = s[1] /\ 1 \in DOMAIN s
            /\ \A i \in DOMAIN t :
                 /\ i + 1 \in DOMAIN s /\ t[i] = s[i + 1] /\ i + 1 # 1
                 /\ i + 1 = Len(s) => i = Len(t)
            /\ \A i, j \in DOMAIN t : i + 1 = j + 1 => i = j
            /\ Len(s) = 1 => t = <<>>
            /\ t \in Seq(S)
<1> DEFINE t == Tail(s)
<1>1. /\ Len(s) \in Nat /\ DOMAIN s = 1..Len(s) /\ Len(s) # 0
      /\ Len(t) = Len(s) - 1 /\ DOMAIN t = 1..Len(s) - 1 /\ t \in Seq(S)
      /\ Head(s) = s[1] /\ \A i \in 1..Len(s) - 1 : t[i] = s[i + 1]
  BY HeadTailProperties, LenProperties, EmptySeq
<1>2. Len(s) = 1 => t = <<>>
  BY <1>1, EmptySeq
<1> HIDE DEF t
<1> QED
  BY <1>1, <1>2 DEF t

\* The first words on a connection, or after what it carried was heard.
LEMMA FirstWord ==
  ASSUME NEW ph, ~Authed(ph), ph.conn = "open", ph.localSeq = 0, NEW act,
         NEW m \in HostMsg, m.type \in {"hello", "auth"}
  PROVE  /\ Fine(ph, <<>>, <<>>, None, act)
         /\ Fine(ph, Append(<<>>, m), <<>>, None, act)
<1>1. DOMAIN (<<>>) = {} /\ <<>> \in Seq(HostMsg)
  BY EmptySeq
<1>2. \A i \in DOMAIN Append(<<>>, m) :
        i = Len(Append(<<>>, m)) /\ Append(<<>>, m)[i] = m
  BY <1>1, AppendEnds
<1> DEFINE t == Append(<<>>, m)
<1> HIDE DEF t
<1>3. \A i \in DOMAIN t : i = Len(t) /\ t[i] = m
  BY <1>2 DEF t
<1> QED
  BY <1>1, <1>3 DEF t, Fine, InTurn, Talks, Greeting, Inserts

\* A ping in a session.
LEMMA PingFine ==
  ASSUME NEW ph, NEW out \in Seq(HostMsg), NEW in, NEW jb, NEW act,
         Fine(ph, out, in, jb, act), Authed(ph), ph.conn = "open",
         NEW m \in HostMsg, m.type = "ping"
  PROVE  Fine(ph, Append(out, m), in, jb, act)
<1> DEFINE t == Append(out, m)
<1>1. \A i \in DOMAIN t : \/ i = Len(t) /\ t[i] = m
                          \/ i \in DOMAIN out /\ t[i] = out[i]
  BY AppendEnds
<1> HIDE DEF t
<1>2. Conversing(ph, out, in, jb, act)
  BY DEF Fine, Talks
<1>3. \A i \in Inserts(t) : i \in Inserts(out) /\ t[i] = out[i]
  BY <1>1 DEF Inserts
<1>4. Conversing(ph, t, in, jb, act)
  BY <1>1, <1>2, <1>3 DEF Conversing
<1>5. InTurn(t, in, jb)
  <2>1. \A i \in DOMAIN t : t[i].type \notin {"hello", "auth"}
    BY <1>4 DEF Conversing
  <2>2. \A i, j \in Inserts(t) : t[i].sid = t[j].sid => i = j
    BY <1>3 DEF Fine, InTurn
  <2> QED
    BY <1>2, <2>1, <2>2 DEF Conversing, InTurn
<1> QED
  BY <1>4, <1>5 DEF Fine, Talks, t

\* A reply is heard.
LEMMA HeardFine ==
  ASSUME NEW ph, NEW out, NEW in \in Seq(PhoneMsg), NEW jb, NEW act,
         Fine(ph, out, in, jb, act), in # <<>>
  PROVE  Fine(ph, out, Tail(in), jb, act)
<1> DEFINE t == Tail(in)
<1>1. /\ \A i \in DOMAIN t : /\ i + 1 \in DOMAIN in /\ t[i] = in[i + 1]
                             /\ i + 1 = Len(in) => i = Len(t)
      /\ \A i, j \in DOMAIN t : i + 1 = j + 1 => i = j
  BY TailEnds
<1> HIDE DEF t
<1>2. \A i \in Acks(t) : i + 1 \in Acks(in) /\ t[i] = in[i + 1]
  BY <1>1 DEF Acks
<1>3. InTurn(out, t, jb)
  BY <1>1 DEF Fine, InTurn
<1>4. Greeting(out, in, jb) => Greeting(out, t, jb)
  BY <1>1 DEF Greeting
<1>5. Conversing(ph, out, in, jb, act) => Conversing(ph, out, t, jb, act)
  <2> SUFFICES ASSUME Conversing(ph, out, in, jb, act)
               PROVE  Conversing(ph, out, t, jb, act)
    OBVIOUS
  <2>1. \A i, j \in Acks(t) : i = j
    BY <1>1, <1>2 DEF Conversing, Acks
  <2>2. Acks(in) = {} => Acks(t) = {}
    BY <1>2
  <2>3. (\E i \in Acks(t) : t[i].ok) => \E i \in Acks(in) : in[i].ok
    BY <1>2
  <2>4. \A i \in DOMAIN t : t[i].type \notin {"hello_ok", "auth_ok"}
    BY <1>1 DEF Conversing
  <2> QED
    BY <2>1, <2>2, <2>3, <2>4 DEF Conversing
<1>6. in # <<>> /\ in = <<>> => FALSE
  OBVIOUS
<1> QED
  BY <1>3, <1>4, <1>5 DEF Fine, Talks, t

\* The phone gives up its session and greets again.
LEMMA RecoveringFine ==
  ASSUME NEW ph \in PhoneState, NEW out \in Seq(HostMsg), NEW in, NEW jb, NEW act,
         Fine(ph, out, in, jb, act), Authed(ph), ph.conn = "open",
         NEW m \in HostMsg, m.type = "hello"
  PROVE  /\ Fine(Recovering(ph), out, in, jb, act)
         /\ Fine(Recovering(ph), Append(out, m), in, jb, act)
<1> DEFINE t == Append(out, m)
           r == Recovering(ph)
<1>1. \A i \in DOMAIN t : \/ i = Len(t) /\ t[i] = m
                          \/ i \in DOMAIN out /\ t[i] = out[i]
  BY AppendEnds
<1>2. /\ ~Authed(r) /\ r.localSeq = 0 /\ r.conn = "open" /\ r.reauth
  BY DEF Recovering, PhoneState, Authed
<1> HIDE DEF t, r
<1>3. Conversing(ph, out, in, jb, act) /\ InTurn(out, in, jb)
  BY DEF Fine, Talks
<1>4. \A i \in Inserts(t) : i \in Inserts(out) /\ t[i] = out[i]
  BY <1>1 DEF Inserts
<1>5. InTurn(t, in, jb)
  <2>1. \A i \in DOMAIN t : t[i].type \in {"hello", "auth"} => i = Len(t)
    BY <1>1, <1>3 DEF Conversing
  <2>2. \A i, j \in Inserts(t) : t[i].sid = t[j].sid => i = j
    BY <1>3, <1>4 DEF InTurn
  <2> QED
    BY <1>3, <2>1, <2>2 DEF Conversing, InTurn
<1> QED
  BY <1>2, <1>3, <1>5 DEF Fine, Talks, t, r

\* The phone sends its next insert, with the number the host waits for.
LEMMA InsertFine ==
  ASSUME NEW p \in Clients, NEW ph, Sound(ph), Drains(ph),
         NEW out \in Seq(HostMsg), NEW in, NEW jb, NEW act,
         Fine(ph, out, in, jb, act)
  PROVE  /\ Fine(Drained(ph), out, in, jb, act)
         /\ Fine(Drained(ph), Append(out, HeadMsg(p, ph)), in, jb, act)
         /\ act # None /\ act.sid = ph.sess =>
              HeadMsg(p, ph).seq = act.lastSeq + 1
<1> DEFINE m == HeadMsg(p, ph)
           t == Append(out, m)
           r == Drained(ph)
<1>1. m \in HostMsg
  BY HeadMsgTyped
<1>2. \A i \in DOMAIN t : \/ i = Len(t) /\ t[i] = m
                          \/ i \in DOMAIN out /\ t[i] = out[i]
  BY <1>1, AppendEnds
<1>3. /\ r.sess = ph.sess /\ r.conn = "open" /\ Authed(r) /\ r.inflight # 0
      /\ r.localSeq = ph.localSeq + 1
  <2>1. Head(ph.queue) \in 1..MaxOps
    BY SoundDrained
  <2>2. Head(ph.queue) # 0
    BY <2>1
  <2> QED
    BY <2>2 DEF Drained, Drains, Sound, PhoneState, Authed
<1>4. m.type = "text_insert" /\ m.sid = ph.sess /\ m.seq = ph.localSeq + 1
  BY DEF HeadMsg, TextInsert
<1> HIDE DEF m, t, r
<1>5. /\ InTurn(out, in, jb) /\ Conversing(ph, out, in, jb, act)
      /\ Inserts(out) = {} /\ jb = None /\ Acks(in) = {}
  BY DEF Drains, Fine, Talks, Conversing
<1>6. \A i \in Inserts(t) : i = Len(t) /\ t[i] = m
  BY <1>2, <1>5 DEF Inserts
<1>7. Conversing(r, t, in, jb, act) /\ Conversing(r, out, in, jb, act)
  <2>1. \A i \in Inserts(t) : Numbered(t[i], r)
    BY <1>3, <1>4, <1>6 DEF Numbered
  <2>2. \A i \in DOMAIN t : t[i].type \in {"ping", "text_insert"}
    BY <1>2, <1>4, <1>5 DEF Conversing
  <2> QED
    BY <1>3, <1>5, <2>1, <2>2 DEF Conversing
<1>8. InTurn(t, in, jb)
  <2>1. \A i \in DOMAIN t : t[i].type \notin {"hello", "auth"}
    BY <1>7 DEF Conversing
  <2>2. \A i, j \in Inserts(t) : t[i].sid = t[j].sid => i = j
    BY <1>6
  <2> QED
    BY <1>5, <2>1, <2>2 DEF Conversing, InTurn
<1>9. act # None /\ act.sid = ph.sess => m.seq = act.lastSeq + 1
  BY <1>4, <1>5 DEF Conversing, Drains
<1> QED
  BY <1>3, <1>5, <1>7, <1>8, <1>9 DEF Fine, Talks, m, t, r

\* The phone hears that its insert was delivered.
LEMMA DeliveredFine ==
  ASSUME NEW ph, Sound(ph), ph.inflight # 0, NEW out,
         NEW in \in Seq(PhoneMsg), NEW jb, NEW act, Fine(ph, out, in, jb, act),
         in # <<>>, Head(in).type = "ack", Head(in).ok
  PROVE  Fine(Delivered(ph), out, Tail(in), jb, act)
<1> DEFINE t == Tail(in)
           r == Delivered(ph)
<1>1. /\ in[1] = Head(in) /\ 1 \in DOMAIN in
      /\ \A i \in DOMAIN t : /\ i + 1 \in DOMAIN in /\ t[i] = in[i + 1]
                             /\ i + 1 # 1
  BY TailEnds
<1>2. Authed(ph) /\ ph.conn = "open"
  BY DEF Sound, OnlyHeadInFlight
<1>3. /\ r.sess = ph.sess /\ r.conn = "open" /\ Authed(r) /\ r.inflight = 0
      /\ r.localSeq = ph.localSeq
  BY <1>2 DEF Delivered, Sound, PhoneState, Authed
<1> HIDE DEF t, r
<1>4. Conversing(ph, out, in, jb, act) /\ 1 \in Acks(in)
  BY <1>1, <1>2 DEF Fine, Talks, Acks
<1>5. Inserts(out) = {} /\ jb = None
  BY <1>4 DEF Conversing
<1>6. Acks(t) = {}
  <2>1. \A i \in Acks(t) : i + 1 \in Acks(in)
    BY <1>1 DEF Acks
  <2> QED
    BY <1>1, <1>4, <2>1 DEF Conversing, Acks
<1>7. act # None /\ act.sid = ph.sess => act.lastSeq = ph.localSeq
  BY <1>1, <1>4 DEF Conversing
<1>8. \A i \in DOMAIN t : t[i].type \notin {"hello_ok", "auth_ok"}
  BY <1>1, <1>4 DEF Conversing
<1>9. Conversing(r, out, t, jb, act)
  BY <1>3, <1>4, <1>5, <1>6, <1>7, <1>8 DEF Conversing
<1>10. InTurn(out, t, jb)
  BY <1>8 DEF Fine, InTurn
<1> QED
  BY <1>3, <1>9, <1>10 DEF Fine, Talks, t, r

\* A session begins.
LEMMA AuthorizedFine ==
  ASSUME NEW r, Authed(r), r.conn = "open", r.inflight = 0, r.localSeq = 0,
         NEW act, act # None /\ act.sid = r.sess => act.lastSeq = 0
  PROVE  Fine(r, <<>>, <<>>, None, act)
<1>1. DOMAIN (<<>>) = {}
  BY EmptySeq
<1>2. Inserts(<<>>) = {} /\ Acks(<<>>) = {}
  BY <1>1 DEF Inserts, Acks
<1> QED
  BY <1>1, <1>2 DEF Fine, InTurn, Talks, Conversing

\* A word of the host's part of the handshake is the only one there is.
LEMMA TokenAlone ==
  ASSUME NEW out, NEW in \in Seq(PhoneMsg), NEW jb, InTurn(out, in, jb),
         in # <<>>, Head(in).type \in {"hello_ok", "auth_ok"}
  PROVE  out = <<>> /\ jb = None /\ Tail(in) = <<>>
<1>1. /\ in[1] = Head(in) /\ 1 \in DOMAIN in
      /\ Len(in) = 1 => Tail(in) = <<>>
  BY TailEnds
<1> QED
  BY <1>1 DEF InTurn

-----------------------------------------------------------------------------
(* A phone's turn.                                                         *)

SameTalk(a, b) ==
  /\ a.sock = b.sock /\ a.conn = b.conn /\ a.sess = b.sess
  /\ a.reauth = b.reauth /\ a.localSeq = b.localSeq /\ a.inflight = b.inflight

Silent(r) == ~Authed(r) /\ r.localSeq = 0

Rests(p, r) == SameTalk(r, phone[p]) /\ UNCHANGED <<toHost, toPhone>>

Dials(p, r) ==
  /\ r.sock \in Conns /\ link[r.sock] = "unused" /\ link'[r.sock] # "unused"
  /\ r.conn = "connecting" /\ Silent(r)
  /\ UNCHANGED <<toHost, toPhone>>

Leaves(p, r) ==
  /\ r.sock = 0 /\ r.conn = "idle" /\ Silent(r)
  /\ UNCHANGED toHost
  /\ \A c \in Conns : toPhone'[c] \in {toPhone[c], <<>>}

Speaks(p, r) ==
  LET k == phone[p].sock
  IN /\ k \in Conns /\ r.sock = k
     /\ \A c \in Conns \ {k} : /\ toHost'[c] = toHost[c]
                               /\ toPhone'[c] = toPhone[c]
     /\ Fine(r, toHost'[k], toPhone'[k], job[k], active)
     /\ \A i \in DOMAIN toHost'[k] :
          \/ i \in DOMAIN toHost[k] /\ toHost'[k][i] = toHost[k][i]
          \/ LET m == toHost'[k][i]
             IN m.type = "text_insert" /\ Valid(m.sid) => IsNextSeq(m.seq)

TurnTaken(p) ==
  /\ \A c \in Conns : link'[c] = "unused" => link[c] = "unused"
  /\ \E r : /\ Become(p, r)
            /\ Rests(p, r) \/ Dials(p, r) \/ Leaves(p, r) \/ Speaks(p, r)

LEMMA HangUpLeaves ==
  ASSUME LinesTyped, NEW p, NEW ph \in PhoneState, NEW way, NEW k,
         Become(p, Retrying(ph, way)), HangUp(k)
  PROVE  TurnTaken(p)
<1> DEFINE r == Retrying(ph, way)
<1>1. r.sock = 0 /\ r.conn = "idle" /\ Silent(r)
  BY DEF Retrying, Disconnected, PhoneState, Silent, Authed
<1> HIDE DEF r
<1>2. /\ \A c \in Conns : link'[c] = "unused" => link[c] = "unused"
      /\ UNCHANGED toHost
      /\ \A c \in Conns : toPhone'[c] \in {toPhone[c], <<>>}
  BY DEF HangUp, LinesTyped
<1> QED
  BY <1>1, <1>2 DEF TurnTaken, Leaves, r

LEMMA RestartLeaves ==
  ASSUME LinesTyped, NEW p, NEW ph \in PhoneState, Restart(p, ph)
  PROVE  TurnTaken(p)
<1>1. PICK way \in Ways :
        Become(p, Retrying([ph EXCEPT !.redial = @ \ {"timer"}], way))
  BY DEF Restart
<1>2. [ph EXCEPT !.redial = @ \ {"timer"}] \in PhoneState
  BY DEF PhoneState
<1> QED
  BY <1>1, <1>2, HangUpLeaves DEF Restart

LEMMA SendTakes ==
  ASSUME LinesTyped, NEW p, NEW r \in PhoneState, NEW k \in Conns,
         phone[p].sock = k, r.sock = k, NEW m \in HostMsg, NEW q,
         Fine(r, toHost[k], q, job[k], active),
         Fine(r, Append(toHost[k], m), q, job[k], active),
         m.type = "text_insert" /\ Valid(m.sid) => IsNextSeq(m.seq),
         SendOrRestart(p, r, m, [toPhone EXCEPT ![k] = q])
  PROVE  TurnTaken(p)
<1>1. CASE /\ Become(p, r) /\ Transmit(k, m)
           /\ toPhone' = [toPhone EXCEPT ![k] = q]
  <2> DEFINE t == Append(toHost[k], m)
  <2>1. /\ toPhone'[k] = q
        /\ \A c \in Conns \ {k} : toPhone'[c] = toPhone[c]
    BY <1>1 DEF LinesTyped
  <2>2. \A c \in Conns : link'[c] = "unused" => link[c] = "unused"
    BY <1>1 DEF LinesTyped, Transmit
  <2>3. \A i \in DOMAIN t : \/ t[i] = m
                            \/ i \in DOMAIN toHost[k] /\ t[i] = toHost[k][i]
    BY AppendEnds DEF LinesTyped
  <2> HIDE DEF t
  <2>4. /\ toHost'[k] \in {toHost[k], t}
        /\ \A c \in Conns \ {k} : toHost'[c] = toHost[c]
    BY <1>1 DEF LinesTyped, Transmit, t
  <2>5. Speaks(p, r)
    BY <2>1, <2>3, <2>4 DEF Speaks, t
  <2> QED
    BY <1>1, <2>2, <2>5 DEF TurnTaken
<1> QED
  BY <1>1, RestartLeaves DEF SendOrRestart

LEMMA DrainTakes ==
  ASSUME LinesTyped, NEW p \in Clients, NEW ph, Sound(ph), NEW k \in Conns,
         phone[p].sock = k, ph.sock = k, NEW q,
         Fine(ph, toHost[k], q, job[k], active),
         ThenDrain(p, ph, [toPhone EXCEPT ![k] = q])
  PROVE  TurnTaken(p)
<1>1. CASE /\ Become(p, ph) /\ UNCHANGED <<link, toHost>>
           /\ toPhone' = [toPhone EXCEPT ![k] = q]
  <2>1. /\ toPhone'[k] = q
        /\ \A c \in Conns \ {k} : toPhone'[c] = toPhone[c]
    BY <1>1 DEF LinesTyped
  <2>2. Speaks(p, ph)
    BY <1>1, <2>1 DEF Speaks
  <2> QED
    BY <1>1, <2>2 DEF TurnTaken
<1>2. CASE /\ Drains(ph)
           /\ SendOrRestart(p, Drained(ph), HeadMsg(p, ph),
                            [toPhone EXCEPT ![k] = q])
  <2> DEFINE m == HeadMsg(p, ph)
             r == Drained(ph)
  <2>1. r \in PhoneState /\ r.sock = k
    BY <1>2, SoundDrained DEF Drained, Sound, PhoneState
  <2>2. m \in HostMsg /\ m.sid = ph.sess
    BY <1>2, HeadMsgTyped DEF HeadMsg, TextInsert
  <2>3. toHost[k] \in Seq(HostMsg)
    BY DEF LinesTyped
  <2>4. /\ Fine(r, toHost[k], q, job[k], active)
        /\ Fine(r, Append(toHost[k], m), q, job[k], active)
        /\ active # None /\ active.sid = ph.sess => m.seq = active.lastSeq + 1
    BY <1>2, <2>3, InsertFine
  <2>5. Valid(m.sid) => IsNextSeq(m.seq)
    BY <2>2, <2>4 DEF Valid, IsNextSeq
  <2> HIDE DEF m, r
  <2> QED
    BY <1>2, <2>1, <2>2, <2>4, <2>5, SendTakes DEF m, r
<1> QED
  BY <1>1, <1>2 DEF ThenDrain

LEMMA ConnectTakes ==
  ASSUME LinesTyped, NEW p \in Clients, NEW ph, Sound(ph), ph.conn = "idle",
         SameTalk(ph, phone[p]), ph.localSeq = 0,
         Connect(p, ph), UNCHANGED <<toHost, toPhone>>
  PROVE  TurnTaken(p)
<1>1. ASSUME NEW k \in Conns, Fresh(k),
             Become(p, [ph EXCEPT !.conn = "connecting", !.sock = k]),
             link' = [link EXCEPT ![k] = "dialing"]
      PROVE  TurnTaken(p)
  <2> DEFINE r == [ph EXCEPT !.conn = "connecting", !.sock = k]
  <2>1. r.sock = k /\ r.conn = "connecting" /\ Silent(r)
    BY DEF Sound, PhoneState, Silent, Authed
  <2> HIDE DEF r
  <2>2. /\ link'[k] # "unused" /\ link[k] = "unused"
        /\ \A c \in Conns : link'[c] = "unused" => link[c] = "unused"
    BY <1>1 DEF LinesTyped, Fresh
  <2> QED
    BY <1>1, <2>1, <2>2 DEF TurnTaken, Dials, r
<1>2. CASE /\ Become(p, [ph EXCEPT !.redial = @ \cup {"posted"},
                                   !.graceUsed = TRUE])
           /\ UNCHANGED link
  <2> DEFINE r == [ph EXCEPT !.redial = @ \cup {"posted"}, !.graceUsed = TRUE]
  <2>1. SameTalk(r, phone[p])
    BY DEF SameTalk, Sound, PhoneState
  <2> HIDE DEF r
  <2> QED
    BY <1>2, <2>1 DEF TurnTaken, Rests, r
<1> QED
  BY <1>1, <1>2 DEF Connect, Dial

\* What is said on a phone's connection, and how it ends with what p hears.
LEMMA PhoneFine ==
  ASSUME LinesTyped, PhoneInv, TakingTurns, NEW p \in Clients
  PROVE  LET ph == phone[p]
             k == ph.sock
         IN /\ ~Authed(ph) => ph.localSeq = 0
            /\ k \in Conns =>
                 Fine(ph, toHost[k], toPhone[k], job[k], active)
            /\ k \in Conns /\ toPhone[k] # <<>> =>
                 Fine(ph, toHost[k], Tail(toPhone[k]), job[k], active)
<1> DEFINE ph == phone[p]
           k == ph.sock
<1>1. Talks(ph, toHost[k], toPhone[k], job[k], active)
  BY DEF TakingTurns
<1>2. k \in Conns => Fine(ph, toHost[k], toPhone[k], job[k], active)
  BY <1>1 DEF TakingTurns, Fine
<1>3. ASSUME k \in Conns, toPhone[k] # <<>>
      PROVE  Fine(ph, toHost[k], Tail(toPhone[k]), job[k], active)
  <2>1. toPhone[k] \in Seq(PhoneMsg)
    BY <1>3 DEF LinesTyped
  <2> QED
    BY <1>2, <1>3, <2>1, HeardFine
<1> QED
  BY <1>1, <1>2, <1>3 DEF Talks

LEMMA PhoneTakesTurn ==
  ASSUME PhoneInv, LinesTyped, TakingTurns, NEW p \in Clients, PhoneNext(p)
  PROVE  TurnTaken(p)
<1> DEFINE ph == phone[p]
           k == ph.sock
<1>0. /\ ph \in PhoneState /\ Sound(ph) /\ (~Authed(ph) => ph.localSeq = 0)
      /\ k \in Conns => Fine(ph, toHost[k], toPhone[k], job[k], active)
      /\ k \in Conns /\ toPhone[k] # <<>> =>
           Fine(ph, toHost[k], Tail(toPhone[k]), job[k], active)
      /\ ph.conn # "open" => ~Authed(ph)
      /\ ph.inflight # 0 => Authed(ph) /\ ph.conn = "open"
  BY PhoneFine DEF PhoneInv, Sound, OnlyHeadInFlight
\* The connection p hears on.
<1>18. ASSUME NEW type, Hears(p, type)
      PROVE  /\ k \in Conns /\ toPhone[k] # <<>> /\ ph.conn = "open"
             /\ Heard(p) = Head(toPhone[k]) /\ Heard(p).type = type
             /\ Inbox(p) = [toPhone EXCEPT ![k] = Tail(toPhone[k])]
             /\ toPhone[k] \in Seq(PhoneMsg) /\ toHost[k] \in Seq(HostMsg)
             /\ InTurn(toHost[k], toPhone[k], job[k])
             /\ Fine(ph, toHost[k], Tail(toPhone[k]), job[k], active)
  <2>1. k \in Conns
    BY <1>18, InboxTyped
  <2>2. Inbox(p) = [toPhone EXCEPT ![k] = Tail(toPhone[k])]
    BY <2>1 DEF Inbox, LinesTyped
  <2> QED
    BY <1>0, <1>18, <2>1, <2>2 DEF Hears, Heard, LinesTyped, Fine
<1>1. ASSUME NEW r, Become(p, r), SameTalk(r, ph),
             UNCHANGED <<link, toHost, toPhone>>
      PROVE  TurnTaken(p)
  BY <1>1 DEF TurnTaken, Rests
<1>2. CASE AppendText(p)
  <2> DEFINE n == ph.submitted + 1
             r == [ph EXCEPT !.submitted = n, !.queue = Append(@, n)]
  <2>1. Sound(r) /\ ThenDrain(p, r, toPhone) /\ SameTalk(r, ph)
    BY <1>0, <1>2, SoundAppended DEF AppendText, PhoneState, SameTalk
  <2> HIDE DEF r
  <2>2. CASE k \in Conns
    <3>1. toPhone = [toPhone EXCEPT ![k] = toPhone[k]]
      BY <2>2 DEF LinesTyped
    <3>2. Fine(r, toHost[k], toPhone[k], job[k], active)
      BY <1>0, <2>1, <2>2
         DEF SameTalk, Fine, Talks, Conversing, Numbered, Authed
    <3>3. ThenDrain(p, r, [toPhone EXCEPT ![k] = toPhone[k]])
      BY <2>1, <3>1
    <3> QED
      BY <2>1, <2>2, <3>2, <3>3, DrainTakes DEF SameTalk
  <2>3. CASE k \notin Conns
    <3>1. ~Drains(r)
      BY <1>0, <2>1, <2>3, SockInUse DEF Drains, SameTalk
    <3> QED
      BY <1>1, <2>1, <3>1 DEF ThenDrain
  <2> QED
    BY <2>2, <2>3
<1>3. CASE PickMode(p) \/ OnResume(p)
  <2>1. \A m \in Modes : SameTalk([ph EXCEPT !.mode = m], ph)
    BY <1>0 DEF PhoneState, SameTalk
  <2>2. SameTalk([ph EXCEPT !.redial = @ \cup {"timer"}], ph)
    BY <1>0 DEF PhoneState, SameTalk
  <2>3. UNCHANGED <<link, toHost, toPhone>>
    BY <1>3 DEF PickMode, OnResume, wireVars
  <2> QED
    BY <1>1, <1>3, <2>1, <2>2, <2>3 DEF PickMode, OnResume
<1>4. CASE TapConnect(p)
  <2> DEFINE r == [ph EXCEPT !.should = TRUE, !.graceUsed = FALSE]
  <2>1. /\ r \in PhoneState /\ SameTalk(r, ph)
        /\ r.inflightSeq = ph.inflightSeq
        /\ r.queue = ph.queue /\ r.submitted = ph.submitted
    BY <1>0 DEF PhoneState, SameTalk
  <2>2. /\ \/ r.conn = "idle" /\ Connect(p, r)
           \/ Become(p, r) /\ UNCHANGED link
        /\ UNCHANGED <<toHost, toPhone>>
    BY <1>4 DEF TapConnect
  <2> HIDE DEF r
  <2>3. Sound(r) /\ (r.conn = "idle" => r.localSeq = 0)
    BY <1>0, <2>1, SoundSameFields DEF SameTalk
  <2> QED
    BY <1>1, <2>1, <2>2, <2>3, ConnectTakes
<1>5. CASE TapDisconnect(p) \/ Kill(p)
  <2>1. PICK redial : Become(p, [Disconnected(ph) EXCEPT
                       !.should = FALSE, !.graceUsed = FALSE, !.redial = redial])
    <3>1. Disconnected(ph).redial = ph.redial
      BY <1>0 DEF Disconnected, PhoneState
    <3>2. CASE TapDisconnect(p)
      <4>1. Become(p, [Disconnected(ph) EXCEPT
              !.should = FALSE, !.graceUsed = FALSE,
              !.redial = ph.redial \ {"timer"}])
        BY <3>1, <3>2 DEF TapDisconnect
      <4> QED
        BY <4>1
    <3>3. CASE Kill(p)
      BY <3>3 DEF Kill
    <3> QED
      BY <1>5, <3>2, <3>3
  <2> DEFINE r == [Disconnected(ph) EXCEPT
                     !.should = FALSE, !.graceUsed = FALSE, !.redial = redial]
  <2>2. r.sock = 0 /\ r.conn = "idle" /\ Silent(r)
    BY <1>0 DEF Disconnected, PhoneState, Silent, Authed
  <2> HIDE DEF r
  <2>3. /\ \A c \in Conns : link'[c] = "unused" => link[c] = "unused"
        /\ UNCHANGED toHost
        /\ \A c \in Conns : toPhone'[c] \in {toPhone[c], <<>>}
    BY <1>5 DEF TapDisconnect, Kill, HangUp, wireVars, LinesTyped
  <2> QED
    BY <2>1, <2>2, <2>3 DEF TurnTaken, Leaves, r
<1>6. CASE Redial(p)
  <2>1. PICK way \in ph.redial :
          LET r == [ph EXCEPT !.redial = @ \ {way}]
          IN \/ r.conn = "idle" /\ Connect(p, r)
             \/ Become(p, r) /\ UNCHANGED link
    BY <1>6 DEF Redial
  <2> DEFINE r == [ph EXCEPT !.redial = @ \ {way}]
  <2>2. /\ r \in PhoneState /\ SameTalk(r, ph)
        /\ r.inflightSeq = ph.inflightSeq
        /\ r.queue = ph.queue /\ r.submitted = ph.submitted
    BY <1>0 DEF PhoneState, SameTalk
  <2>3. \/ r.conn = "idle" /\ Connect(p, r)
        \/ Become(p, r) /\ UNCHANGED link
    BY <2>1
  <2> HIDE DEF r
  <2>4. Sound(r) /\ (r.conn = "idle" => r.localSeq = 0)
    BY <1>0, <2>2, SoundSameFields DEF SameTalk
  <2>5. UNCHANGED <<toHost, toPhone>>
    BY <1>6 DEF Redial
  <2> QED
    BY <1>1, <2>2, <2>3, <2>4, <2>5, ConnectTakes
<1>7. CASE OnOpen(p)
  <2> DEFINE r == [ph EXCEPT !.conn = "open"]
  <2>1. /\ r.sock = k /\ k \in Conns /\ ~Authed(r) /\ r.conn = "open"
        /\ r.localSeq = 0
    BY <1>0, <1>7, SockInUse DEF OnOpen, PhoneState, Authed
  <2>2. Hello(p) \in HostMsg /\ Hello(p).type = "hello"
    BY MessagesTyped DEF Hello
  <2>3. toHost[k] = <<>> /\ toPhone[k] = <<>> /\ job[k] = None
    BY <1>0, <1>7, <2>1 DEF OnOpen, Fine, Talks
  <2> HIDE DEF r
  <2>4. Fine(r, Append(<<>>, Hello(p)), <<>>, None, active)
    BY <2>1, <2>2, FirstWord
  <2>5. /\ Become(p, r) /\ toHost'[k] = Append(<<>>, Hello(p))
        /\ \A c \in Conns \ {k} : toHost'[c] = toHost[c]
        /\ UNCHANGED toPhone
        /\ \A c \in Conns : link'[c] = "unused" => link[c] = "unused"
    BY <1>7, <2>1, <2>3 DEF OnOpen, r, LinesTyped
  <2>6. \A i \in DOMAIN Append(<<>>, Hello(p)) :
          Append(<<>>, Hello(p))[i].type # "text_insert"
    <3>1. DOMAIN (<<>>) = {} /\ <<>> \in Seq(HostMsg)
      BY EmptySeq
    <3> QED
      BY <2>2, <3>1, AppendEnds
  <2>7. Speaks(p, r)
    BY <2>1, <2>3, <2>4, <2>5, <2>6 DEF Speaks
  <2> QED
    BY <2>5, <2>7 DEF TurnTaken
<1>8. CASE OnFailure(p)
  BY <1>0, <1>8, HangUpLeaves DEF OnFailure
<1>9. CASE SwitchRoute(p)
  <2>1. [ph EXCEPT !.redial = @ \ {"timer"}] \in PhoneState
    BY <1>0 DEF PhoneState
  <2> QED
    BY <1>9, <2>1, HangUpLeaves DEF SwitchRoute
<1>10. CASE RouteFound(p)
  <2>1. Connect(p, ph) /\ ph.conn = "idle" /\ UNCHANGED <<toHost, toPhone>>
    BY <1>10 DEF RouteFound, Connect
  <2> QED
    BY <1>0, <2>1, ConnectTakes DEF SameTalk
<1>11. CASE AckTimeout(p) \/ HandleAckMismatch(p) \/ HandleOtherError(p)
  BY <1>0, <1>11, RestartLeaves
     DEF AckTimeout, HandleAckMismatch, HandleOtherError
<1>12. CASE Heartbeat(p)
  <2>1. k \in Conns /\ Ping(ph.sess) \in HostMsg /\ Ping(ph.sess).type = "ping"
    <3>1. ph.sess \in SessionIds
      BY <1>0, <1>12, BoundsAssumption
         DEF Heartbeat, Authed, PhoneState, SessionIds, NoSid
    <3> QED
      BY <1>0, <1>12, <3>1, SockInUse, MessagesTyped DEF Heartbeat, Ping
  <2>2. toPhone = [toPhone EXCEPT ![k] = toPhone[k]] /\ toHost[k] \in Seq(HostMsg)
    BY <2>1 DEF LinesTyped
  <2>3. Fine(ph, Append(toHost[k], Ping(ph.sess)), toPhone[k], job[k], active)
    BY <1>0, <1>12, <2>1, <2>2, PingFine DEF Heartbeat
  <2>4. SendOrRestart(p, ph, Ping(ph.sess), [toPhone EXCEPT ![k] = toPhone[k]])
    BY <1>12, <2>2 DEF Heartbeat
  <2> QED
    BY <1>0, <2>1, <2>3, <2>4, SendTakes
<1>13. CASE HandleHelloOk(p)
  <2>1. Hears(p, "hello_ok") /\ SendOrRestart(p, ph, Auth(ph.mode), Inbox(p))
    BY <1>13 DEF HandleHelloOk
  <2>2. Auth(ph.mode) \in HostMsg /\ Auth(ph.mode).type = "auth"
    BY <1>0, MessagesTyped DEF PhoneState, Auth
  <2>3. toHost[k] = <<>> /\ job[k] = None /\ Tail(toPhone[k]) = <<>>
    <3>1. toPhone[k] # <<>> /\ Head(toPhone[k]).type \in {"hello_ok", "auth_ok"}
      BY <1>18, <2>1
    <3>2. toPhone[k] \in Seq(PhoneMsg) /\ InTurn(toHost[k], toPhone[k], job[k])
      BY <1>18, <2>1
    <3> QED
      BY <3>1, <3>2, TokenAlone
  <2>4. ~Authed(ph)
    <3>1. 1 \in DOMAIN toPhone[k] /\ toPhone[k][1].type = "hello_ok"
      BY <1>18, <2>1, TailEnds
    <3> QED
      BY <1>0, <1>18, <2>1, <3>1 DEF Fine, Talks, Conversing
  <2>5. /\ Fine(ph, <<>>, <<>>, None, active)
        /\ Fine(ph, Append(<<>>, Auth(ph.mode)), <<>>, None, active)
    BY <1>0, <1>18, <2>1, <2>2, <2>4, FirstWord
  <2>6. /\ Fine(ph, toHost[k], Tail(toPhone[k]), job[k], active)
        /\ Fine(ph, Append(toHost[k], Auth(ph.mode)), Tail(toPhone[k]), job[k],
                active)
    BY <2>3, <2>5
  <2>7. /\ SendOrRestart(p, ph, Auth(ph.mode),
                         [toPhone EXCEPT ![k] = Tail(toPhone[k])])
        /\ k \in Conns
    BY <1>18, <2>1
  <2> QED
    BY <1>0, <2>2, <2>6, <2>7, SendTakes
<1>14. CASE HandleIgnored(p)
  <2>1. PICK type : Hears(p, type) /\ toPhone' = Inbox(p)
    BY <1>14 DEF HandleIgnored
  <2>2. Become(p, ph) /\ UNCHANGED <<link, toHost>>
    BY <1>14 DEF HandleIgnored, Become, PhoneInv
  <2>3. toPhone'[k] = Tail(toPhone[k])
    BY <1>18, <2>1 DEF LinesTyped
  <2>4. \A c \in Conns \ {k} : toPhone'[c] = toPhone[c]
    BY <1>18, <2>1 DEF LinesTyped
  <2>5. Speaks(p, ph)
    BY <1>18, <2>1, <2>2, <2>3, <2>4 DEF Speaks
  <2> QED
    BY <2>2, <2>5 DEF TurnTaken
<1>15. CASE HandleAuthOk(p)
  <2> DEFINE m == Heard(p)
             r == [ph EXCEPT !.sess = m.sid, !.reauth = FALSE, !.mode = m.mode]
  <2>1. ThenDrain(p, r, Inbox(p)) /\ Hears(p, "auth_ok")
    BY <1>15 DEF HandleAuthOk
  <2>2. m.sid \in SessionIds /\ m.mode \in Modes
    <3>1. m \in PhoneMsg /\ m.type = "auth_ok"
      BY <1>18, <2>1, InboxTyped
    <3> HIDE DEF m
    <3> QED
      BY <3>1 DEF PhoneMsg
  <2>3. toHost[k] = <<>> /\ job[k] = None /\ Tail(toPhone[k]) = <<>>
    <3>1. toPhone[k] # <<>> /\ Head(toPhone[k]).type \in {"hello_ok", "auth_ok"}
      BY <1>18, <2>1
    <3>2. toPhone[k] \in Seq(PhoneMsg) /\ InTurn(toHost[k], toPhone[k], job[k])
      BY <1>18, <2>1
    <3> QED
      BY <3>1, <3>2, TokenAlone
  <2>4. 1 \in DOMAIN toPhone[k] /\ toPhone[k][1] = m /\ m.type = "auth_ok"
    BY <1>18, <2>1, TailEnds
  <2>5. ~Authed(ph)
    BY <1>0, <1>18, <2>1, <2>4 DEF Fine, Talks, Conversing
  <2>6. active # None /\ active.sid = m.sid => active.lastSeq = 0
    BY <1>18, <2>1, <2>4 DEF TakingTurns, Valid
  <2> HIDE DEF m
  <2>7. Sound(r) /\ r.sess = m.sid /\ r.sock = k
    BY <1>0, <1>18, <2>1, <2>2, SoundAuthorized DEF PhoneState
  <2>8. /\ r.conn = "open" /\ r.localSeq = 0 /\ r.inflight = 0 /\ Authed(r)
    <3>1. m.sid # NoSid
      BY <2>2, BoundsAssumption DEF SessionIds, NoSid
    <3> QED
      BY <1>0, <1>18, <2>1, <2>5, <3>1 DEF PhoneState, Authed
  <2> HIDE DEF r
  <2>9. Fine(r, <<>>, <<>>, None, active)
    BY <2>6, <2>7, <2>8, AuthorizedFine
  <2>10. Fine(r, toHost[k], Tail(toPhone[k]), job[k], active)
    BY <2>3, <2>9
  <2>11. ThenDrain(p, r, [toPhone EXCEPT ![k] = Tail(toPhone[k])]) /\ k \in Conns
    BY <1>18, <2>1
  <2> QED
    BY <2>7, <2>10, <2>11, DrainTakes
<1>16. CASE HandleAck(p)
  <2>1. /\ ThenDrain(p, Delivered(ph), Inbox(p)) /\ Hears(p, "ack")
        /\ ph.inflight # 0 /\ Heard(p).ok
    BY <1>16 DEF HandleAck, MatchesInflight
  <2>2. Sound(Delivered(ph)) /\ Delivered(ph).sock = k
    BY <1>0, <2>1, SoundDelivered DEF Delivered, PhoneState
  <2>3. Fine(Delivered(ph), toHost[k], Tail(toPhone[k]), job[k], active)
    <3>1. /\ toPhone[k] \in Seq(PhoneMsg) /\ toPhone[k] # <<>>
          /\ Head(toPhone[k]).type = "ack" /\ Head(toPhone[k]).ok
          /\ Fine(ph, toHost[k], toPhone[k], job[k], active)
      BY <1>0, <1>18, <2>1
    <3> QED
      BY <1>0, <2>1, <3>1, DeliveredFine
  <2>4. /\ ThenDrain(p, Delivered(ph), [toPhone EXCEPT ![k] = Tail(toPhone[k])])
        /\ k \in Conns
    BY <1>18, <2>1
  <2> QED
    BY <2>2, <2>3, <2>4, DrainTakes
<1>17. CASE HandleSessionError(p)
  <2>0. Hears(p, "error") /\ IsRecovery(p, Heard(p))
    BY <1>17 DEF HandleSessionError
  <2>1. CASE ~ph.reauth /\ SendOrRestart(p, Recovering(ph), Hello(p), Inbox(p))
    <3>1. Recovering(ph) \in PhoneState /\ Recovering(ph).sock = k
      BY <1>0, SoundRecovering DEF Sound, Recovering, PhoneState
    <3>2. Hello(p) \in HostMsg /\ Hello(p).type = "hello"
      BY MessagesTyped DEF Hello
    <3>3. Authed(ph)
      <4>1. 1 \in DOMAIN toPhone[k] /\ toPhone[k][1] = Heard(p)
        BY <1>18, <2>0, TailEnds
      <4>2. Heard(p).reason = "hello_required" => ph.inflight # 0
        BY <2>0 DEF IsRecovery
      <4> QED
        BY <1>0, <1>18, <2>0, <2>1, <4>1, <4>2 DEF Fine, Talks, Greeting
    <3>4. /\ Fine(Recovering(ph), toHost[k], Tail(toPhone[k]), job[k], active)
          /\ Fine(Recovering(ph), Append(toHost[k], Hello(p)),
                  Tail(toPhone[k]), job[k], active)
      BY <1>0, <1>18, <2>0, <3>2, <3>3, RecoveringFine
    <3>5. /\ SendOrRestart(p, Recovering(ph), Hello(p),
                           [toPhone EXCEPT ![k] = Tail(toPhone[k])])
          /\ k \in Conns
      BY <1>18, <2>0, <2>1
    <3> QED
      BY <3>1, <3>2, <3>4, <3>5, SendTakes
  <2>2. CASE /\ ph.reauth /\ Become(p, [ph EXCEPT !.inflight = 0, !.inflightSeq = 0])
             /\ toPhone' = Inbox(p) /\ UNCHANGED <<link, toHost>>
    <3> DEFINE r == [ph EXCEPT !.inflight = 0, !.inflightSeq = 0]
    <3>1. /\ ~Authed(ph)
          /\ SameTalk(r, ph)
      BY <1>0, <2>2 DEF PhoneState, Sound, SameTalk
    <3> HIDE DEF r
    <3>2. Fine(r, toHost[k], Tail(toPhone[k]), job[k], active)
      BY <1>18, <2>0, <3>1 DEF Fine, Talks, SameTalk, Authed
    <3>3. /\ toPhone'[k] = Tail(toPhone[k])
          /\ \A c \in Conns \ {k} : toPhone'[c] = toPhone[c]
      BY <1>18, <2>0, <2>2 DEF LinesTyped
    <3>4. Speaks(p, r)
      BY <1>18, <2>0, <2>2, <3>1, <3>2, <3>3 DEF Speaks, SameTalk
    <3> QED
      BY <2>2, <3>4 DEF TurnTaken, r
  <2> QED
    BY <1>17, <2>1, <2>2 DEF HandleSessionError
<1> QED
  BY <1>2, <1>3, <1>4, <1>5, <1>6, <1>7, <1>8, <1>9, <1>10, <1>11, <1>12,
     <1>13, <1>14, <1>15, <1>16, <1>17
     DEF PhoneNext, Hearing

StepInv == TakingTurns /\ SeqInStep

\* A line that is lost says nothing.
LEMMA LostFine ==
  ASSUME NEW out, NEW in, NEW jb, InTurn(out, in, jb)
  PROVE  /\ InTurn(<<>>, in, jb) /\ InTurn(out, <<>>, jb) /\ InTurn(<<>>, in, None)
         /\ \A ph, act : Talks(ph, out, in, jb, act) =>
              /\ Talks(ph, <<>>, in, jb, act) /\ Talks(ph, out, <<>>, jb, act)
              /\ Talks(ph, <<>>, in, None, None)
<1>1. DOMAIN (<<>>) = {}
  BY EmptySeq
<1>2. Inserts(<<>>) = {} /\ Acks(<<>>) = {}
  BY <1>1 DEF Inserts, Acks
<1>3. InTurn(<<>>, in, jb) /\ InTurn(out, <<>>, jb) /\ InTurn(<<>>, in, None)
  BY <1>1, <1>2 DEF InTurn
<1>4. ASSUME NEW ph, NEW act, Talks(ph, out, in, jb, act)
      PROVE  /\ Talks(ph, <<>>, in, jb, act) /\ Talks(ph, out, <<>>, jb, act)
             /\ Talks(ph, <<>>, in, None, None)
  <2>1. Greeting(out, in, jb) =>
          /\ Greeting(<<>>, in, jb) /\ Greeting(out, <<>>, jb)
          /\ Greeting(<<>>, in, None)
    BY <1>1 DEF Greeting
  <2>2. Conversing(ph, out, in, jb, act) =>
          /\ Conversing(ph, <<>>, in, jb, act)
          /\ Conversing(ph, out, <<>>, jb, act)
          /\ Conversing(ph, <<>>, in, None, None)
    BY <1>1, <1>2 DEF Conversing
  <2> QED
    BY <1>4, <2>1, <2>2 DEF Talks
<1> QED
  BY <1>3, <1>4

\* A phone without a connection.
LEMMA IdleTalks ==
  ASSUME NEW ph, Sound(ph), ph.sock = 0, ph.localSeq = 0,
         NEW out, NEW in, NEW jb, NEW act
  PROVE  Talks(ph, out, in, jb, act)
BY DEF Sound, Talks

LEMMA PhoneKeepsTurns ==
  ASSUME PhoneInv, PhoneInv', WireTypeOK, StepInv, NEW p \in Clients,
         TurnTaken(p), OnlyRead(toPhone'),
         \A q \in Clients \ {p} : phone'[q] = phone[q], UNCHANGED <<active, job>>
  PROVE  StepInv'
<1> DEFINE k == phone[p].sock
<1>1. PICK r : /\ Become(p, r)
               /\ Rests(p, r) \/ Dials(p, r) \/ Leaves(p, r) \/ Speaks(p, r)
  BY DEF TurnTaken
<1>2. /\ phone'[p] = r /\ Sound(r) /\ Sound(phone[p])
      /\ \A q \in Clients : Sound(phone[q]) /\ Sound(phone'[q])
      /\ \A c \in Conns : link'[c] = "unused" => link[c] = "unused"
      /\ 0 \notin Conns
  BY <1>1, BoundsAssumption DEF Become, PhoneInv, TurnTaken, Conns
<1>3. SocketsOwned /\ \A q \in Clients : phone[q].sock \in Conns \cup {0}
  <2>1. SocketsOwned
    BY DEF StepInv, TakingTurns
  <2>2. \A q \in Clients : phone[q].sock \in 0..MaxConn
    BY <1>2 DEF Sound, PhoneState
  <2> QED
    BY <2>1, <2>2, BoundsAssumption DEF Conns
\* The connections that p does not speak on.
<1>4. ASSUME NEW c \in Conns, c # k \/ ~Speaks(p, r)
      PROVE  toHost'[c] = toHost[c] /\ toPhone'[c] \in {toPhone[c], <<>>}
  BY <1>1, <1>4 DEF Rests, Dials, Leaves, Speaks
<1>5. \A c \in Conns : InTurn(toHost'[c], toPhone'[c], job'[c])
  <2> SUFFICES ASSUME NEW c \in Conns
               PROVE  InTurn(toHost'[c], toPhone'[c], job[c])
    OBVIOUS
  <2>1. InTurn(toHost[c], toPhone[c], job[c])
    BY DEF StepInv, TakingTurns
  <2>2. CASE c = k /\ Speaks(p, r)
    BY <2>2 DEF Speaks, Fine
  <2> QED
    BY <1>4, <2>1, <2>2, LostFine
<1>6. ASSUME NEW q \in Clients
      PROVE  LET c == phone'[q].sock
             IN Talks(phone'[q], toHost'[c], toPhone'[c], job'[c], active')
  <2> DEFINE c == phone'[q].sock
  <2>1. CASE q # p
    <3>1. phone'[q] = phone[q] /\ c \in Conns \cup {0}
      BY <1>3, <2>1
    <3>2. Talks(phone[q], toHost[c], toPhone[c], job[c], active)
      BY <3>1 DEF StepInv, TakingTurns
    <3>3. CASE c \in Conns
      <4>1. c # k
        BY <1>2, <1>3, <2>1, <3>1, <3>3 DEF SocketsOwned
      <4>2. InTurn(toHost[c], toPhone[c], job[c])
        BY <3>3 DEF StepInv, TakingTurns
      <4>3. toHost'[c] = toHost[c] /\ toPhone'[c] \in {toPhone[c], <<>>}
        BY <1>4, <3>3, <4>1
      <4>4. Talks(phone[q], toHost'[c], toPhone'[c], job[c], active)
        <5> HIDE DEF c
        <5> QED
          BY <3>1, <3>2, <4>2, <4>3, LostFine
      <4> QED
        BY <3>1, <4>4
    <3>4. CASE c = 0
      <4>1. Sound(phone[q]) /\ phone[q].sock = 0 /\ ~Authed(phone[q])
        BY <1>2, <3>1, <3>4 DEF Sound
      <4>2. phone[q].localSeq = 0
        BY <3>2, <4>1 DEF Talks
      <4> QED
        BY <3>1, <4>1, <4>2, IdleTalks
    <3> QED
      BY <3>1, <3>3, <3>4
  <2>2. CASE q = p /\ Rests(p, r)
    <3>1. c = k /\ SameTalk(r, phone[p]) /\ UNCHANGED <<toHost, toPhone, job>>
      BY <1>2, <2>2 DEF Rests, SameTalk
    <3>2. Talks(phone[p], toHost[k], toPhone[k], job[k], active)
      BY DEF StepInv, TakingTurns
    <3>3. Talks(r, toHost[k], toPhone[k], job[k], active)
      BY <3>1, <3>2 DEF Talks, SameTalk, Authed, Conversing, Numbered
    <3> QED
      BY <1>2, <2>2, <3>1, <3>3
  <2>3. CASE q = p /\ Dials(p, r)
    <3>1. c = r.sock /\ r.sock \in Conns /\ UNCHANGED <<toHost, toPhone, job>>
      BY <1>2, <2>3 DEF Dials
    <3>2. toHost[c] = <<>> /\ toPhone[c] = <<>> /\ job[c] = None
      BY <1>3, <2>3, <3>1 DEF SocketsOwned, Dials
    <3>3. Talks(r, <<>>, <<>>, None, active)
      BY <2>3 DEF Dials, Silent, Talks
    <3> HIDE DEF c
    <3> QED
      BY <1>2, <2>3, <3>1, <3>2, <3>3
  <2>4. CASE q = p /\ Leaves(p, r)
    BY <1>2, <2>4, IdleTalks DEF Leaves, Silent
  <2>5. CASE q = p /\ Speaks(p, r)
    BY <1>2, <2>5 DEF Speaks, Fine
  <2> QED
    BY <1>1, <2>1, <2>2, <2>3, <2>4, <2>5
<1>7. SocketsOwned'
  <2>1. ASSUME NEW c \in Conns, link'[c] = "unused"
        PROVE  toHost'[c] = <<>> /\ toPhone'[c] = <<>> /\ job'[c] = None
    <3>1. link[c] = "unused"
      BY <1>2, <2>1
    <3>2. toHost[c] = <<>> /\ toPhone[c] = <<>> /\ job[c] = None
      BY <1>3, <3>1 DEF SocketsOwned
    <3>3. c # k
      BY <1>2, <1>3, <3>1 DEF SocketsOwned
    <3> QED
      BY <1>4, <3>2, <3>3
  <2>2. ASSUME NEW q \in Clients, phone'[q].sock # 0
        PROVE  /\ link'[phone'[q].sock] # "unused"
               /\ \A o \in Clients : phone'[o].sock = phone'[q].sock => o = q
    <3>1. r.sock = k \/ Dials(p, r) \/ r.sock = 0
      BY <1>1 DEF Rests, SameTalk, Leaves, Speaks
    <3>2. \A o \in Clients \ {p} : phone'[o].sock = phone[o].sock
      OBVIOUS
    <3>3. phone'[p].sock = r.sock
      BY <1>2
    <3>4. \A o \in Clients : phone[o].sock # 0 =>
            /\ link[phone[o].sock] # "unused"
            /\ link'[phone[o].sock] # "unused"
      BY <1>2, <1>3 DEF SocketsOwned
    <3>5. CASE r.sock = k
      BY <1>3, <2>2, <3>2, <3>3, <3>4, <3>5 DEF SocketsOwned
    <3>6. CASE r.sock = 0
      BY <1>3, <2>2, <3>2, <3>3, <3>4, <3>6 DEF SocketsOwned
    <3>7. CASE Dials(p, r)
      <4>1. /\ r.sock \in Conns /\ link[r.sock] = "unused" /\ r.sock # 0
            /\ link'[r.sock] # "unused"
        BY <1>2, <3>7 DEF Dials
      <4>2. \A o \in Clients : phone[o].sock # r.sock
        BY <3>4, <4>1
      <4> QED
        BY <1>3, <2>2, <3>2, <3>3, <3>4, <4>1, <4>2 DEF SocketsOwned
    <3> QED
      BY <3>1, <3>5, <3>6, <3>7
  <2> QED
    BY <2>1, <2>2 DEF SocketsOwned
<1>8. ASSUME NEW c \in Conns, NEW i \in DOMAIN toPhone'[c],
             toPhone'[c][i].type = "auth_ok", Valid(toPhone'[c][i].sid)
      PROVE  active.lastSeq = 0
  <2>1. PICK j \in DOMAIN toPhone[c] : toPhone'[c][i] = toPhone[c][j]
    BY ReadReplies
  <2> QED
    BY <1>8, <2>1 DEF StepInv, TakingTurns
<1>9. ASSUME NEW c \in Conns, NEW i \in DOMAIN toHost'[c],
             toHost'[c][i].type = "text_insert", Valid(toHost'[c][i].sid)
      PROVE  IsNextSeq(toHost'[c][i].seq)
  <2>1. CASE i \in DOMAIN toHost[c] /\ toHost'[c][i] = toHost[c][i]
    BY <1>9, <2>1 DEF StepInv, SeqInStep
  <2>2. CASE c = k /\ Speaks(p, r)
    BY <1>9, <2>1, <2>2 DEF Speaks
  <2> QED
    BY <1>4, <1>9, <2>1, <2>2
<1> QED
  BY <1>5, <1>6, <1>7, <1>8, <1>9
     DEF StepInv, TakingTurns, SeqInStep, Valid, IsNextSeq

-----------------------------------------------------------------------------
(* The host's turn.                                                        *)

\* A message is read: what is left, and what it says of the phone's side.
LEMMA ReadTurn ==
  ASSUME NEW out \in Seq(HostMsg), out # <<>>, NEW in, InTurn(out, in, None)
  PROVE  LET m == Head(out)
             t == Tail(out)
         IN /\ InTurn(t, in, None)
            /\ \A i \in DOMAIN in : in[i].type \notin {"hello_ok", "auth_ok"}
            /\ m.type \in {"hello", "auth"} => t = <<>>
            /\ m.type = "text_insert" => \A i \in Inserts(t) : t[i].sid # m.sid
            /\ \A i \in DOMAIN t : \E j \in DOMAIN out : t[i] = out[j]
            /\ \E j \in DOMAIN out : out[j] = m
            /\ m.type = "text_insert" => \E j \in Inserts(out) : out[j] = m
<1> DEFINE t == Tail(out)
           m == Head(out)
<1>1. /\ m = out[1] /\ 1 \in DOMAIN out /\ (Len(out) = 1 => t = <<>>)
      /\ \A i \in DOMAIN t : /\ i + 1 \in DOMAIN out /\ t[i] = out[i + 1]
                             /\ i + 1 # 1
                             /\ i + 1 = Len(out) => i = Len(t)
      /\ \A i, j \in DOMAIN t : i + 1 = j + 1 => i = j
  BY TailEnds
<1> HIDE DEF t, m
<1>2. \A i \in DOMAIN in : in[i].type \notin {"hello_ok", "auth_ok"}
  BY DEF InTurn
<1>3. \A i \in Inserts(t) : i + 1 \in Inserts(out) /\ t[i] = out[i + 1]
  BY <1>1 DEF Inserts
<1>4. \A i, j \in Inserts(t) : t[i].sid = t[j].sid => i = j
  BY <1>1, <1>3 DEF InTurn, Inserts
<1>5. InTurn(t, in, None)
  BY <1>1, <1>2, <1>4 DEF InTurn
<1>6. m.type \in {"hello", "auth"} => t = <<>>
  BY <1>1 DEF InTurn
<1>7. ASSUME m.type = "text_insert", NEW i \in Inserts(t)
      PROVE  t[i].sid # m.sid
  <2>1. 1 \in Inserts(out) /\ i + 1 \in Inserts(out) /\ i + 1 # 1
    BY <1>1, <1>3, <1>7 DEF Inserts
  <2> QED
    BY <1>1, <1>3, <2>1 DEF InTurn
<1> QED
  BY <1>1, <1>2, <1>5, <1>6, <1>7 DEF t, m, Inserts

LEMMA ReplyEnds ==
  ASSUME NEW in \in Seq(PhoneMsg), NEW r \in PhoneMsg,
         NEW more \in {in, Append(in, r)}
  PROVE  \A i \in DOMAIN more :
           \/ i = Len(more) /\ more[i] = r
           \/ i \in DOMAIN in /\ more[i] = in[i]
BY AppendEnds

\* The host's part of the handshake, or its refusal.
LEMMA GreetedTurn ==
  ASSUME NEW out \in Seq(HostMsg), out # <<>>, NEW in \in Seq(PhoneMsg),
         InTurn(out, in, None), Head(out).type \in {"hello", "auth"},
         NEW r \in PhoneMsg,
         \/ r.type \in {"hello_ok", "auth_ok"}
         \/ r.type = "error" /\ r.reason = "hello_required",
         NEW more \in {in, Append(in, r)}
  PROVE  /\ InTurn(Tail(out), more, None)
         /\ \A ph, act, now : Talks(ph, out, in, None, act) =>
              Talks(ph, Tail(out), more, None, now)
<1>1. /\ Tail(out) = <<>>
      /\ \A i \in DOMAIN in : in[i].type \notin {"hello_ok", "auth_ok"}
      /\ \E j \in DOMAIN out : out[j] = Head(out)
  BY ReadTurn
<1>2. \A i \in DOMAIN more : \/ i = Len(more) /\ more[i] = r
                             \/ i \in DOMAIN in /\ more[i] = in[i]
  BY ReplyEnds
<1>3. DOMAIN (<<>>) = {} /\ Inserts(<<>>) = {}
  BY EmptySeq DEF Inserts
<1>4. InTurn(<<>>, more, None)
  BY <1>1, <1>2, <1>3 DEF InTurn
<1>5. ASSUME NEW ph, NEW act, NEW now, Talks(ph, out, in, None, act)
      PROVE  Talks(ph, <<>>, more, None, now)
  <2>1. ~Authed(ph) /\ ph.conn # "connecting"
    BY <1>1, <1>5 DEF Talks, Conversing
  <2>2. Greeting(out, in, None) => Greeting(<<>>, more, None)
    BY <1>2, <1>3 DEF Greeting
  <2> QED
    BY <1>5, <2>1, <2>2 DEF Talks
<1> QED
  BY <1>1, <1>4, <1>5

\* An answer to a ping.
LEMMA PingedTurn ==
  ASSUME NEW out \in Seq(HostMsg), out # <<>>, NEW in \in Seq(PhoneMsg),
         InTurn(out, in, None), Head(out).type = "ping",
         NEW r \in PhoneMsg, r.type \in {"pong", "error"},
         NEW more \in {in, Append(in, r)}
  PROVE  /\ InTurn(Tail(out), more, None)
         /\ \A ph, act : Talks(ph, out, in, None, act) =>
              Talks(ph, Tail(out), more, None, act)
<1> DEFINE t == Tail(out)
<1>1. /\ InTurn(t, in, None)
      /\ \A i \in DOMAIN in : in[i].type \notin {"hello_ok", "auth_ok"}
      /\ \A i \in DOMAIN t : \E j \in DOMAIN out : t[i] = out[j]
      /\ \E j \in DOMAIN out : out[j] = Head(out)
  BY ReadTurn
<1> HIDE DEF t
<1>2. \A i \in DOMAIN more : \/ i = Len(more) /\ more[i] = r
                             \/ i \in DOMAIN in /\ more[i] = in[i]
  BY ReplyEnds
<1>3. InTurn(t, more, None)
  BY <1>1, <1>2 DEF InTurn
<1>4. Acks(more) \subseteq Acks(in) /\ \A i \in Acks(more) : more[i] = in[i]
  BY <1>2 DEF Acks
<1>5. ASSUME NEW ph, NEW act, Talks(ph, out, in, None, act)
      PROVE  Talks(ph, t, more, None, act)
  <2>1. ph.conn # "connecting" /\ ~Greeting(out, in, None)
    BY <1>1, <1>5 DEF Talks, Greeting
  <2>2. Conversing(ph, out, in, None, act) => Conversing(ph, t, more, None, act)
    <3> SUFFICES ASSUME Conversing(ph, out, in, None, act)
                 PROVE  Conversing(ph, t, more, None, act)
      OBVIOUS
    <3>1. \A i \in Inserts(t) : \E j \in Inserts(out) : t[i] = out[j]
      BY <1>1 DEF Inserts
    <3>2. /\ Inserts(out) = {} => Inserts(t) = {}
          /\ Acks(in) = {} => Acks(more) = {}
      BY <1>4, <3>1
    <3>3. \A i \in Inserts(t) : Numbered(t[i], ph) /\ Acks(in) = {}
      BY <3>1 DEF Conversing
    <3>4. \A i \in DOMAIN t : t[i].type \in {"ping", "text_insert"}
      BY <1>1 DEF Conversing
    <3>5. \A i \in DOMAIN more : more[i].type \notin {"hello_ok", "auth_ok"}
      BY <1>1, <1>2
    <3>6. (\E i \in Acks(more) : more[i].ok) => \E i \in Acks(in) : in[i].ok
      BY <1>4
    <3>7. \A i, j \in Acks(more) : i = j
      BY <1>4 DEF Conversing
    <3> QED
      BY <3>2, <3>3, <3>4, <3>5, <3>6, <3>7 DEF Conversing
  <2> QED
    BY <1>5, <2>1, <2>2 DEF Talks
<1> QED
  BY <1>3, <1>5 DEF t

\* An answer to an insert: a success is counted on both sides.
LEMMA AnsweredTurn ==
  ASSUME NEW out \in Seq(HostMsg), out # <<>>, NEW in \in Seq(PhoneMsg),
         InTurn(out, in, None), Head(out).type = "text_insert",
         NEW r \in PhoneMsg, r.type = "ack",
         NEW more \in {in, Append(in, r)}
  PROVE  /\ InTurn(Tail(out), more, None)
         /\ \A ph, act, now :
              /\ Talks(ph, out, in, None, act)
              /\ r.ok /\ now # None /\ now.sid = ph.sess =>
                   now.lastSeq = Head(out).seq
              => Talks(ph, Tail(out), more, None, now)
<1> DEFINE t == Tail(out)
           m == Head(out)
<1>1. /\ InTurn(t, in, None)
      /\ \A i \in DOMAIN in : in[i].type \notin {"hello_ok", "auth_ok"}
      /\ \A i \in DOMAIN t : \E j \in DOMAIN out : t[i] = out[j]
      /\ \E j \in Inserts(out) : out[j] = m
      /\ \A i \in Inserts(t) : t[i].sid # m.sid
  BY ReadTurn
<1> HIDE DEF t, m
<1>2. \A i \in DOMAIN more : \/ i = Len(more) /\ more[i] = r
                             \/ i \in DOMAIN in /\ more[i] = in[i]
  BY ReplyEnds
<1>3. InTurn(t, more, None)
  BY <1>1, <1>2 DEF InTurn
<1>5. ASSUME NEW ph, NEW act, NEW now, Talks(ph, out, in, None, act),
             r.ok /\ now # None /\ now.sid = ph.sess => now.lastSeq = m.seq
      PROVE  Talks(ph, t, more, None, now)
  <2>1. ph.conn # "connecting" /\ ~Greeting(out, in, None)
    BY <1>1, <1>5 DEF Talks, Greeting, Inserts
  <2>2. Conversing(ph, out, in, None, act) => Conversing(ph, t, more, None, now)
    <3> SUFFICES ASSUME Conversing(ph, out, in, None, act)
                 PROVE  Conversing(ph, t, more, None, now)
      OBVIOUS
    <3>1. \A i \in Inserts(t) : \E j \in Inserts(out) : t[i] = out[j]
      BY <1>1 DEF Inserts
    <3>2. Numbered(m, ph) /\ Acks(in) = {} /\ ph.inflight # 0
      BY <1>1 DEF Conversing
    <3>3. Inserts(t) = {}
      BY <1>1, <3>1, <3>2 DEF Conversing, Numbered
    <3>4. \A i \in DOMAIN t : t[i].type \in {"ping", "text_insert"}
      BY <1>1 DEF Conversing
    <3>5. \A i \in DOMAIN more : more[i].type \notin {"hello_ok", "auth_ok"}
      BY <1>1, <1>2
    <3>6. \A i \in Acks(more) : i = Len(more) /\ more[i] = r
      BY <1>2, <3>2 DEF Acks
    <3>7. \A i, j \in Acks(more) : i = j
      BY <3>6
    <3>8. /\ now # None /\ now.sid = ph.sess
          /\ \E i \in Acks(more) : more[i].ok
          => now.lastSeq = ph.localSeq
      BY <1>5, <3>2, <3>6 DEF Numbered
    <3> QED
      BY <3>2, <3>3, <3>4, <3>5, <3>7, <3>8 DEF Conversing
  <2> QED
    BY <1>5, <2>1, <2>2 DEF Talks
<1> QED
  BY <1>3, <1>5 DEF t, m

\* An insert is counted, and its handler awaits the worker.
LEMMA StartedTurn ==
  ASSUME NEW out \in Seq(HostMsg), out # <<>>, NEW in \in Seq(PhoneMsg),
         InTurn(out, in, None), Head(out).type = "text_insert",
         NEW jb, jb # None, jb.sid = Head(out).sid, jb.seq = Head(out).seq
  PROVE  /\ InTurn(Tail(out), in, jb)
         /\ \A ph, act, now :
              /\ Talks(ph, out, in, None, act)
              /\ now # None /\ now.sid = ph.sess => now.lastSeq = jb.seq
              => Talks(ph, Tail(out), in, jb, now)
<1> DEFINE t == Tail(out)
           m == Head(out)
<1>1. /\ InTurn(t, in, None)
      /\ \A i \in DOMAIN in : in[i].type \notin {"hello_ok", "auth_ok"}
      /\ \A i \in DOMAIN t : \E j \in DOMAIN out : t[i] = out[j]
      /\ \E j \in Inserts(out) : out[j] = m
      /\ \A i \in Inserts(t) : t[i].sid # m.sid
  BY ReadTurn
<1> HIDE DEF t, m
<1>2. InTurn(t, in, jb)
  BY <1>1 DEF InTurn
<1>3. ASSUME NEW ph, NEW act, NEW now, Talks(ph, out, in, None, act),
             now # None /\ now.sid = ph.sess => now.lastSeq = jb.seq
      PROVE  Talks(ph, t, in, jb, now)
  <2>1. ph.conn # "connecting" /\ ~Greeting(out, in, None)
    BY <1>1, <1>3 DEF Talks, Greeting, Inserts
  <2>2. Conversing(ph, out, in, None, act) => Conversing(ph, t, in, jb, now)
    <3> SUFFICES ASSUME Conversing(ph, out, in, None, act)
                 PROVE  Conversing(ph, t, in, jb, now)
      OBVIOUS
    <3>1. \A i \in Inserts(t) : \E j \in Inserts(out) : t[i] = out[j]
      BY <1>1 DEF Inserts
    <3>2. Numbered(m, ph) /\ Acks(in) = {} /\ ph.inflight # 0
      BY <1>1 DEF Conversing
    <3>3. Inserts(t) = {}
      BY <1>1, <3>1, <3>2 DEF Conversing, Numbered
    <3>4. \A i \in DOMAIN t : t[i].type \in {"ping", "text_insert"}
      BY <1>1 DEF Conversing
    <3>5. Numbered(jb, ph)
      BY <3>2 DEF Numbered, m
    <3>6. now # None /\ now.sid = ph.sess => now.lastSeq = ph.localSeq
      BY <1>3, <3>5 DEF Numbered
    <3> QED
      BY <1>1, <3>2, <3>3, <3>4, <3>5, <3>6 DEF Conversing
  <2> QED
    BY <1>3, <2>1, <2>2 DEF Talks
<1> QED
  BY <1>2, <1>3 DEF t, m

\* The handler is resumed, and answers.
LEMMA ResumedTurn ==
  ASSUME NEW out, NEW in \in Seq(PhoneMsg), NEW jb, jb # None,
         InTurn(out, in, jb), NEW r \in PhoneMsg, r.type = "ack",
         NEW more \in {in, Append(in, r)}
  PROVE  /\ InTurn(out, more, None)
         /\ \A ph, act : Talks(ph, out, in, jb, act) =>
              Talks(ph, out, more, None, act)
<1>1. \A i \in DOMAIN in : in[i].type \notin {"hello_ok", "auth_ok"}
  BY DEF InTurn
<1>2. \A i \in DOMAIN more : \/ i = Len(more) /\ more[i] = r
                             \/ i \in DOMAIN in /\ more[i] = in[i]
  BY ReplyEnds
<1>3. InTurn(out, more, None)
  BY <1>1, <1>2 DEF InTurn
<1>4. ASSUME NEW ph, NEW act, Talks(ph, out, in, jb, act)
      PROVE  Talks(ph, out, more, None, act)
  <2>1. ph.conn # "connecting" /\ ~Greeting(out, in, jb)
    BY <1>4 DEF Talks, Greeting
  <2>2. Conversing(ph, out, in, jb, act) => Conversing(ph, out, more, None, act)
    <3> SUFFICES ASSUME Conversing(ph, out, in, jb, act)
                 PROVE  Conversing(ph, out, more, None, act)
      OBVIOUS
    <3>1. /\ Acks(in) = {} /\ ph.inflight # 0 /\ Inserts(out) = {}
          /\ act # None /\ act.sid = ph.sess => act.lastSeq = ph.localSeq
      BY DEF Conversing
    <3>2. \A i \in DOMAIN more : more[i].type \notin {"hello_ok", "auth_ok"}
      BY <1>1, <1>2
    <3>3. \A i \in Acks(more) : i = Len(more)
      BY <1>2, <3>1 DEF Acks
    <3> QED
      BY <3>1, <3>2, <3>3 DEF Conversing
  <2> QED
    BY <1>4, <2>1, <2>2 DEF Talks
<1> QED
  BY <1>3, <1>4

\* The worker's progress is not seen by the phone.
LEMMA WorkedTurn ==
  ASSUME NEW out, NEW in, NEW jb, NEW done, jb # None, done # None,
         done.sid = jb.sid, done.seq = jb.seq, InTurn(out, in, jb)
  PROVE  /\ InTurn(out, in, done)
         /\ \A ph, act : Talks(ph, out, in, jb, act) =>
              Talks(ph, out, in, done, act)
BY DEF InTurn, Talks, Greeting, Conversing, Numbered

\* The session of another connection, or one that stays as it is.
LEMMA OtherSession ==
  ASSUME NEW ph, NEW out, NEW in, NEW jb, NEW act, NEW now,
         Talks(ph, out, in, jb, act),
         \/ now = None
         \/ act # None /\ now.sid = act.sid /\ now.lastSeq = act.lastSeq
         \/ now.sid # ph.sess
  PROVE  Talks(ph, out, in, jb, now)
BY DEF Talks, Conversing

\* The session is the same, or gone.
Steady == active' = None \/ /\ active # None /\ active'.sid = active.sid
                            /\ active'.lastSeq = active.lastSeq

\* Nothing but the connection k is used.
Only1(k) ==
  /\ UNCHANGED <<phone, link>>
  /\ \A c \in Conns \ {k} : /\ toHost'[c] = toHost[c]
                            /\ toPhone'[c] = toPhone[c] /\ job'[c] = job[c]

\* The host does something on k, and the phone on k can go on from there.
LEMMA HostKeepsTurns ==
  ASSUME PhoneInv, StepInv, NEW k \in Conns, Only1(k),
         toHost[k] # <<>> \/ job[k] # None,
         InTurn(toHost'[k], toPhone'[k], job'[k]),
         \A p \in Clients : phone[p].sock = k =>
           Talks(phone[p], toHost'[k], toPhone'[k], job'[k], active'),
         Steady \/ \A p \in Clients :
                     phone[p].sock \in Conns \ {k} => active'.sid # phone[p].sess,
         \A c \in Conns : \A i \in DOMAIN toPhone'[c] :
           /\ toPhone'[c][i].type = "auth_ok"
           /\ active' # None /\ active'.sid = toPhone'[c][i].sid
           => active'.lastSeq = 0,
         SeqInStep'
  PROVE  StepInv'
<1>1. \A c \in Conns : InTurn(toHost'[c], toPhone'[c], job'[c])
  BY DEF Only1, StepInv, TakingTurns
<1>2. ASSUME NEW p \in Clients
      PROVE  LET c == phone'[p].sock
             IN Talks(phone'[p], toHost'[c], toPhone'[c], job'[c], active')
  <2> DEFINE c == phone[p].sock
  <2>1. /\ UNCHANGED phone /\ Sound(phone[p])
        /\ Talks(phone[p], toHost[c], toPhone[c], job[c], active)
    BY DEF PhoneInv, Only1, StepInv, TakingTurns
  <2>2. CASE c = k
    BY <2>1, <2>2
  <2>3. CASE c \in Conns \ {k}
    <3>1. toHost'[c] = toHost[c] /\ toPhone'[c] = toPhone[c] /\ job'[c] = job[c]
      BY <2>3 DEF Only1
    <3>2. Steady \/ active'.sid # phone[p].sess
      BY <2>3
    <3>3. Talks(phone[p], toHost[c], toPhone[c], job[c], active')
      <4> HIDE DEF c
      <4> QED
        BY <2>1, <3>2, OtherSession DEF Steady
    <3> QED
      BY <2>1, <3>1, <3>3
  <2>4. CASE c = 0
    <3>1. phone[p].localSeq = 0
      BY <2>1, <2>4 DEF Sound, Talks
    <3> QED
      BY <2>1, <2>4, <3>1, IdleTalks
  <2>5. c \in 0..MaxConn
    BY <2>1 DEF Sound, PhoneState
  <2> QED
    BY <2>2, <2>3, <2>4, <2>5, BoundsAssumption DEF Conns
<1>3. SocketsOwned'
  <2>1. SocketsOwned
    BY DEF StepInv, TakingTurns
  <2>2. link[k] # "unused"
    BY <2>1 DEF SocketsOwned
  <2> QED
    BY <2>1, <2>2 DEF SocketsOwned, Only1
<1> QED
  BY <1>1, <1>2, <1>3 DEF StepInv, TakingTurns, Valid

\* The host reads a message and answers it.
Answers(k, type, r) ==
  /\ Reads(k, type) /\ Consumed(k) /\ Emit(k, r)
  /\ UNCHANGED <<phone, link, job>>

LEMMA AnswerShape ==
  ASSUME WireTypeOK, StepInv, NEW k \in Conns, NEW type, NEW r \in PhoneMsg,
         Answers(k, type, r)
  PROVE  /\ Only1(k) /\ LinesRead
         /\ toHost[k] \in Seq(HostMsg) /\ toHost[k] # <<>>
         /\ Head(toHost[k]).type = type /\ toHost'[k] = Tail(toHost[k])
         /\ toPhone[k] \in Seq(PhoneMsg)
         /\ toPhone'[k] \in {toPhone[k], Append(toPhone[k], r)}
         /\ job[k] = None /\ job'[k] = None
         /\ InTurn(toHost[k], toPhone[k], None)
<1>1. /\ toHost'[k] = Tail(toHost[k])
      /\ \A c \in Conns \ {k} : toHost'[c] = toHost[c]
  BY DEF Answers, Consumed, WireTypeOK
<1>2. /\ toPhone'[k] \in {toPhone[k], Append(toPhone[k], r)}
      /\ \A c \in Conns \ {k} : toPhone'[c] = toPhone[c]
  BY DEF Answers, Emit, Carrying, WireTypeOK
<1>3. LinesRead
  BY ConsumedReads DEF Answers
<1> QED
  BY <1>1, <1>2, <1>3
     DEF Answers, Reads, Only1, WireTypeOK, StepInv, TakingTurns

\* The phone on a connection.
LEMMA TalkOn ==
  ASSUME StepInv, NEW k, NEW p \in Clients, phone[p].sock = k
  PROVE  Talks(phone[p], toHost[k], toPhone[k], job[k], active)
BY DEF StepInv, TakingTurns

\* The host starts no session and counts no insert.
LEMMA SteadyTurns ==
  ASSUME WireTypeOK, PhoneInv, StepInv, Steady, NEW k \in Conns, Only1(k),
         LinesRead, toHost[k] # <<>> \/ job[k] # None,
         InTurn(toHost'[k], toPhone'[k], job'[k]),
         \A p \in Clients : phone[p].sock = k =>
           Talks(phone[p], toHost'[k], toPhone'[k], job'[k], active),
         \A c \in Conns : \A i \in DOMAIN toPhone'[c] :
           toPhone'[c][i].type = "auth_ok" =>
             \E j \in DOMAIN toPhone[c] : toPhone[c][j] = toPhone'[c][i]
  PROVE  StepInv'
<1>1. ASSUME active' # None
      PROVE  /\ active # None /\ active'.sid = active.sid
             /\ active'.lastSeq = active.lastSeq
  BY <1>1 DEF Steady
<1>2. ASSUME NEW p \in Clients, phone[p].sock = k
      PROVE  Talks(phone[p], toHost'[k], toPhone'[k], job'[k], active')
  BY <1>2, OtherSession DEF Steady
<1>3. ASSUME NEW c \in Conns, NEW i \in DOMAIN toPhone'[c],
             toPhone'[c][i].type = "auth_ok",
             active' # None, active'.sid = toPhone'[c][i].sid
      PROVE  active'.lastSeq = 0
  BY <1>1, <1>3 DEF StepInv, TakingTurns, Valid
<1>4. ASSUME NEW c \in Conns, NEW i \in DOMAIN toHost'[c],
             toHost'[c][i].type = "text_insert",
             active' # None, active'.sid = toHost'[c][i].sid
      PROVE  toHost'[c][i].seq = active'.lastSeq + 1
  <2>1. PICK j \in DOMAIN toHost[c] : toHost'[c][i] = toHost[c][j]
    BY ReadMessage
  <2> QED
    BY <1>1, <1>4, <2>1 DEF StepInv, SeqInStep, Valid, IsNextSeq
<1>5. SeqInStep'
  BY <1>4 DEF SeqInStep, Valid, IsNextSeq
<1> QED
  BY <1>2, <1>3, <1>5, HostKeepsTurns

\* The handlers that answer at once, start no session and count no insert.
LEMMA AnswersTurns ==
  ASSUME HostInv, PhoneInv, StepInv, UNCHANGED phone, NEW k \in Conns,
         OnHello(k) \/ OnAuthRefused(k) \/ OnPing(k) \/ RefuseInsert(k)
  PROVE  StepInv'
<1>0. WireTypeOK /\ SessionTypeOK
  BY DEF HostInv, HostTypes
<1>1. Steady
  <2>1. CASE OnHello(k) \/ OnAuthRefused(k) \/ RefuseInsert(k)
    BY <2>1 DEF OnHello, OnAuthRefused, RefuseInsert, sessionVars, Steady
  <2>2. CASE OnPing(k)
    <3>1. \/ active' = active
          \/ active # None /\ active' = [active EXCEPT !.quiet = FALSE]
      BY <2>2 DEF OnPing, UpdateHeartbeat, Valid, sessionVars
    <3>2. active # None =>
            LET s == [active EXCEPT !.quiet = FALSE]
            IN s.sid = active.sid /\ s.lastSeq = active.lastSeq
      BY <1>0, SessionFields DEF Session
    <3> QED
      BY <3>1, <3>2 DEF Steady
  <2> QED
    BY <2>1, <2>2
<1>2. ASSUME NEW type, NEW r \in PhoneMsg, Answers(k, type, r),
             r.type # "auth_ok", InTurn(toHost'[k], toPhone'[k], None),
             \A p \in Clients : phone[p].sock = k =>
               Talks(phone[p], toHost'[k], toPhone'[k], None, active)
      PROVE  StepInv'
  <2>1. Only1(k) /\ LinesRead /\ toHost[k] # <<>> /\ job'[k] = None
    BY <1>0, <1>2, AnswerShape
  <2>2. \A c \in Conns : \A i \in DOMAIN toPhone'[c] :
          toPhone'[c][i].type = "auth_ok" =>
            \E j \in DOMAIN toPhone[c] : toPhone[c][j] = toPhone'[c][i]
    BY <1>0, <1>2, AnswerKeepsSessions DEF Answers
  <2> QED
    BY <1>0, <1>1, <1>2, <2>1, <2>2, SteadyTurns
<1>3. CASE OnHello(k) \/ OnAuthRefused(k)
  <2>1. PICK type \in {"hello", "auth"}, r \in {HelloOk, Error("hello_required")} :
          Answers(k, type, r)
    BY <1>3 DEF OnHello, OnAuthRefused, hostVars, Answers
  <2>2. /\ r \in PhoneMsg
        /\ r.type = "hello_ok" \/ (r.type = "error" /\ r.reason = "hello_required")
    BY RepliesTyped DEF HelloOk, Error, Reasons
  <2>3. /\ InTurn(toHost'[k], toPhone'[k], None)
        /\ \A ph : Talks(ph, toHost[k], toPhone[k], None, active) =>
             Talks(ph, toHost'[k], toPhone'[k], None, active)
    <3>1. /\ toHost[k] \in Seq(HostMsg) /\ toHost[k] # <<>>
          /\ toPhone[k] \in Seq(PhoneMsg) /\ toHost'[k] = Tail(toHost[k])
          /\ toPhone'[k] \in {toPhone[k], Append(toPhone[k], r)}
          /\ InTurn(toHost[k], toPhone[k], None)
          /\ Head(toHost[k]).type \in {"hello", "auth"}
      BY <1>0, <2>1, <2>2, AnswerShape
    <3>2. /\ InTurn(Tail(toHost[k]), toPhone'[k], None)
          /\ \A ph : Talks(ph, toHost[k], toPhone[k], None, active) =>
               Talks(ph, Tail(toHost[k]), toPhone'[k], None, active)
      BY <3>1, <2>2, GreetedTurn
    <3> QED
      BY <3>1, <3>2
  <2>4. job[k] = None
    BY <2>1 DEF Answers, Reads
  <2> QED
    BY <1>2, <2>1, <2>2, <2>3, <2>4, TalkOn
<1>4. CASE OnPing(k)
  <2>1. PICK r \in {Pong, Error("no_active_session"), Error("invalid_session")} :
          Answers(k, "ping", r)
    BY <1>4 DEF OnPing, hostVars, Answers, Invalid
  <2>2. r \in PhoneMsg /\ r.type \in {"pong", "error"}
    BY RepliesTyped DEF Pong, Error, Reasons
  <2>3. /\ InTurn(toHost'[k], toPhone'[k], None)
        /\ \A ph : Talks(ph, toHost[k], toPhone[k], None, active) =>
             Talks(ph, toHost'[k], toPhone'[k], None, active)
    <3>1. /\ toHost[k] \in Seq(HostMsg) /\ toHost[k] # <<>>
          /\ toPhone[k] \in Seq(PhoneMsg) /\ toHost'[k] = Tail(toHost[k])
          /\ toPhone'[k] \in {toPhone[k], Append(toPhone[k], r)}
          /\ InTurn(toHost[k], toPhone[k], None)
          /\ Head(toHost[k]).type = "ping"
      BY <1>0, <2>1, <2>2, AnswerShape
    <3>2. /\ InTurn(Tail(toHost[k]), toPhone'[k], None)
          /\ \A ph : Talks(ph, toHost[k], toPhone[k], None, active) =>
               Talks(ph, Tail(toHost[k]), toPhone'[k], None, active)
      BY <3>1, <2>2, PingedTurn
    <3> QED
      BY <3>1, <3>2
  <2>4. job[k] = None
    BY <2>1 DEF Answers, Reads
  <2> QED
    BY <1>2, <2>1, <2>2, <2>3, <2>4, TalkOn
<1>5. CASE RefuseInsert(k)
  <2> DEFINE m == Head(toHost[k])
  <2>1. PICK op \in {m.op, None} : Answers(k, "text_insert", Ack(m.seq, op, FALSE))
    BY <1>5 DEF RefuseInsert, hostVars, Answers
  <2>2. m.seq \in 0..MaxOps + 1 /\ op \in OpId \cup {None}
    <3>1. m \in HostMsg /\ m.type = "text_insert"
      BY <1>0, <2>1, ReadTyped DEF Answers, Reads
    <3> QED
      BY <3>1, InsertTyped
  <2> DEFINE r == Ack(m.seq, op, FALSE)
  <2>3. r \in PhoneMsg /\ r.type = "ack" /\ r.ok = FALSE
    BY <2>2, RepliesTyped DEF Ack
  <2> HIDE DEF r
  <2>4. Answers(k, "text_insert", r)
    BY <2>1 DEF r
  <2>5. /\ InTurn(toHost'[k], toPhone'[k], None)
        /\ \A ph : Talks(ph, toHost[k], toPhone[k], None, active) =>
             Talks(ph, toHost'[k], toPhone'[k], None, active)
    <3>1. /\ toHost[k] \in Seq(HostMsg) /\ toHost[k] # <<>>
          /\ toPhone[k] \in Seq(PhoneMsg) /\ toHost'[k] = Tail(toHost[k])
          /\ toPhone'[k] \in {toPhone[k], Append(toPhone[k], r)}
          /\ InTurn(toHost[k], toPhone[k], None)
          /\ Head(toHost[k]).type = "text_insert"
      BY <1>0, <2>3, <2>4, AnswerShape
    <3>2. /\ InTurn(Tail(toHost[k]), toPhone'[k], None)
          /\ \A ph : Talks(ph, toHost[k], toPhone[k], None, active) =>
               Talks(ph, Tail(toHost[k]), toPhone'[k], None, active)
      BY <3>1, <2>3, AnsweredTurn
    <3> QED
      BY <3>1, <3>2
  <2>6. job[k] = None
    BY <2>1 DEF Answers, Reads
  <2> QED
    BY <1>2, <2>3, <2>4, <2>5, <2>6, TalkOn
<1> QED
  BY <1>3, <1>4, <1>5

\* An insert is counted: no other connection, and nothing else on this one,
\* is about the session.
LEMMA CountedTurn ==
  ASSUME HostInv, OrderInv, StepInv, NEW k \in Conns,
         Reads(k, "text_insert"), Consumed(k), Valid(Head(toHost[k]).sid),
         active' # None, active'.sid = active.sid,
         \A c \in Conns : \A i \in DOMAIN toPhone'[c] :
           toPhone'[c][i].type = "auth_ok" =>
             \E j \in DOMAIN toPhone[c] : toPhone[c][j] = toPhone'[c][i]
  PROVE  /\ \A p \in Clients :
              phone[p].sock \in Conns \ {k} => active'.sid # phone[p].sess
         /\ \A c \in Conns : \A i \in DOMAIN toPhone'[c] :
              /\ toPhone'[c][i].type = "auth_ok"
              /\ active' # None /\ active'.sid = toPhone'[c][i].sid
              => active'.lastSeq = 0
         /\ SeqInStep'
<1> DEFINE m == Head(toHost[k])
           out == toHost[k]
<1>0. WireTypeOK /\ SessionTypeOK /\ active # None /\ active.sid = m.sid
  BY DEF HostInv, HostTypes, Valid
<1>1. /\ out \in Seq(HostMsg) /\ out # <<>> /\ m.type = "text_insert"
      /\ toHost'[k] = Tail(out) /\ InTurn(out, toPhone[k], None)
      /\ \A c \in Conns \ {k} : toHost'[c] = toHost[c]
  BY <1>0 DEF Reads, Consumed, WireTypeOK, StepInv, TakingTurns
<1>2. /\ \E j \in DOMAIN out : out[j] = m
      /\ \A i \in Inserts(toHost'[k]) : toHost'[k][i].sid # m.sid
      /\ \A i \in DOMAIN toPhone[k] : toPhone[k][i].type # "auth_ok"
  <2>1. /\ \E j \in DOMAIN out : out[j] = m
        /\ \A i \in Inserts(Tail(out)) : Tail(out)[i].sid # m.sid
        /\ \A i \in DOMAIN toPhone[k] : toPhone[k][i].type # "auth_ok"
    <3>1. out \in Seq(HostMsg) /\ out # <<>> /\ InTurn(out, toPhone[k], None)
      BY <1>1
    <3>2. \E j \in DOMAIN out : out[j] = m
      BY <3>1, TailEnds
    <3>3. \A i \in DOMAIN toPhone[k] : toPhone[k][i].type # "auth_ok"
      BY <3>1 DEF InTurn
    <3>4. Head(out).type = "text_insert" =>
            \A i \in Inserts(Tail(out)) : Tail(out)[i].sid # Head(out).sid
      <4> HIDE DEF out, m
      <4> QED
        BY <3>1, ReadTurn
    <3> QED
      BY <1>1, <3>2, <3>3, <3>4
  <2> QED
    BY <1>1, <2>1
<1>3. \A c \in Conns : Names(c, active.sid) => c = k
  <2>1. active.sid \in SessionIds
    BY <1>0, SessionFields
  <2>2. Names(k, active.sid)
    BY <1>0, <1>1, <1>2 DEF Names
  <2> QED
    BY <2>1, <2>2 DEF OrderInv, SessionOnOneConn
<1>4. ASSUME NEW p \in Clients, phone[p].sock \in Conns \ {k}
      PROVE  active'.sid # phone[p].sess
  BY <1>3, <1>4 DEF Names
<1>5. ASSUME NEW c \in Conns, NEW i \in DOMAIN toPhone'[c],
             toPhone'[c][i].type = "auth_ok", active'.sid = toPhone'[c][i].sid
      PROVE  FALSE
  <2>1. PICK j \in DOMAIN toPhone[c] : toPhone[c][j] = toPhone'[c][i]
    BY <1>5
  <2>2. c = k
    BY <1>3, <1>5, <2>1 DEF Names
  <2> QED
    BY <1>2, <1>5, <2>1, <2>2
<1>6. ASSUME NEW c \in Conns, NEW i \in DOMAIN toHost'[c],
             toHost'[c][i].type = "text_insert", active'.sid = toHost'[c][i].sid
      PROVE  FALSE
  <2>1. CASE c # k
    BY <1>1, <1>3, <1>6, <2>1 DEF Names
  <2>2. CASE c = k
    <3>1. i \in Inserts(toHost'[k]) /\ toHost'[k][i].sid = active.sid
      BY <1>6, <2>2 DEF Inserts
    <3> QED
      BY <1>0, <1>2, <3>1
  <2> QED
    BY <2>1, <2>2
<1>7. SeqInStep'
  BY <1>6 DEF SeqInStep, Valid
<1> QED
  BY <1>4, <1>5, <1>7

LEMMA DuplicateTurns ==
  ASSUME HostInv, PhoneInv, OrderInv, StepInv, UNCHANGED phone, NEW k \in Conns,
         AckDuplicate(k)
  PROVE  StepInv'
<1> DEFINE m == Head(toHost[k])
           r == Ack(m.seq, m.op, TRUE)
<1>0. WireTypeOK
  BY DEF HostInv, HostTypes
<1>1. /\ Answers(k, "text_insert", r) /\ Verdict(m) = "match"
      /\ active' = Grown(Advanced(active, m.seq), m.text)
  BY DEF AckDuplicate, Answers
<1>2. /\ m.seq \in 0..MaxOps + 1 /\ m.op \in OpId /\ Valid(m.sid)
      /\ active' # None /\ active'.sid = active.sid /\ active'.lastSeq = m.seq
  <2>1. /\ m.seq \in 0..MaxOps + 1 /\ m.op \in OpId /\ m.text \in Texts
        /\ Advanced(active, m.seq) \in Session
        /\ Advanced(active, m.seq).sid = active.sid
        /\ Advanced(active, m.seq).lastSeq = m.seq
    BY <1>1, AcceptedInsert, MatchMeans DEF Answers
  <2>2. /\ active' \in Session /\ active'.sid = active.sid
        /\ active'.lastSeq = m.seq
    BY <1>1, <2>1, GrownTyped
  <2>3. active' # None
    BY <2>2, NoneIsNoJob
  <2> QED
    BY <1>1, <2>1, <2>2, <2>3, VerdictMeans
<1>3. r \in PhoneMsg /\ r.type = "ack" /\ r.ok
  BY <1>2, RepliesTyped DEF Ack
<1> HIDE DEF r
<1>4. /\ Only1(k) /\ toHost[k] # <<>> /\ job[k] = None /\ job'[k] = None
      /\ InTurn(toHost'[k], toPhone'[k], None)
      /\ \A ph : Talks(ph, toHost[k], toPhone[k], None, active) =>
           Talks(ph, toHost'[k], toPhone'[k], None, active')
  <2>1. /\ Only1(k) /\ job[k] = None /\ job'[k] = None
        /\ toHost[k] \in Seq(HostMsg) /\ toHost[k] # <<>>
        /\ toPhone[k] \in Seq(PhoneMsg) /\ toHost'[k] = Tail(toHost[k])
        /\ toPhone'[k] \in {toPhone[k], Append(toPhone[k], r)}
        /\ InTurn(toHost[k], toPhone[k], None)
        /\ m.type = "text_insert"
    BY <1>0, <1>1, <1>3, AnswerShape
  <2>2. /\ InTurn(Tail(toHost[k]), toPhone'[k], None)
        /\ \A ph : Talks(ph, toHost[k], toPhone[k], None, active) =>
             Talks(ph, Tail(toHost[k]), toPhone'[k], None, active')
    <3>1. /\ InTurn(Tail(toHost[k]), toPhone'[k], None)
          /\ \A ph, act, now :
               /\ Talks(ph, toHost[k], toPhone[k], None, act)
               /\ r.ok /\ now # None /\ now.sid = ph.sess =>
                    now.lastSeq = Head(toHost[k]).seq
               => Talks(ph, Tail(toHost[k]), toPhone'[k], None, now)
      <4> HIDE DEF m
      <4>1. Head(toHost[k]).type = "text_insert"
        BY <2>1 DEF m
      <4> QED
        BY <1>3, <2>1, <4>1, AnsweredTurn
    <3>2. active'.lastSeq = Head(toHost[k]).seq
      BY <1>2
    <3> QED
      BY <3>1, <3>2
  <2> QED
    BY <2>1, <2>2
<1>5. \A c \in Conns : \A i \in DOMAIN toPhone'[c] :
        toPhone'[c][i].type = "auth_ok" =>
          \E j \in DOMAIN toPhone[c] : toPhone[c][j] = toPhone'[c][i]
  BY <1>0, <1>1, <1>3, AnswerKeepsSessions DEF Answers
<1>6. /\ \A p \in Clients :
           phone[p].sock \in Conns \ {k} => active'.sid # phone[p].sess
      /\ \A c \in Conns : \A i \in DOMAIN toPhone'[c] :
           /\ toPhone'[c][i].type = "auth_ok"
           /\ active' # None /\ active'.sid = toPhone'[c][i].sid
           => active'.lastSeq = 0
      /\ SeqInStep'
  BY <1>1, <1>2, <1>5, CountedTurn DEF Answers
<1>7. \A p \in Clients : phone[p].sock = k =>
        Talks(phone[p], toHost'[k], toPhone'[k], job'[k], active')
  BY <1>4, TalkOn
<1> QED
  BY <1>4, <1>6, <1>7, HostKeepsTurns

LEMMA StartTurns ==
  ASSUME HostInv, PhoneInv, OrderInv, StepInv, UNCHANGED phone, NEW k \in Conns,
         StartInsert(k)
  PROVE  StepInv'
<1> DEFINE m == Head(toHost[k])
<1>0. WireTypeOK
  BY DEF HostInv, HostTypes
<1>1. /\ Reads(k, "text_insert") /\ Consumed(k) /\ Verdict(m) = "missing"
      /\ active' = Advanced(active, m.seq) /\ UNCHANGED <<link, toPhone>>
      /\ \A c \in Conns \ {k} : job'[c] = job[c]
      /\ job'[k].sid = m.sid /\ job'[k].seq = m.seq
  BY DEF StartInsert, HostInv, HostTypes, HostTypeOK
<1>2. /\ Valid(m.sid) /\ active' # None
      /\ active'.sid = active.sid /\ active'.lastSeq = m.seq
  <2>1. /\ active' \in Session /\ active'.sid = active.sid
        /\ active'.lastSeq = m.seq
    BY <1>1, AcceptedInsert
  <2> QED
    BY <1>1, <2>1, VerdictMeans, NoneIsNoJob
<1>3. job'[k] # None
  <2> DEFINE mode == IF m.mode = None THEN active.mode ELSE m.mode
  <2>1. /\ job'[k] = [stage |-> "waiting", sid |-> m.sid,
                      client |-> active.client, seq |-> m.seq, op |-> m.op,
                      text |-> m.text, mode |-> mode]
    BY DEF StartInsert, HostInv, HostTypes, HostTypeOK
  <2>2. /\ m.seq \in 0..MaxOps + 1 /\ m.op \in OpId \cup {None}
        /\ m.text \in Texts /\ mode \in Modes /\ active.client \in Clients
        /\ m.sid \in SessionIds
    BY <1>1, AcceptedInsert DEF Session
  <2> HIDE DEF mode, m
  <2>3. job'[k] \in Job
    BY <2>1, <2>2 DEF Job
  <2> QED
    BY <2>3, NoneIsNoJob
<1>4. /\ toHost[k] \in Seq(HostMsg) /\ toHost[k] # <<>>
      /\ m.type = "text_insert" /\ toHost'[k] = Tail(toHost[k])
      /\ toPhone[k] \in Seq(PhoneMsg) /\ job[k] = None
      /\ InTurn(toHost[k], toPhone[k], None)
      /\ Only1(k)
  BY <1>0, <1>1
     DEF Reads, Consumed, WireTypeOK, StepInv, TakingTurns, Only1
<1>5. /\ InTurn(toHost'[k], toPhone'[k], job'[k])
      /\ \A ph : Talks(ph, toHost[k], toPhone[k], None, active) =>
           Talks(ph, toHost'[k], toPhone'[k], job'[k], active')
  <2> HIDE DEF m
  <2>1. \A jb : jb # None /\ jb.sid = m.sid /\ jb.seq = m.seq =>
          /\ InTurn(Tail(toHost[k]), toPhone[k], jb)
          /\ \A ph, act, now :
               /\ Talks(ph, toHost[k], toPhone[k], None, act)
               /\ now # None /\ now.sid = ph.sess => now.lastSeq = jb.seq
               => Talks(ph, Tail(toHost[k]), toPhone[k], jb, now)
    BY <1>4, StartedTurn DEF m
  <2> QED
    BY <1>1, <1>2, <1>3, <1>4, <2>1
<1>6. /\ \A p \in Clients :
           phone[p].sock \in Conns \ {k} => active'.sid # phone[p].sess
      /\ \A c \in Conns : \A i \in DOMAIN toPhone'[c] :
           /\ toPhone'[c][i].type = "auth_ok"
           /\ active' # None /\ active'.sid = toPhone'[c][i].sid
           => active'.lastSeq = 0
      /\ SeqInStep'
  BY <1>1, <1>2, CountedTurn
<1>7. \A p \in Clients : phone[p].sock = k =>
        Talks(phone[p], toHost'[k], toPhone'[k], job'[k], active')
  BY <1>4, <1>5, TalkOn
<1> QED
  BY <1>4, <1>5, <1>6, <1>7, HostKeepsTurns

\* A new session: its numbers start afresh on both sides.
LEMMA AuthTurns ==
  ASSUME HostInv, PhoneInv, OrderInv, StepInv, UNCHANGED phone, NEW k \in Conns,
         OnAuth(k)
  PROVE  StepInv'
<1> DEFINE n == nextSession
           mode == Head(toHost[k]).mode
           r == AuthOk(n, mode)
<1>0. WireTypeOK /\ SessionTypeOK
  BY DEF HostInv, HostTypes
<1>1. /\ Answers(k, "auth", r) /\ n \in SessionIds
      /\ active' = NewSession(helloFrom[k], mode)
  BY DEF OnAuth, Authenticate, hostVars, Answers
<1>2. active'.sid = n /\ active'.lastSeq = 0
  BY <1>1 DEF NewSession
<1>3. r \in PhoneMsg /\ r.type = "auth_ok"
  <2>1. mode \in Modes
    BY <1>0, <1>1, ReadTyped, OtherTyped DEF Reads, Answers
  <2> QED
    BY <1>1, <2>1, RepliesTyped DEF AuthOk
<1> HIDE DEF r
<1>4. /\ Only1(k) /\ LinesRead /\ job[k] = None /\ job'[k] = None
      /\ toHost[k] \in Seq(HostMsg) /\ toHost[k] # <<>>
      /\ toPhone[k] \in Seq(PhoneMsg) /\ toHost'[k] = Tail(toHost[k])
      /\ toPhone'[k] \in {toPhone[k], Append(toPhone[k], r)}
      /\ InTurn(toHost[k], toPhone[k], None)
      /\ Head(toHost[k]).type \in {"hello", "auth"}
  BY <1>0, <1>1, <1>3, AnswerShape
<1>5. /\ InTurn(Tail(toHost[k]), toPhone'[k], None)
      /\ \A ph, act, now : Talks(ph, toHost[k], toPhone[k], None, act) =>
           Talks(ph, Tail(toHost[k]), toPhone'[k], None, now)
  BY <1>3, <1>4, GreetedTurn
<1>6. \A p \in Clients : phone[p].sock = k =>
        Talks(phone[p], toHost'[k], toPhone'[k], job'[k], active')
  BY <1>4, <1>5, TalkOn
<1>7. \A j \in Conns : ~Names(j, n)
  <2>1. n \in Nat /\ ~(n < n)
    BY <1>1, BoundsAssumption DEF SessionIds
  <2> QED
    BY <1>1, <2>1 DEF OrderInv, SessionOnOneConn
<1>8. \A p \in Clients : phone[p].sock \in Conns \ {k} => active'.sid # phone[p].sess
  BY <1>2, <1>7 DEF Names
<1>9. SeqInStep'
  <2>1. ASSUME NEW c \in Conns, NEW i \in DOMAIN toHost'[c],
               toHost'[c][i].type = "text_insert"
        PROVE  toHost'[c][i].sid # n
    <3>1. PICK j \in DOMAIN toHost[c] : toHost'[c][i] = toHost[c][j]
      BY <1>0, <1>4, ReadMessage
    <3> QED
      BY <1>7, <2>1, <3>1 DEF Names
  <2> QED
    BY <1>2, <2>1 DEF SeqInStep, Valid
<1>10. /\ toHost[k] # <<>> /\ InTurn(toHost'[k], toPhone'[k], job'[k])
       /\ \A c \in Conns : \A i \in DOMAIN toPhone'[c] :
            /\ toPhone'[c][i].type = "auth_ok"
            /\ active' # None /\ active'.sid = toPhone'[c][i].sid
            => active'.lastSeq = 0
  BY <1>2, <1>4, <1>5
<1> QED
  BY <1>4, <1>6, <1>8, <1>9, <1>10, HostKeepsTurns

\* A handler is resumed, and answers.
LEMMA ResumedTurns ==
  ASSUME HostInv, PhoneInv, StepInv, UNCHANGED phone, NEW k \in Conns,
         FinishInsert(k) \/ FailInsert(k)
  PROVE  StepInv'
<1> DEFINE j == job[k]
<1>0. WireTypeOK /\ SessionTypeOK
  BY DEF HostInv, HostTypes
<1>1. PICK stage \in {"injected", "failed"} :
        /\ Resumes(k, stage)
        /\ Emit(k, Ack(j.seq, j.op, stage = "injected"))
        /\ UNCHANGED <<link, execQ, toHost>>
        /\ active' = active \/ (active # None /\ active' = Grown(active, j.text))
  <2>1. CASE FinishInsert(k)
    BY <2>1 DEF FinishInsert, Valid
  <2>2. CASE FailInsert(k)
    BY <2>2 DEF FailInsert, sessionVars
  <2> QED
    BY <2>1, <2>2
<1> DEFINE r == Ack(j.seq, j.op, stage = "injected")
<1>2. /\ j \in Job /\ j # None /\ job'[k] = None
      /\ \A c \in Conns \ {k} : job'[c] = job[c]
  BY <1>1, ResumeQueues DEF HostInv, HostTypes
<1>3. r \in PhoneMsg /\ r.type = "ack"
  <2>1. j.seq \in 0..MaxOps + 1 /\ j.op \in OpId \cup {None}
        /\ (stage = "injected") \in BOOLEAN
    BY <1>2 DEF Job
  <2> QED
    BY <2>1, RepliesTyped DEF Ack
<1>4. Emit(k, r)
  BY <1>1
<1> HIDE DEF r
<1>5. Steady
  <2>1. active # None => /\ Grown(active, j.text).sid = active.sid
                         /\ Grown(active, j.text).lastSeq = active.lastSeq
    BY <1>0, <1>2, GrownTyped, SessionFields DEF Job, SessionTypeOK
  <2> QED
    BY <1>1, <2>1 DEF Steady
<1>6. /\ toPhone[k] \in Seq(PhoneMsg)
      /\ toPhone'[k] \in {toPhone[k], Append(toPhone[k], r)}
      /\ \A c \in Conns \ {k} : toPhone'[c] = toPhone[c]
  BY <1>0, <1>4 DEF Emit, Carrying, WireTypeOK
<1>7. /\ InTurn(toHost[k], toPhone'[k], None)
      /\ \A ph, act : Talks(ph, toHost[k], toPhone[k], j, act) =>
           Talks(ph, toHost[k], toPhone'[k], None, act)
  <2>1. InTurn(toHost[k], toPhone[k], j)
    BY DEF StepInv, TakingTurns
  <2> HIDE DEF j
  <2> QED
    BY <1>2, <1>3, <1>6, <2>1, ResumedTurn
<1>8. /\ toHost'[k] = toHost[k] /\ Only1(k) /\ LinesRead
      /\ InTurn(toHost'[k], toPhone'[k], job'[k])
      /\ toHost[k] # <<>> \/ job[k] # None
  BY <1>1, <1>2, <1>6, <1>7 DEF Only1, LinesRead
<1>9. \A p \in Clients : phone[p].sock = k =>
        Talks(phone[p], toHost'[k], toPhone'[k], job'[k], active)
  BY <1>2, <1>7, <1>8, TalkOn
<1>10. \A c \in Conns : \A i \in DOMAIN toPhone'[c] :
         toPhone'[c][i].type = "auth_ok" =>
           \E x \in DOMAIN toPhone[c] : toPhone[c][x] = toPhone'[c][i]
  BY <1>0, <1>3, <1>4, AnswerKeepsSessions
<1> QED
  BY <1>0, <1>5, <1>8, <1>9, <1>10, SteadyTurns

\* The worker types, or fails to.
LEMMA InjectorTurns ==
  ASSUME HostInv, PhoneInv, StepInv, UNCHANGED phone, RunInjector
  PROVE  StepInv'
<1> DEFINE k == Head(execQ)
<1>0. WireTypeOK /\ SessionTypeOK
  BY DEF HostInv, HostTypes
<1>1. PICK stage \in {"injected", "failed"} :
        job' = [job EXCEPT ![k].stage = stage]
  BY DEF RunInjector
<1>2. /\ k \in Conns /\ job[k] \in Job
      /\ job'[k] = [job[k] EXCEPT !.stage = stage]
      /\ \A c \in Conns \ {k} : job'[c] = job[c]
  BY <1>1, MoveQueues DEF RunInjector, HostInv, HostTypes
<1> HIDE DEF k
<1>3. /\ job[k] # None /\ job'[k] # None
      /\ job'[k].sid = job[k].sid /\ job'[k].seq = job[k].seq
  <2>1. job'[k] \in Job /\ job'[k].sid = job[k].sid /\ job'[k].seq = job[k].seq
    BY <1>2 DEF Job
  <2> QED
    BY <1>2, <2>1, NoneIsNoJob
<1>4. UNCHANGED <<active, link, toHost, toPhone>> /\ Only1(k) /\ LinesRead
  BY <1>2 DEF RunInjector, sessionVars, wireVars, Only1, LinesRead
<1>5. /\ InTurn(toHost[k], toPhone[k], job'[k])
      /\ \A ph, act : Talks(ph, toHost[k], toPhone[k], job[k], act) =>
           Talks(ph, toHost[k], toPhone[k], job'[k], act)
  <2>1. InTurn(toHost[k], toPhone[k], job[k])
    BY <1>2 DEF StepInv, TakingTurns
  <2> QED
    BY <1>3, <2>1, WorkedTurn
<1>6. /\ InTurn(toHost'[k], toPhone'[k], job'[k])
      /\ Steady
      /\ \A c \in Conns : \A i \in DOMAIN toPhone'[c] :
           \E x \in DOMAIN toPhone[c] : toPhone[c][x] = toPhone'[c][i]
  BY <1>4, <1>5 DEF Steady
<1>7. \A p \in Clients : phone[p].sock = k =>
        Talks(phone[p], toHost'[k], toPhone'[k], job'[k], active)
  BY <1>4, <1>5, TalkOn
<1> QED
  BY <1>0, <1>2, <1>3, <1>4, <1>6, <1>7, SteadyTurns

\* Nothing is said: lines, handlers and the session stay, or are lost.
LEMMA LossTurns ==
  ASSUME PhoneInv, StepInv, Steady, UNCHANGED <<phone, toPhone>>,
         \A c \in Conns :
           /\ link'[c] = "unused" => link[c] = "unused"
           /\ toHost'[c] = toHost[c] \/ toHost'[c] = <<>>
           /\ \/ job'[c] = job[c]
              \/ job'[c] = None /\ toHost'[c] = <<>> /\ active' = None
  PROVE  StepInv'
<1>1. ASSUME NEW c \in Conns
      PROVE  /\ InTurn(toHost'[c], toPhone'[c], job'[c])
             /\ \A ph : Talks(ph, toHost[c], toPhone[c], job[c], active) =>
                  Talks(ph, toHost'[c], toPhone'[c], job'[c], active')
  <2>1. InTurn(toHost[c], toPhone[c], job[c])
    BY DEF StepInv, TakingTurns
  <2>2. /\ InTurn(<<>>, toPhone[c], job[c]) /\ InTurn(<<>>, toPhone[c], None)
        /\ \A ph : Talks(ph, toHost[c], toPhone[c], job[c], active) =>
             /\ Talks(ph, <<>>, toPhone[c], job[c], active)
             /\ Talks(ph, <<>>, toPhone[c], None, None)
    BY <2>1, LostFine
  <2>3. \A ph : Talks(ph, toHost[c], toPhone[c], job[c], active) =>
          Talks(ph, toHost[c], toPhone[c], job[c], active')
    BY OtherSession DEF Steady
  <2>4. \A ph : Talks(ph, <<>>, toPhone[c], job[c], active) =>
          Talks(ph, <<>>, toPhone[c], job[c], active')
    BY OtherSession DEF Steady
  <2>5. CASE job'[c] = job[c] /\ toHost'[c] = toHost[c]
    BY <2>1, <2>3, <2>5
  <2>6. CASE job'[c] = job[c] /\ toHost'[c] = <<>>
    BY <2>2, <2>4, <2>6
  <2>7. CASE job'[c] = None /\ toHost'[c] = <<>> /\ active' = None
    BY <2>2, <2>7
  <2> QED
    BY <2>5, <2>6, <2>7
<1>2. ASSUME NEW p \in Clients
      PROVE  LET c == phone'[p].sock
             IN Talks(phone'[p], toHost'[c], toPhone'[c], job'[c], active')
  <2> DEFINE c == phone[p].sock
  <2>1. /\ Sound(phone[p])
        /\ Talks(phone[p], toHost[c], toPhone[c], job[c], active)
    BY DEF PhoneInv, StepInv, TakingTurns
  <2>2. c \in Conns \/ c = 0
    BY <2>1, BoundsAssumption DEF Sound, PhoneState, Conns
  <2>3. CASE c \in Conns
    BY <1>1, <2>1, <2>3
  <2>4. CASE c = 0
    <3>1. phone[p].localSeq = 0
      BY <2>1, <2>4 DEF Sound, Talks
    <3> QED
      BY <2>1, <2>4, <3>1, IdleTalks
  <2> QED
    BY <2>2, <2>3, <2>4
<1>3. SocketsOwned'
  <2>1. SocketsOwned
    BY DEF StepInv, TakingTurns
  <2>2. ASSUME NEW c \in Conns, link'[c] = "unused"
        PROVE  toHost'[c] = <<>> /\ toPhone'[c] = <<>> /\ job'[c] = None
    BY <2>1, <2>2 DEF SocketsOwned
  <2>3. \A p \in Clients : phone[p].sock = 0 \/ phone[p].sock \in Conns
    BY BoundsAssumption DEF PhoneInv, Sound, PhoneState, Conns
  <2> QED
    BY <2>1, <2>2, <2>3 DEF SocketsOwned
<1>4. \A s : Valid(s)' =>
        Valid(s) /\ active'.lastSeq = active.lastSeq
  BY DEF Valid, Steady
<1>5. SeqInStep'
  <2>1. \A c \in Conns : toHost'[c] = toHost[c] \/ DOMAIN toHost'[c] = {}
    BY EmptySeq
  <2> QED
    BY <1>4, <2>1 DEF StepInv, SeqInStep, IsNextSeq, Valid
<1>6. \A k \in Conns : \A i \in DOMAIN toPhone'[k] :
        LET m == toPhone'[k][i]
        IN /\ m.type = "auth_ok" /\ active' # None /\ active'.sid = m.sid
           => active'.lastSeq = 0
  BY <1>4 DEF StepInv, TakingTurns, Valid
<1> QED
  BY <1>1, <1>2, <1>3, <1>5, <1>6 DEF StepInv, TakingTurns, Valid

\* Quiet time, restarts and the transport.
LEMMA LapseTurns ==
  ASSUME HostInv, PhoneInv, StepInv, UNCHANGED phone,
         HeartbeatGuard \/ QuietPeriod \/ RestartHost \/ RestartHostUnreadable
  PROVE  StepInv'
<1>0. WireTypeOK /\ SessionTypeOK
  BY DEF HostInv, HostTypes
<1>1. UNCHANGED toPhone
  BY DEF HeartbeatGuard, QuietPeriod, wireVars, RestartHost,
         RestartHostUnreadable, Restarted
<1>2. Steady
  <2>1. CASE HeartbeatGuard \/ Restarted
    BY <2>1 DEF HeartbeatGuard, DropQuietSession, Restarted, Steady
  <2>2. CASE QuietPeriod
    BY <1>0, <2>2, SessionFields DEF QuietPeriod, Quieten, Steady, Session
  <2> QED
    BY <2>1, <2>2 DEF RestartHost, RestartHostUnreadable
<1>3. \A c \in Conns :
        /\ link'[c] = "unused" => link[c] = "unused"
        /\ toHost'[c] = toHost[c] \/ toHost'[c] = <<>>
        /\ \/ job'[c] = job[c]
           \/ job'[c] = None /\ toHost'[c] = <<>> /\ active' = None
  <2>1. CASE HeartbeatGuard \/ QuietPeriod
    BY <2>1 DEF HeartbeatGuard, QuietPeriod, hostVars, wireVars
  <2>2. CASE Restarted
    BY <2>2 DEF Restarted
  <2> QED
    BY <2>1, <2>2 DEF RestartHost, RestartHostUnreadable
<1> QED
  BY <1>1, <1>2, <1>3, LossTurns

LEMMA WireTurns ==
  ASSUME WireTypeOK, PhoneInv, StepInv, WireNext \/ UNCHANGED wireVars,
         UNCHANGED <<phone, sessionVars, hostVars>>
  PROVE  StepInv'
<1>1. Steady /\ UNCHANGED job
  BY DEF sessionVars, hostVars, Steady
<1>2. /\ UNCHANGED toPhone
      /\ \A c \in Conns : /\ link'[c] = "unused" => link[c] = "unused"
                          /\ toHost'[c] = toHost[c] \/ toHost'[c] = <<>>
  <2>1. CASE WireNext
    <3>1. PICK k \in Conns : Refuse(k) \/ Reset(k) \/ Silence(k) \/ LoseTail(k)
      BY <2>1 DEF WireNext
    <3> QED
      BY <3>1 DEF Refuse, Reset, Silence, LoseTail, WireTypeOK
  <2>2. CASE UNCHANGED wireVars
    BY <2>2 DEF wireVars
  <2> QED
    BY <2>1, <2>2
<1> QED
  BY <1>1, <1>2, LossTurns

LEMMA StepInit ==
  ASSUME Init
  PROVE  StepInv
<1>1. /\ \A k \in Conns : toHost[k] = <<>> /\ toPhone[k] = <<>> /\ job[k] = None
      /\ \A p \in Clients : phone[p].sock = 0 /\ phone[p].localSeq = 0
  BY DEF Init, WireInit, HostInit, PhoneInit
<1>2. Inserts(<<>>) = {} /\ DOMAIN (<<>>) = {}
  BY EmptySeq DEF Inserts
<1>3. InTurn(<<>>, <<>>, None)
  BY <1>2 DEF InTurn
<1>4. \A p \in Clients : Sound(phone[p])
  BY InitInv DEF Inv, PhoneInv
<1>5. \A p \in Clients :
        LET k == phone[p].sock
        IN Talks(phone[p], toHost[k], toPhone[k], job[k], active)
  BY <1>1, <1>4, IdleTalks
<1> QED
  BY <1>1, <1>2, <1>3, <1>5 DEF StepInv, TakingTurns, SocketsOwned, SeqInStep

LEMMA StepNext == Inv /\ OrderInv /\ StepInv /\ [Next]_vars => StepInv'
<1> SUFFICES ASSUME Inv, OrderInv, StepInv, [Next]_vars
             PROVE  StepInv'
  OBVIOUS
<1>0. PhoneInv /\ HostInv /\ WireTypeOK /\ PhoneInv' /\ LinesTyped
  BY NextInv DEF Inv, HostInv, HostTypes, WireTypeOK, LinesTyped
<1>1. ASSUME NEW p \in Clients, PhoneStep(p)
      PROVE  StepInv'
  <2>1. PhoneNext(p) /\ UNCHANGED <<active, job>>
    BY <1>1 DEF PhoneStep, sessionVars, hostVars
  <2>2. OnlyRead(toPhone') /\ \A q \in Clients \ {p} : phone'[q] = phone[q]
    BY <1>0, <2>1, PhoneStepLemma
  <2>3. TurnTaken(p)
    BY <1>0, <2>1, PhoneTakesTurn DEF StepInv
  <2> QED
    BY <1>0, <2>1, <2>2, <2>3, PhoneKeepsTurns
<1>2. CASE HostStep
  <2>1. ASSUME NEW k \in Conns, HostConnNext(k), UNCHANGED phone
        PROVE  StepInv'
    BY <1>0, <2>1, AnswersTurns, AuthTurns, DuplicateTurns, StartTurns,
       ResumedTurns DEF HostConnNext
  <2> QED
    BY <1>0, <1>2, <2>1, InjectorTurns, LapseTurns DEF HostStep, HostNext
<1>3. CASE WireStep \/ UNCHANGED vars
  BY <1>0, <1>3, WireTurns DEF WireStep, vars
<1> QED
  BY <1>1, <1>2, <1>3 DEF Next

LEMMA SpecStep == Spec => []StepInv
BY SpecInv, SpecOrder, StepInit, StepNext, PTL DEF Spec

\* The numbers of both sides stay in step: whatever was lost, refused, resent
\* or restarted, an insert that reaches the host under the active session
\* carries the number expect_next_seq waits for, so no chunk is refused as out
\* of order (drainDeliveryQueue, handleMessage, recoverSession, onDisconnected
\* and _on_text_insert).
THEOREM NumbersInStep == Spec => []SeqInStep
<1>1. StepInv => SeqInStep
  BY DEF StepInv
<1> QED
  BY SpecStep, <1>1, PTL

-----------------------------------------------------------------------------
(* Connections and operations have owners: what is said on a connection is *)
(* said by one phone, of its own chunks, in the session it was given.      *)

\* The connection k is p's: all that is said on it is p's.
OfPhone(k, p) ==
  /\ helloFrom[k] \in {None, p}
  /\ \A i \in DOMAIN toHost[k] :
       /\ toHost[k][i].type = "hello" => toHost[k][i].client = p
       /\ toHost[k][i].type = "text_insert" => toHost[k][i].op[1] = p
  /\ active # None /\ Names(k, active.sid) => active.client = p
  /\ \A q \in Clients : phone[q].sock = k => q = p
  /\ job[k] # None => job[k].op[1] = p /\ job[k].client = p

OwnerInv ==
  \A k \in Conns : IF link[k] = "unused" THEN helloFrom[k] = None
                   ELSE \E p \in Clients : OfPhone(k, p)

\* A connection that was never dialled may become anyone's.
LEMMA UnusedIsFree ==
  ASSUME SocketsOwned, OwnerInv, NEW k \in Conns, link[k] = "unused",
         NEW p \in Clients
  PROVE  OfPhone(k, p)
<1>1. /\ DOMAIN toHost[k] = {} /\ DOMAIN toPhone[k] = {} /\ job[k] = None
      /\ helloFrom[k] = None
  BY DEF SocketsOwned, OwnerInv
<1>2. 0 \notin Conns
  BY BoundsAssumption DEF Conns
<1>3. \A q \in Clients : phone[q].sock # k
  BY <1>2 DEF SocketsOwned
<1> QED
  BY <1>1, <1>3 DEF OfPhone, Names

\* What p has added to the lines.
LEMMA SaidLines ==
  ASSUME WireTypeOK, NEW p, NEW r, NEW k \in Conns, NEW i \in DOMAIN toHost'[k],
         \/ UNCHANGED toHost
         \/ /\ r.sock \in Conns
            /\ \E m \in HostMsg :
                 /\ Fitting(p, r, m)
                 /\ toHost' = [toHost EXCEPT ![r.sock] = Append(@, m)]
  PROVE  \/ i \in DOMAIN toHost[k] /\ toHost'[k][i] = toHost[k][i]
         \/ k = r.sock /\ Fitting(p, r, toHost'[k][i])
<1>1. toHost[k] \in Seq(HostMsg)
  BY DEF WireTypeOK
<1>2. ASSUME r.sock \in Conns, NEW m \in HostMsg, Fitting(p, r, m),
             toHost' = [toHost EXCEPT ![r.sock] = Append(@, m)]
      PROVE  \/ i \in DOMAIN toHost[k] /\ toHost'[k][i] = toHost[k][i]
             \/ k = r.sock /\ Fitting(p, r, toHost'[k][i])
  <2>1. CASE k # r.sock
    BY <1>2, <2>1 DEF WireTypeOK
  <2>2. CASE k = r.sock
    <3> DEFINE t == Append(toHost[k], m)
    <3>1. toHost'[k] = t
      BY <1>2, <2>2 DEF WireTypeOK
    <3>2. \A j \in DOMAIN t : \/ t[j] = m
                              \/ j \in DOMAIN toHost[k] /\ t[j] = toHost[k][j]
      BY <1>1, AppendEnds
    <3> HIDE DEF t
    <3> QED
      BY <1>2, <2>2, <3>1, <3>2
  <2> QED
    BY <2>1, <2>2
<1> QED
  BY <1>2

LEMMA PhoneOwns ==
  ASSUME PhoneInv, PhoneInv', WireTypeOK, SessionTypeOK, SocketsOwned, OwnerInv,
         NEW p \in Clients, Says(p), TurnTaken(p), OnlyRead(toPhone'),
         \A q \in Clients \ {p} : phone'[q] = phone[q],
         UNCHANGED <<active, helloFrom, job>>
  PROVE  OwnerInv'
<1>1. PICK r \in PhoneState :
        /\ Become(p, r) /\ SessionFrom(p, r)
        /\ \/ UNCHANGED toHost
           \/ /\ r.sock \in Conns
              /\ \E m \in HostMsg :
                   /\ Fitting(p, r, m)
                   /\ toHost' = [toHost EXCEPT ![r.sock] = Append(@, m)]
  BY DEF Says
<1>2. phone'[p] = r
  BY <1>1 DEF Become, PhoneInv
<1>3. /\ \/ r.sock = phone[p].sock \/ r.sock = 0
         \/ r.sock \in Conns /\ link[r.sock] = "unused"
      /\ \A c \in Conns : link'[c] = "unused" => link[c] = "unused"
  BY <1>2 DEF TurnTaken, Become, PhoneInv, Rests, SameTalk, Dials, Leaves, Speaks
<1>4. 0 \notin Conns
  BY BoundsAssumption DEF Conns
<1>5. active # None => active.sid \in SessionIds
  BY SessionFields DEF SessionTypeOK
<1>6. ASSUME NEW c \in Conns, NEW q \in Clients, OfPhone(c, q),
             r.sock = c => q = p
      PROVE  OfPhone(c, q)'
  <2>1. ASSUME NEW i \in DOMAIN toHost'[c]
        PROVE  /\ toHost'[c][i].type = "hello" => toHost'[c][i].client = q
               /\ toHost'[c][i].type = "text_insert" => toHost'[c][i].op[1] = q
    <3>1. \/ i \in DOMAIN toHost[c] /\ toHost'[c][i] = toHost[c][i]
          \/ c = r.sock /\ Fitting(p, r, toHost'[c][i])
      BY <1>1, SaidLines
    <3> QED
      BY <1>6, <3>1 DEF OfPhone, Fitting
  <2>2. ASSUME active # None, Names(c, active.sid)'
        PROVE  Names(c, active.sid)
    <3> DEFINE s == active.sid
    <3>1. r.sock = c /\ r.sess = s => Names(c, s)
      BY <1>1, <1>5, <2>2, PhoneNames
    <3>2. CASE \E i \in DOMAIN toHost'[c] :
                 toHost'[c][i].type = "text_insert" /\ toHost'[c][i].sid = s
      <4>1. PICK i \in DOMAIN toHost'[c] :
                 toHost'[c][i].type = "text_insert" /\ toHost'[c][i].sid = s
        BY <3>2
      <4>2. \/ i \in DOMAIN toHost[c] /\ toHost'[c][i] = toHost[c][i]
            \/ c = r.sock /\ Fitting(p, r, toHost'[c][i])
        BY <1>1, SaidLines
      <4> QED
        BY <3>1, <4>1, <4>2 DEF Fitting, Names
    <3>3. CASE \E i \in DOMAIN toPhone'[c] :
                 toPhone'[c][i].type = "auth_ok" /\ toPhone'[c][i].sid = s
      BY <3>3, ReadReplies DEF Names
    <3>4. CASE \E o \in Clients : phone'[o].sock = c /\ phone'[o].sess = s
      BY <1>2, <3>1, <3>4 DEF Names
    <3>5. active' = active
      OBVIOUS
    <3> QED
      BY <2>2, <3>2, <3>3, <3>4, <3>5 DEF Names
  <2>3. \A o \in Clients : phone'[o].sock = c => o = q
    BY <1>2, <1>6 DEF OfPhone
  <2> QED
    BY <1>6, <2>1, <2>2, <2>3 DEF OfPhone
<1> SUFFICES ASSUME NEW c \in Conns
             PROVE  IF link'[c] = "unused" THEN helloFrom'[c] = None
                    ELSE \E q \in Clients : OfPhone(c, q)'
  BY DEF OwnerInv
<1>7. CASE link[c] = "unused"
  BY <1>6, <1>7, UnusedIsFree DEF OwnerInv
<1>8. CASE link[c] # "unused"
  <2>1. PICK q \in Clients : OfPhone(c, q)
    BY <1>8 DEF OwnerInv
  <2>2. r.sock = c => q = p
    BY <1>3, <1>4, <1>8, <2>1 DEF OfPhone
  <2> QED
    BY <1>3, <1>6, <1>8, <2>1, <2>2
<1> QED
  BY <1>7, <1>8

\* What the host may do: read, greet, go on with or end the session, open one
\* for the client it was greeted by, and take an insert of the active session.
OwnersMove ==
  /\ LinesRead /\ UNCHANGED phone
  /\ \A c \in Conns : link'[c] = "unused" <=> link[c] = "unused"
  /\ \A c \in Conns :
       \/ helloFrom'[c] \in {helloFrom[c], None}
       \/ \E i \in DOMAIN toHost[c] :
            toHost[c][i].type = "hello" /\ helloFrom'[c] = toHost[c][i].client
  /\ active' # None => \A c \in Conns : \A s : s = active'.sid /\ Names(c, s)' =>
       \/ active # None /\ active'.client = active.client /\ Names(c, active.sid)
       \/ helloFrom[c] # None /\ active'.client = helloFrom[c]
  /\ \A c \in Conns :
       \/ job'[c] = None
       \/ job[c] # None /\ job'[c].op = job[c].op /\ job'[c].client = job[c].client
       \/ /\ active # None /\ Names(c, active.sid) /\ job'[c].client = active.client
          /\ \E i \in DOMAIN toHost[c] :
               toHost[c][i].type = "text_insert" /\ job'[c].op = toHost[c][i].op

LEMMA OwnersStay ==
  ASSUME WireTypeOK, SocketsOwned, OwnerInv, OwnersMove
  PROVE  OwnerInv'
<1> SUFFICES ASSUME NEW c \in Conns
             PROVE  IF link'[c] = "unused" THEN helloFrom'[c] = None
                    ELSE \E q \in Clients : OfPhone(c, q)'
  BY DEF OwnerInv
<1>1. CASE link[c] = "unused"
  <2>1. helloFrom[c] = None /\ DOMAIN toHost[c] = {}
    BY <1>1 DEF OwnerInv, SocketsOwned
  <2> QED
    BY <1>1, <2>1 DEF OwnersMove
<1>2. CASE link[c] # "unused"
  <2>1. PICK q \in Clients : OfPhone(c, q)
    BY <1>2 DEF OwnerInv
  <2>2. helloFrom'[c] \in {None, q}
    BY <2>1 DEF OfPhone, OwnersMove
  <2>3. \A i \in DOMAIN toHost'[c] : \E j \in DOMAIN toHost[c] :
          toHost'[c][i] = toHost[c][j]
    BY ReadMessage DEF OwnersMove
  <2>4. \A s : active' # None /\ s = active'.sid /\ Names(c, s)' => active'.client = q
    BY <2>1 DEF OfPhone, OwnersMove
  <2>5. job'[c] # None => job'[c].op[1] = q /\ job'[c].client = q
    BY <2>1 DEF OfPhone, OwnersMove
  <2>6. OfPhone(c, q)'
    BY <2>1, <2>2, <2>3, <2>4, <2>5 DEF OfPhone, OwnersMove, Names
  <2> QED
    BY <1>2, <2>6 DEF OwnersMove
<1> QED
  BY <1>1, <1>2

\* A step that opens no session and takes no insert.
LEMMA OwnersQuiet ==
  ASSUME WireTypeOK, SocketsOwned, OwnerInv, QuietStep,
         \A c \in Conns : link'[c] = "unused" <=> link[c] = "unused",
         \A c \in Conns :
           \/ helloFrom'[c] \in {helloFrom[c], None}
           \/ \E i \in DOMAIN toHost[c] :
                toHost[c][i].type = "hello" /\ helloFrom'[c] = toHost[c][i].client
  PROVE  OwnerInv'
<1>1. ASSUME NEW c \in Conns, active' # None, NEW s, s = active'.sid, Names(c, s)'
      PROVE  Names(c, active.sid)
  <2>1. Names(c, s)
    BY <1>1, NamesStay DEF QuietStep
  <2> QED
    BY <1>1, <2>1 DEF QuietStep
<1>2. OwnersMove
  BY <1>1 DEF OwnersMove, QuietStep, JobsKept
<1> QED
  BY <1>2, OwnersStay

\* The message the coroutine of k reads is in its line.
LEMMA ReadsLine ==
  ASSUME WireTypeOK, NEW k \in Conns, NEW type, Reads(k, type)
  PROVE  \E i \in DOMAIN toHost[k] : toHost[k][i] = Head(toHost[k])
<1>1. toHost[k] \in Seq(HostMsg) /\ toHost[k] # <<>>
  BY DEF WireTypeOK, Reads
<1> QED
  BY <1>1, HeadTailProperties, LenProperties, EmptySeq

LEMMA OwnersHost ==
  ASSUME HostInv, SocketsOwned, SessionOnOneConn, OwnerInv, UNCHANGED phone, HostNext
  PROVE  OwnerInv'
<1>0. WireTypeOK /\ SessionTypeOK /\ HostTypeOK
  BY DEF HostInv, HostTypes
<1>1. ASSUME NEW k \in Conns,
             \/ OnHello(k) \/ OnAuthRefused(k) \/ OnPing(k) \/ RefuseInsert(k)
             \/ AckDuplicate(k) \/ FinishInsert(k) \/ FailInsert(k)
      PROVE  OwnerInv'
  <2>1. QuietStep
    BY <1>1, AnswersQuiet, ResumesQuiet
  <2>2. UNCHANGED link
    BY <1>1 DEF OnHello, OnAuthRefused, OnPing, RefuseInsert, AckDuplicate,
                FinishInsert, FailInsert
  <2>3. CASE OnHello(k)
    <3>1. /\ Reads(k, "hello")
          /\ helloFrom' = [helloFrom EXCEPT ![k] = Head(toHost[k]).client]
      BY <2>3 DEF OnHello
    <3>2. \E i \in DOMAIN toHost[k] : toHost[k][i] = Head(toHost[k])
      BY <1>0, <3>1, ReadsLine
    <3>3. \A c \in Conns :
            \/ helloFrom'[c] \in {helloFrom[c], None}
            \/ \E i \in DOMAIN toHost[c] :
                 toHost[c][i].type = "hello" /\ helloFrom'[c] = toHost[c][i].client
      BY <1>0, <3>1, <3>2 DEF Reads, HostTypeOK
    <3> QED
      BY <1>0, <2>1, <2>2, <3>3, OwnersQuiet
  <2>4. CASE ~OnHello(k)
    <3>1. UNCHANGED helloFrom
      BY <1>1, <2>4 DEF OnAuthRefused, OnPing, RefuseInsert, AckDuplicate,
                        FinishInsert, FailInsert, hostVars
    <3> QED
      BY <1>0, <2>1, <2>2, <3>1, OwnersQuiet
  <2> QED
    BY <2>3, <2>4
<1>2. CASE HeartbeatGuard \/ QuietPeriod \/ RestartHost \/ RestartHostUnreadable
  <2>1. QuietStep
    BY <1>2, LapseQuiet
  <2>2. /\ \A c \in Conns : link'[c] = "unused" <=> link[c] = "unused"
        /\ \A c \in Conns : helloFrom'[c] \in {helloFrom[c], None}
    BY <1>2 DEF HeartbeatGuard, QuietPeriod, hostVars, wireVars, RestartHost,
                RestartHostUnreadable, Restarted
  <2> QED
    BY <1>0, <2>1, <2>2, OwnersQuiet
<1>3. ASSUME NEW k \in Conns, OnAuth(k)
      PROVE  OwnerInv'
  <2> DEFINE n == nextSession
  <2>1. /\ Reads(k, "auth") /\ Consumed(k) /\ n \in SessionIds
        /\ helloFrom[k] # None
        /\ \E mode : /\ active' = NewSession(helloFrom[k], mode)
                     /\ mode \in Modes /\ Emit(k, AuthOk(n, mode))
        /\ UNCHANGED <<link, helloFrom, job>>
    <3>1. Head(toHost[k]).mode \in Modes
      BY <1>0, <1>3, ReadTyped, OtherTyped DEF OnAuth, Reads
    <3> QED
      BY <1>3, <3>1 DEF OnAuth, Authenticate, hostVars
  <2>2. PICK mode \in Modes : /\ active' = NewSession(helloFrom[k], mode)
                              /\ Emit(k, AuthOk(n, mode))
    BY <2>1
  <2>3. active'.sid = n /\ active'.client = helloFrom[k]
    BY <2>2 DEF NewSession
  <2>4. LinesRead
    BY <1>0, <2>1, ConsumedReads
  <2>5. ASSUME NEW c \in Conns, c # k
        PROVE  \A s : s = n => ~Names(c, s)'
    <3>1. toPhone'[c] = toPhone[c]
      BY <1>0, <2>2, <2>5 DEF Emit, WireTypeOK
    <3>2. ~Names(c, n)
      <4>1. n \in Nat
        BY <2>1, BoundsAssumption DEF SessionIds
      <4> QED
        BY <2>1, <4>1 DEF SessionOnOneConn
    <3>3. \A i \in DOMAIN toPhone'[c] : \E j \in DOMAIN toPhone[c] :
            toPhone[c][j] = toPhone'[c][i]
      BY <3>1
    <3> QED
      BY <1>0, <2>4, <3>2, <3>3, NamesStay
  <2> HIDE DEF n
  <2>6. OwnersMove
    <3>1. ASSUME NEW c \in Conns, NEW s, s = active'.sid, Names(c, s)'
          PROVE  helloFrom[c] # None /\ active'.client = helloFrom[c]
      <4>1. c = k
        BY <2>3, <2>5, <3>1
      <4> QED
        BY <2>1, <2>3, <4>1
    <3> QED
      BY <2>1, <2>4, <3>1 DEF OwnersMove
  <2> QED
    BY <1>0, <2>6, OwnersStay
<1>4. ASSUME NEW k \in Conns, StartInsert(k)
      PROVE  OwnerInv'
  <2> DEFINE m == Head(toHost[k])
  <2>1. /\ Reads(k, "text_insert") /\ Consumed(k) /\ Verdict(m) = "missing"
        /\ active' = Advanced(active, m.seq)
        /\ \E mode : job' = [job EXCEPT ![k] =
              [stage |-> "waiting", sid |-> m.sid,
               client |-> active.client, seq |-> m.seq, op |-> m.op,
               text |-> m.text, mode |-> mode]]
        /\ UNCHANGED <<link, toPhone, helloFrom>>
    BY <1>4 DEF StartInsert
  <2>2. \E i \in DOMAIN toHost[k] : toHost[k][i] = m
    BY <1>0, <2>1, ReadsLine
  <2>3. active # None /\ active.sid = m.sid /\ m.type = "text_insert"
    BY <2>1, VerdictMeans DEF Valid, Reads
  <2>4. active'.sid = active.sid /\ active'.client = active.client
    BY <1>0, <2>1, <2>3, SessionFields DEF Advanced, Session
  <2>5. Names(k, active.sid)
    BY <2>2, <2>3 DEF Names
  <2>6. LinesRead
    BY <1>0, <2>1, ConsumedReads
  <2>7. /\ \A c \in Conns \ {k} : job'[c] = job[c]
        /\ job'[k].op = m.op /\ job'[k].client = active.client
    BY <1>0, <2>1 DEF HostTypeOK
  <2>8. ASSUME NEW c \in Conns, NEW s, s = active'.sid, Names(c, s)'
        PROVE  Names(c, active.sid)
    <3>1. \A i \in DOMAIN toPhone'[c] : \E j \in DOMAIN toPhone[c] :
            toPhone[c][j] = toPhone'[c][i]
      BY <2>1
    <3> QED
      BY <1>0, <2>4, <2>6, <2>8, <3>1, NamesStay
  <2> HIDE DEF m
  <2>9. ASSUME NEW c \in Conns
        PROVE  \/ job'[c] = None
               \/ job[c] # None /\ job'[c].op = job[c].op /\ job'[c].client = job[c].client
               \/ /\ active # None /\ Names(c, active.sid)
                  /\ job'[c].client = active.client
                  /\ \E i \in DOMAIN toHost[c] :
                       toHost[c][i].type = "text_insert" /\ job'[c].op = toHost[c][i].op
    BY <2>2, <2>3, <2>5, <2>7
  <2>10. OwnersMove
    BY <2>1, <2>3, <2>4, <2>6, <2>8, <2>9 DEF OwnersMove
  <2> QED
    BY <1>0, <2>10, OwnersStay
<1>5. CASE RunInjector
  <2>1. /\ UNCHANGED <<sessionVars, wireVars, helloFrom>>
        /\ execQ # <<>>
        /\ \E stage : job' = [job EXCEPT ![Head(execQ)].stage = stage]
    BY <1>5 DEF RunInjector
  <2>2. Head(execQ) \in Conns /\ job[Head(execQ)] # None
    <3>1. execQ \in Seq(Conns)
      BY <1>0 DEF HostTypeOK
    <3>2. 1 \in DOMAIN execQ /\ Head(execQ) = execQ[1]
      BY <2>1, <3>1, HeadTailProperties, LenProperties, EmptySeq
    <3> QED
      BY <3>2, QueueJobs
  <2>3. \A c \in Conns : \/ job'[c] = None
                         \/ /\ job[c] # None /\ job'[c].op = job[c].op
                            /\ job'[c].client = job[c].client
    <3> DEFINE h == Head(execQ)
    <3>1. job[h] \in Job
      BY <1>0, <2>2 DEF HostTypeOK
    <3> HIDE DEF h
    <3>2. PICK stage : job' = [job EXCEPT ![h].stage = stage]
      BY <2>1 DEF h
    <3>3. job'[h].op = job[h].op /\ job'[h].client = job[h].client
      BY <1>0, <2>2, <3>1, <3>2 DEF HostTypeOK, Job, h
    <3>4. \A c \in Conns \ {h} : job'[c] = job[c]
      BY <1>0, <3>2 DEF HostTypeOK
    <3> QED
      BY <2>2, <3>3, <3>4 DEF h
  <2>4. \A c \in Conns : \A s : s = active'.sid /\ Names(c, s)' => Names(c, active.sid)
    BY <2>1 DEF sessionVars, wireVars, Names
  <2>5. OwnersMove
    BY <2>1, <2>3, <2>4 DEF OwnersMove, sessionVars, wireVars, LinesRead
  <2> QED
    BY <1>0, <2>5, OwnersStay
<1> QED
  BY <1>1, <1>2, <1>3, <1>4, <1>5 DEF HostNext, HostConnNext

LEMMA OwnersInit ==
  ASSUME Init
  PROVE  OwnerInv
BY DEF Init, WireInit, HostInit, OwnerInv

LEMMA OwnersNext ==
  Inv /\ OrderInv /\ StepInv /\ OwnerInv /\ [Next]_vars => OwnerInv'
<1> SUFFICES ASSUME Inv, OrderInv, StepInv, OwnerInv, [Next]_vars
             PROVE  OwnerInv'
  OBVIOUS
<1>0. /\ PhoneInv /\ HostInv /\ WireTypeOK /\ SessionTypeOK /\ PhoneInv'
      /\ LinesTyped /\ SocketsOwned /\ TakingTurns /\ SessionOnOneConn
  BY NextInv DEF Inv, HostInv, HostTypes, WireTypeOK, LinesTyped, StepInv,
                 TakingTurns, OrderInv
<1>1. ASSUME NEW p \in Clients, PhoneStep(p)
      PROVE  OwnerInv'
  <2>1. PhoneNext(p) /\ UNCHANGED <<active, helloFrom, job>>
    BY <1>1 DEF PhoneStep, sessionVars, hostVars
  <2>2. OnlyRead(toPhone') /\ \A q \in Clients \ {p} : phone'[q] = phone[q]
    BY <1>0, <2>1, PhoneStepLemma
  <2>3. Says(p) /\ TurnTaken(p)
    BY <1>0, <2>1, PhoneSays, PhoneTakesTurn
  <2> QED
    BY <1>0, <2>1, <2>2, <2>3, PhoneOwns
<1>2. CASE HostStep
  BY <1>0, <1>2, OwnersHost DEF HostStep
<1>3. CASE WireStep \/ UNCHANGED vars
  <2>1. /\ UNCHANGED <<phone, sessionVars, ledgerVars, hostVars>>
        /\ WireNext \/ UNCHANGED wireVars
    BY <1>3 DEF WireStep, vars
  <2>2. QuietStep
    BY <1>0, <2>1, WireQuiet
  <2>3. \A c \in Conns : link'[c] = "unused" <=> link[c] = "unused"
    <3>1. CASE WireNext
      <4>1. PICK k \in Conns : Refuse(k) \/ Reset(k) \/ Silence(k) \/ LoseTail(k)
        BY <3>1 DEF WireNext
      <4> QED
        BY <1>0, <4>1 DEF Refuse, Reset, Silence, LoseTail, WireTypeOK
    <3> QED
      BY <2>1, <3>1 DEF wireVars
  <2> QED
    BY <1>0, <2>1, <2>2, <2>3, OwnersQuiet DEF hostVars
<1> QED
  BY <1>1, <1>2, <1>3 DEF Next

LEMMA SpecOwners == Spec => []OwnerInv
BY SpecInv, SpecOrder, SpecStep, OwnersInit, OwnersNext, PTL DEF Spec

-----------------------------------------------------------------------------
(* The ledger is enough, as long as it need not evict: then what it learnt *)
(* it forgets only when a restart reads an older file.                     *)

\* There is room in the ledger for every operation.
RoomForAll == IsFiniteSet(Clients) /\ Cardinality(OpId) <= MaxEntries

\* Its keys are operations of the client they name, and have a digest.
OwnKey(key) == key \in Key /\ key[1] = key[2][1]
OwnKeys(l) == \A key \in Keys(l) : OwnKey(key) /\ l.digest[key] # Legacy

Knows(l, o) == <<o[1], o>> \in Keys(l)

LEMMA OwnKeysFit ==
  ASSUME RoomForAll, NEW S, \A key \in S : OwnKey(key)
  PROVE  IsFiniteSet(S) /\ Cardinality(S) <= MaxEntries
<1> DEFINE op == [key \in S |-> key[2]]
<1>1. \A key \in S : key[2] \in OpId /\ key = <<key[2][1], key[2]>>
  BY DEF OwnKey, Key
<1>2. op \in Injection(S, OpId)
  <2>1. op \in [S -> OpId]
    BY <1>1
  <2>2. \A x, y \in S : op[x] = op[y] => x = y
    BY <1>1
  <2> QED
    BY <2>1, <2>2 DEF Injection, IsInjective
<1>3. IsFiniteSet(OpId) /\ Cardinality(OpId) \in Nat
  <2>1. IsFiniteSet(1..MaxOps)
    BY FS_Interval, BoundsAssumption
  <2> QED
    BY <2>1, FS_Product, FS_CardinalityType DEF OpId, RoomForAll
<1>4. IsFiniteSet(S) /\ Cardinality(S) <= Cardinality(OpId)
  BY <1>2, <1>3, FS_Injection
<1>5. Cardinality(S) \in Nat
  BY <1>4, FS_CardinalityType
<1> QED
  BY <1>3, <1>4, <1>5, LedgerAssumption DEF RoomForAll

\* Nothing else is dropped: record only adds,
LEMMA PutAdds ==
  ASSUME RoomForAll, NEW l, InOrder(l), OwnKeys(l), NEW key, OwnKey(key),
         NEW text \in Texts
  PROVE  LET r == Put(l, key, text)
         IN InOrder(r) /\ OwnKeys(r) /\ Keys(r) = Keys(l) \cup {key}
<1> DEFINE K == Keys(l) \cup {key}
           digest == [x \in K |-> IF x = key THEN text ELSE l.digest[x]]
           r == [digest |-> digest, older |-> l.older]
           s == MoveToEnd(r, key)
<1>0. key \in Key
  BY DEF OwnKey
<1>1. /\ LedgerOf(r) /\ Keys(r) = K /\ r.older = l.older /\ r.digest = digest
      /\ Put(l, key, text) = Newest(s)
  <2>1. digest \in [K -> Texts \cup {Legacy}]
    BY DEF InOrder, LedgerOf
  <2>2. Put(l, key, text) = Newest(s)
    BY DEF Put
  <2> HIDE DEF digest, s
  <2> QED
    BY <1>0, <2>1, <2>2 DEF InOrder, LedgerOf, Keys
<1>2. IsFiniteSet(K) /\ Cardinality(K) <= MaxEntries
  BY OwnKeysFit DEF OwnKeys
<1> HIDE DEF r
<1>3. Orders(r.older, Keys(r) \ {key})
  BY <1>1 DEF InOrder, Orders
<1>4. InOrder(s) /\ Keys(s) = K /\ s.digest = digest
  BY <1>1, <1>2, <1>3, MoveToEndInOrder
<1>5. InOrder(Newest(s)) /\ Newest(s).digest = digest
  BY <1>2, <1>4, NewestFits, NewestKeepsAll
<1>6. Keys(Newest(s)) = K
  BY <1>5 DEF Keys
<1>7. \A x \in K : OwnKey(x) /\ digest[x] # Legacy
  BY LedgerAssumption DEF OwnKeys
<1> HIDE DEF s, digest
<1> QED
  BY <1>1, <1>5, <1>6, <1>7 DEF OwnKeys

\* _persist writes all,
LEMMA PersistedAll ==
  ASSUME NEW l, InOrder(l), OwnKeys(l)
  PROVE  OwnKeys(Persisted(l)) /\ Keys(Persisted(l)) = Keys(l)
<1>1. Persisted(l) = Only(l, Keys(l))
  BY DEF Persisted, OwnKeys
<1>2. /\ Keys(Persisted(l)) = Keys(l)
      /\ Persisted(l).digest = [x \in Keys(l) |-> l.digest[x]]
  BY <1>1 DEF Only, Keys
<1> QED
  BY <1>2 DEF OwnKeys

\* and a lookup and a restart keep what there is.
LEMMA SameDigest ==
  ASSUME NEW l, NEW r, r.digest = l.digest
  PROVE  Keys(r) = Keys(l) /\ (OwnKeys(l) => OwnKeys(r))
BY DEF Keys, OwnKeys

LEMMA SeenDigest ==
  ASSUME LedgerTypeOK, NEW m
  PROVE  LedgerSeen(m).digest = ledger.digest
<1>1. \A key : MoveToEnd(ledger, key).digest = ledger.digest
  BY DEF MoveToEnd, LedgerTypeOK, LedgerOf
<1> QED
  BY <1>1 DEF LedgerSeen, Touched

-----------------------------------------------------------------------------
(* Who an insert belongs to.                                               *)

LEMMA InsertOwner ==
  ASSUME HostInv, SocketsOwned, OwnerInv, HeadsOnly, NEW k \in Conns,
         Reads(k, "text_insert"), Verdict(Head(toHost[k])) \in {"match", "missing"}
  PROVE  LET m == Head(toHost[k])
         IN /\ m.op \in OpId /\ m.op # None /\ OwnKey(KeyOf(m))
            /\ KeyOf(m) = <<m.op[1], m.op>> /\ m.text \in Texts
<1> DEFINE m == Head(toHost[k])
<1>0. WireTypeOK
  BY DEF HostInv, HostTypes
<1>1. PICK i \in DOMAIN toHost[k] : toHost[k][i] = m /\ m.type = "text_insert"
  BY <1>0, ReadsLine DEF Reads
<1>2. WellFormed(m) /\ active # None /\ active.sid = m.sid
  BY VerdictMeans DEF Valid
<1>3. link[k] # "unused"
  BY DEF SocketsOwned, Reads
<1>4. PICK p \in Clients : OfPhone(k, p)
  BY <1>3 DEF OwnerInv
<1>5. m.op \in OpId
  BY <1>1 DEF HeadsOnly, Issued
<1>6. m.op # None
  BY <1>5, NoneAssumption DEF OpId
<1>7. Names(k, active.sid)
  BY <1>1, <1>2 DEF Names
<1>8. m.op[1] = p /\ active.client = p
  BY <1>1, <1>2, <1>4, <1>7 DEF OfPhone
<1>9. m.text \in Texts
  <2>1. m \in HostMsg
    BY <1>0, <1>1, ElementOfSeq DEF WireTypeOK
  <2> QED
    BY <1>1, <1>2, <2>1, InsertTyped DEF WellFormed
<1> HIDE DEF m
<1> QED
  BY <1>5, <1>6, <1>8, <1>9 DEF KeyOf, OwnKey, Key, m

LEMMA JobOwner ==
  ASSUME HostInv, SocketsOwned, OwnerInv, HeadsOnly, NEW k \in Conns,
         job[k] # None
  PROVE  LET j == job[k]
         IN /\ j.op \in OpId /\ j.op # None /\ OwnKey(<<j.client, j.op>>)
            /\ j.client = j.op[1] /\ j.text \in Texts
<1> DEFINE j == job[k]
<1>1. link[k] # "unused"
  BY DEF SocketsOwned
<1>2. PICK p \in Clients : OfPhone(k, p)
  BY <1>1 DEF OwnerInv
<1>3. j.op \in OpId
  BY DEF HeadsOnly, Issued
<1>4. j.op # None
  BY <1>3, NoneAssumption DEF OpId
<1>5. j.op[1] = p /\ j.client = p
  BY <1>2 DEF OfPhone
<1>6. j.text \in Texts
  <2>1. j \in Job
    BY DEF HostInv, HostTypes, HostTypeOK
  <2> QED
    BY <2>1 DEF Job
<1> HIDE DEF j
<1> QED
  BY <1>3, <1>4, <1>5, <1>6 DEF OwnKey, Key, j

\* An insert is handed to the worker only if the ledger does not know it.
LEMMA StartsUnknown ==
  ASSUME HostInv, SocketsOwned, OwnerInv, HeadsOnly, NEW k \in Conns, StartInsert(k)
  PROVE  /\ ~unavailable /\ job[k] = None /\ job'[k].stage = "waiting"
         /\ job'[k].op = Head(toHost[k]).op /\ ~Knows(ledger, job'[k].op)
         /\ \A c \in Conns \ {k} : job'[c] = job[c]
<1> DEFINE m == Head(toHost[k])
<1>1. /\ Reads(k, "text_insert") /\ Verdict(m) = "missing"
      /\ \E mode : job' = [job EXCEPT ![k] =
           [stage |-> "waiting", sid |-> m.sid, client |-> active.client,
            seq |-> m.seq, op |-> m.op, text |-> m.text, mode |-> mode]]
  BY DEF StartInsert
<1>2. /\ job'[k].stage = "waiting" /\ job'[k].op = m.op /\ job[k] = None
      /\ \A c \in Conns \ {k} : job'[c] = job[c]
  BY <1>1 DEF HostInv, HostTypes, HostTypeOK, Reads
<1>3. m.op # None /\ KeyOf(m) = <<m.op[1], m.op>>
  BY <1>1, InsertOwner
<1>4. Status(KeyOf(m), m.text) = "missing"
  BY <1>1, <1>3, VerdictMeans DEF OpStatus
<1> HIDE DEF m
<1>5. ~unavailable /\ KeyOf(m) \notin Keys(ledger)
  BY <1>4 DEF Status
<1> QED
  BY <1>2, <1>3, <1>5 DEF Knows, m

\* A duplicate is acknowledged only if the ledger knows it.
LEMMA MatchKnown ==
  ASSUME HostInv, SocketsOwned, OwnerInv, HeadsOnly, NEW k \in Conns, AckDuplicate(k)
  PROVE  /\ ~unavailable /\ Knows(ledger, Head(toHost[k]).op)
         /\ acked' = acked \cup {Head(toHost[k]).op}
<1> DEFINE m == Head(toHost[k])
<1>1. Reads(k, "text_insert") /\ Verdict(m) = "match" /\ acked' = acked \cup {m.op}
  BY DEF AckDuplicate
<1>2. m.op # None /\ KeyOf(m) = <<m.op[1], m.op>>
  BY <1>1, InsertOwner
<1>3. Status(KeyOf(m), m.text) = "match"
  BY <1>1, <1>2, VerdictMeans DEF OpStatus
<1> HIDE DEF m
<1>4. ~unavailable /\ KeyOf(m) \in Keys(ledger)
  BY <1>3 DEF Status
<1> QED
  BY <1>1, <1>2, <1>4 DEF Knows, m

-----------------------------------------------------------------------------
(* What the ledger knows.                                                  *)

\* What a step leaves of the ledger's keys and of the misfortunes.
LEMMA FaultStays ==
  ASSUME HostInv, [Next]_vars, NEW kind \in FaultKinds, faults[kind] = 0
  PROVE  faults'[kind] = 0 /\ ~Spend(kind)
<1>1. UNCHANGED faults \/ \E other : Spend(other)
  <2>1. ASSUME NEW p \in Clients, PhoneNext(p)
        PROVE  UNCHANGED faults \/ \E other : Spend(other)
    BY <2>1 DEF PhoneNext, AppendText, PickMode, TapConnect, TapDisconnect, Kill,
         Redial, OnOpen, OnFailure, SwitchRoute, RouteFound, OnResume,
         Heartbeat, AckTimeout, Hearing, HandleHelloOk, HandleAuthOk, HandleAck,
         HandleAckMismatch, HandleIgnored, HandleSessionError, HandleOtherError
  <2>2. ASSUME HostNext
        PROVE  UNCHANGED faults \/ \E other : Spend(other)
    BY <2>2 DEF HostNext, HostConnNext, OnHello, OnAuthRefused, OnAuth, OnPing,
         RefuseInsert, AckDuplicate, StartInsert, FinishInsert, FailInsert,
         RunInjector, HeartbeatGuard, QuietPeriod, RestartHost, RestartHostUnreadable
  <2>3. ASSUME WireNext
        PROVE  UNCHANGED faults \/ \E other : Spend(other)
    BY <2>3 DEF WireNext, Refuse, Reset, Silence, LoseTail
  <2> QED
    BY <2>1, <2>2, <2>3 DEF Next, PhoneStep, HostStep, WireStep, vars
<1>2. faults \in [FaultKinds -> Nat]
  BY DEF HostInv, HostTypes, WireTypeOK
<1> QED
  BY <1>1, <1>2 DEF Spend

KeysInv == OwnKeys(ledger) /\ OwnKeys(diskLedger)

\* The steps that only look at the ledger.
Looks ==
  /\ ledger'.digest = ledger.digest /\ diskLedger' = diskLedger
  /\ UNCHANGED unavailable

\* The ways the ledger changes.
LEMMA LedgerChanges ==
  ASSUME HostInv, [Next]_vars
  PROVE  \/ Looks
         \/ \E k \in Conns : FinishInsert(k)
         \/ RestartHost \/ RestartHostUnreadable
<1>0. LedgerTypeOK
  BY DEF HostInv, HostTypes
<1>1. CASE UNCHANGED ledgerVars
  BY <1>1 DEF ledgerVars, Looks
<1>2. ASSUME NEW k \in Conns, RefuseInsert(k) \/ AckDuplicate(k)
      PROVE  Looks
  BY <1>0, <1>2, SeenDigest DEF RefuseInsert, AckDuplicate, Looks
<1>3. ASSUME HostNext
      PROVE  \/ UNCHANGED ledgerVars
             \/ \E k \in Conns : RefuseInsert(k) \/ AckDuplicate(k) \/ FinishInsert(k)
             \/ RestartHost \/ RestartHostUnreadable
  BY <1>3 DEF HostNext, HostConnNext, OnHello, OnAuthRefused, OnAuth, OnPing,
              StartInsert, FailInsert, RunInjector, HeartbeatGuard, QuietPeriod
<1> QED
  BY <1>1, <1>2, <1>3 DEF Next, PhoneStep, HostStep, WireStep, vars

\* The ledger after a record.
LEMMA RecordKnows ==
  ASSUME RoomForAll, LedgerInv, KeysInv, NEW key, OwnKey(key), NEW text \in Texts,
         RecordOk(key, text) \/ RecordFails(key, text)
  PROVE  /\ KeysInv' /\ Keys(ledger') = Keys(ledger) \cup {key}
         /\ RecordOk(key, text) => Keys(diskLedger') = Keys(ledger')
<1> DEFINE r == Put(ledger, key, text)
<1>1. InOrder(r) /\ OwnKeys(r) /\ Keys(r) = Keys(ledger) \cup {key}
  BY PutAdds DEF LedgerInv, Fits, KeysInv
<1>2. OwnKeys(Persisted(r)) /\ Keys(Persisted(r)) = Keys(r)
  BY <1>1, PersistedAll
<1>3. ledger' = r /\ diskLedger' \in {diskLedger, Persisted(r)}
  BY DEF RecordOk, RecordFails
<1>4. RecordOk(key, text) => diskLedger' = Persisted(r)
  BY <1>3 DEF RecordOk
<1> HIDE DEF r
<1> QED
  BY <1>1, <1>2, <1>3, <1>4 DEF KeysInv

LEMMA EmptyKeys ==
  Keys(EmptyLedger) = {} /\ OwnKeys(EmptyLedger)
BY EmptyLedgerSound DEF OwnKeys

LEMMA LoadKeeps ==
  ASSUME LedgerInv, LoadOk
  PROVE  ledger'.digest = diskLedger.digest /\ diskLedger' = diskLedger
BY NewestKeepsAll DEF LoadOk, LedgerInv, Fits

LEMMA FinishRecords ==
  ASSUME RoomForAll, HostInv, SocketsOwned, OwnerInv, HeadsOnly, LedgerInv, KeysInv,
         NEW k \in Conns, FinishInsert(k)
  PROVE  LET o == job[k].op
         IN /\ KeysInv' /\ acked' = acked \cup {o} /\ UNCHANGED desktop
            /\ job[k] # None /\ job[k].stage = "injected" /\ job'[k] = None
            /\ \A c \in Conns \ {k} : job'[c] = job[c]
            /\ \/ unavailable /\ UNCHANGED ledgerVars
               \/ /\ Knows(ledger', o) /\ Keys(ledger) \subseteq Keys(ledger')
                  /\ Keys(diskLedger') = Keys(ledger') /\ ~unavailable'
               \/ unavailable' /\ Spend("persist")
<1> DEFINE j == job[k]
           key == <<j.client, j.op>>
<1>1. /\ j # None /\ j.stage = "injected" /\ job'[k] = None
      /\ \A c \in Conns \ {k} : job'[c] = job[c]
  <2>1. Resumes(k, "injected") /\ UNCHANGED execQ
    BY DEF FinishInsert
  <2>2. j \in Job /\ \A c \in Conns \ {k} : job'[c] = job[c]
    BY <2>1, ResumeQueues DEF HostInv, HostTypes
  <2> QED
    BY <2>1, <2>2, NoneIsNoJob DEF Resumes, HostInv, HostTypes, HostTypeOK
<1>2. /\ j.op # None /\ OwnKey(key) /\ j.client = j.op[1] /\ j.text \in Texts
      /\ acked' = acked \cup {j.op} /\ UNCHANGED desktop
  BY <1>1, JobOwner DEF FinishInsert
<1>3. \/ RecordSkipped \/ RecordOk(key, j.text)
      \/ RecordFails(key, j.text) /\ Spend("persist")
  BY <1>2 DEF FinishInsert
<1> HIDE DEF j
<1>4. CASE RecordSkipped
  <2>1. KeysInv'
    BY <1>4 DEF RecordSkipped, ledgerVars, KeysInv, OwnKeys, Keys
  <2> QED
    BY <1>1, <1>2, <1>4, <2>1 DEF RecordSkipped, j
<1>5. CASE RecordOk(key, j.text)
  BY <1>1, <1>2, <1>5, RecordKnows DEF RecordOk, Knows, j
<1>6. CASE RecordFails(key, j.text) /\ Spend("persist")
  BY <1>1, <1>2, <1>6, RecordKnows DEF RecordFails, j
<1> QED
  BY <1>3, <1>4, <1>5, <1>6

LEMMA KeysNext ==
  ASSUME RoomForAll, HostInv, SocketsOwned, OwnerInv, HeadsOnly, LedgerInv, KeysInv,
         [Next]_vars
  PROVE  KeysInv'
<1>1. CASE Looks
  BY <1>1, SameDigest DEF Looks, KeysInv
<1>2. CASE RestartHost
  BY <1>2, LoadKeeps, SameDigest DEF RestartHost, KeysInv
<1>3. CASE RestartHostUnreadable
  BY <1>3, EmptyKeys DEF RestartHostUnreadable, LoadFails, KeysInv
<1> QED
  BY <1>1, <1>2, <1>3, LedgerChanges, FinishRecords

-----------------------------------------------------------------------------
(* What the handlers do meanwhile.                                         *)

LEMMA StartsIsStart ==
  ASSUME HostInv, [Next]_vars, NEW k \in Conns, StartsInsert(k)
  PROVE  StartInsert(k) /\ UNCHANGED <<ledgerVars, acked, desktop>>
<1>0. job \in [Conns -> Job \cup {None}]
  BY DEF HostInv, HostTypes, HostTypeOK
<1>1. job[k] = None /\ job'[k] # None
  BY DEF StartsInsert
<1>2. ASSUME NEW c \in Conns, HostConnNext(c)
      PROVE  StartInsert(k)
  BY <1>0, <1>1, <1>2 DEF HostConnNext, OnHello, OnAuthRefused, OnAuth, OnPing,
     RefuseInsert, AckDuplicate, StartInsert, FinishInsert, FailInsert, Resumes,
     hostVars
<1>3. ~RunInjector
  <2> SUFFICES ASSUME RunInjector
               PROVE  FALSE
    OBVIOUS
  <2>1. execQ # <<>> /\ \E stage : job' = [job EXCEPT ![Head(execQ)].stage = stage]
    BY DEF RunInjector
  <2>2. execQ \in Seq(Conns)
    BY DEF HostInv, HostTypes, HostTypeOK
  <2>3. 1 \in DOMAIN execQ /\ Head(execQ) = execQ[1]
    BY <2>1, <2>2, HeadTailProperties, LenProperties, EmptySeq
  <2>4. Head(execQ) # k
    BY <1>1, <2>3, QueueJobs
  <2> QED
    BY <1>0, <1>1, <2>1, <2>4
<1>4. ~(HeartbeatGuard \/ QuietPeriod \/ RestartHost \/ RestartHostUnreadable)
  BY <1>1 DEF HeartbeatGuard, QuietPeriod, RestartHost, RestartHostUnreadable,
              Restarted, hostVars
<1>5. StartInsert(k)
  BY <1>1, <1>2, <1>3, <1>4
     DEF Next, PhoneStep, HostStep, WireStep, vars, hostVars, HostNext
<1> QED
  BY <1>5 DEF StartInsert

\* Apart from the worker, a start, a resumption and a restart, no step changes
\* what a handler awaits.
LEMMA HandlersMove ==
  ASSUME HostInv, [Next]_vars
  PROVE  \/ UNCHANGED <<job, desktop>>
         \/ \E k \in Conns : StartInsert(k) \/ FinishInsert(k) \/ FailInsert(k)
         \/ RunInjector \/ RestartHost \/ RestartHostUnreadable
BY DEF Next, PhoneStep, HostStep, WireStep, vars, HostNext, HostConnNext, OnHello,
       OnAuthRefused, OnAuth, OnPing, RefuseInsert, AckDuplicate, HeartbeatGuard,
       QuietPeriod, hostVars

LEMMA AckedMoves ==
  ASSUME HostInv, [Next]_vars
  PROVE  UNCHANGED acked \/ \E k \in Conns : AckDuplicate(k) \/ FinishInsert(k)
BY DEF Next, PhoneStep, HostStep, WireStep, vars, HostNext, HostConnNext, OnHello,
       OnAuthRefused, OnAuth, OnPing, RefuseInsert, StartInsert, FailInsert,
       RunInjector, HeartbeatGuard, QuietPeriod, RestartHost, RestartHostUnreadable,
       Restarted, hostVars

\* What is typed is typed for a handler that will record it.
LEMMA WorkerTypes ==
  ASSUME HostInv, RunInjector
  PROVE  \E k \in Conns :
           /\ job[k] # None /\ job[k].stage = "waiting" /\ job'[k] # None
           /\ \A c \in Conns \ {k} : job'[c] = job[c]
           /\ \/ UNCHANGED desktop
              \/ /\ job'[k].stage = "injected"
                 /\ Injected' = Injected \cup {job'[k].op}
<1> DEFINE k == Head(execQ)
<1>0. /\ job \in [Conns -> Job \cup {None}] /\ execQ \in Seq(Conns) /\ execQ # <<>>
      /\ desktop \in Seq(Typed)
  BY DEF RunInjector, HostInv, HostTypes, HostTypeOK
<1>1. 1 \in DOMAIN execQ /\ k = execQ[1] /\ k \in Conns
  BY <1>0, HeadTailProperties, LenProperties, EmptySeq
<1>2. job[k] # None /\ job[k].stage = "waiting" /\ job[k] \in Job
  BY <1>0, <1>1 DEF HostInv, WorkerQueues
<1>3. \/ /\ desktop' = Append(desktop,
              [client |-> job[k].client, op |-> job[k].op,
               text |-> job[k].text, mode |-> injectorMode])
         /\ job' = [job EXCEPT ![k].stage = "injected"]
      \/ UNCHANGED desktop /\ job' = [job EXCEPT ![k].stage = "failed"]
  BY DEF RunInjector
<1> HIDE DEF k
<1>4. \A stage \in {"injected", "failed"} : job' = [job EXCEPT ![k].stage = stage] =>
        /\ job'[k] \in Job /\ job'[k].stage = stage /\ job'[k].op = job[k].op
        /\ \A c \in Conns \ {k} : job'[c] = job[c]
  BY <1>0, <1>1, <1>2 DEF Job
<1>5. /\ job'[k] # None /\ \A c \in Conns \ {k} : job'[c] = job[c]
  BY <1>3, <1>4, NoneIsNoJob
<1>6. ASSUME NEW e, desktop' = Append(desktop, e)
      PROVE  Injected' = Injected \cup {e.op}
  <2>1. /\ DOMAIN desktop' = DOMAIN desktop \cup {Len(desktop) + 1}
        /\ desktop'[Len(desktop) + 1] = e
        /\ \A i \in DOMAIN desktop : desktop'[i] = desktop[i]
    <3>1. Len(desktop) \in Nat /\ DOMAIN desktop = 1..Len(desktop)
      BY <1>0, LenProperties
    <3>2. /\ DOMAIN desktop' = 1..Len(desktop) + 1
          /\ desktop'[Len(desktop) + 1] = e
          /\ \A i \in 1..Len(desktop) : desktop'[i] = desktop[i]
      BY <1>0, <1>6, <3>1
    <3>3. \A n \in Nat : 1..n + 1 = (1..n) \cup {n + 1}
      OBVIOUS
    <3> QED
      BY <3>1, <3>2, <3>3
  <2> QED
    BY <2>1 DEF Injected
<1>7. CASE UNCHANGED desktop
  BY <1>1, <1>2, <1>5, <1>7
<1>8. CASE /\ job' = [job EXCEPT ![k].stage = "injected"]
           /\ desktop' = Append(desktop,
                [client |-> job[k].client, op |-> job[k].op,
                 text |-> job[k].text, mode |-> injectorMode])
  <2>1. Injected' = Injected \cup {job'[k].op} /\ job'[k].stage = "injected"
    BY <1>4, <1>6, <1>8
  <2> QED
    BY <1>1, <1>2, <1>5, <2>1
<1> QED
  BY <1>3, <1>7, <1>8

-----------------------------------------------------------------------------
(* Acknowledged means known: on file, if no write of the file fails...     *)

FileInv ==
  /\ faults["persist"] = 0
  /\ \A o \in acked : Knows(diskLedger, o)
  /\ ~unavailable => Keys(ledger) = Keys(diskLedger)
  /\ unavailable => \A k \in Conns : job[k] = None

(* ...and in memory, if no restart reads the file, where what was typed is *)
(* known too, except while the handler that typed it has yet to record it. *)

Unrecorded(o) ==
  \E k \in Conns : job[k] # None /\ job[k].stage = "injected" /\ job[k].op = o

MemoryInv ==
  /\ faults["crash"] = 0
  /\ ~unavailable => /\ \A o \in acked : Knows(ledger, o)
                     /\ \A o \in Injected : Knows(ledger, o) \/ Unrecorded(o)

\* What every reachable state has, and the two invariants need.
Grounds ==
  /\ RoomForAll /\ HostInv /\ SocketsOwned /\ OwnerInv /\ HeadsOnly
  /\ LedgerInv /\ KeysInv

LEMMA FileNext ==
  ASSUME Grounds, FileInv, [Next]_vars
  PROVE  FileInv'
<1>0. faults'["persist"] = 0 /\ ~Spend("persist")
  BY FaultStays DEF Grounds, FileInv, FaultKinds
<1>1. ASSUME NEW k \in Conns, FinishInsert(k)
      PROVE  FileInv'
  <2>1. ~unavailable
    BY <1>1, FinishRecords DEF Grounds, FileInv
  <2>2. /\ Knows(ledger', job[k].op) /\ Keys(ledger) \subseteq Keys(ledger')
        /\ Keys(diskLedger') = Keys(ledger') /\ ~unavailable'
        /\ acked' = acked \cup {job[k].op}
    BY <1>0, <1>1, <2>1, FinishRecords DEF Grounds
  <2> QED
    BY <1>0, <2>1, <2>2 DEF FileInv, Knows
<1>2. CASE RestartHost
  <2>1. LoadOk /\ acked' = acked /\ ~unavailable'
    BY <1>2 DEF RestartHost, Restarted, LoadOk
  <2>2. Keys(ledger') = Keys(diskLedger) /\ diskLedger' = diskLedger
    BY <2>1, LoadKeeps DEF Grounds, Keys
  <2> QED
    BY <1>0, <2>1, <2>2 DEF FileInv, Knows
<1>3. CASE RestartHostUnreadable
  BY <1>0, <1>3 DEF RestartHostUnreadable, Restarted, LoadFails, FileInv, Knows
<1>4. CASE Looks /\ ~(\E k \in Conns : FinishInsert(k))
           /\ ~RestartHost /\ ~RestartHostUnreadable
  <2>1. /\ Keys(ledger') = Keys(ledger) /\ diskLedger' = diskLedger
        /\ unavailable' = unavailable
    BY <1>4 DEF Looks, Keys
  <2>2. \A o \in acked' : Knows(diskLedger', o)
    <3>1. CASE UNCHANGED acked
      BY <2>1, <3>1 DEF FileInv, Knows
    <3>2. ASSUME NEW k \in Conns, AckDuplicate(k)
          PROVE  \A o \in acked' : Knows(diskLedger', o)
      BY <2>1, <3>2, MatchKnown DEF Grounds, FileInv, Knows
    <3> QED
      BY <1>4, <3>1, <3>2, AckedMoves DEF Grounds
  <2>3. ASSUME unavailable, NEW k \in Conns
        PROVE  job'[k] = None
    <3>1. \A c \in Conns : job[c] = None
      BY <2>3 DEF FileInv
    <3>2. ~RunInjector
      BY <3>1, WorkerTypes DEF Grounds
    <3>3. \A c \in Conns : ~StartInsert(c)
      BY <2>3, StartsUnknown DEF Grounds
    <3>4. \A c \in Conns : ~FailInsert(c)
      BY <3>1, ResumeQueues DEF FailInsert, Grounds, HostInv, HostTypes,
         NoneIsNoJob
    <3> QED
      BY <1>4, <3>1, <3>2, <3>3, <3>4, HandlersMove DEF Grounds
  <2> QED
    BY <1>0, <2>1, <2>2, <2>3 DEF FileInv, Knows
<1> QED
  BY <1>1, <1>2, <1>3, <1>4, LedgerChanges DEF Grounds

LEMMA MemoryNext ==
  ASSUME Grounds, MemoryInv, [Next]_vars
  PROVE  MemoryInv'
<1>0. faults'["crash"] = 0 /\ ~RestartHost
  BY FaultStays DEF Grounds, MemoryInv, FaultKinds, RestartHost
<1>1. ASSUME NEW k \in Conns, FinishInsert(k), ~unavailable'
      PROVE  MemoryInv'
  <2> DEFINE o == job[k].op
  <2>1. /\ acked' = acked \cup {job[k].op} /\ UNCHANGED desktop
        /\ \A c \in Conns \ {k} : job'[c] = job[c]
        /\ \/ unavailable /\ UNCHANGED ledgerVars
           \/ /\ Knows(ledger', job[k].op) /\ Keys(ledger) \subseteq Keys(ledger')
              /\ ~unavailable'
           \/ unavailable'
    <3>1. /\ RoomForAll /\ HostInv /\ SocketsOwned /\ OwnerInv
          /\ HeadsOnly /\ LedgerInv /\ KeysInv
      BY DEF Grounds
    <3> QED
      BY <1>1, <3>1, FinishRecords
  <2>2. ~unavailable /\ ~(unavailable /\ UNCHANGED ledgerVars)
    BY <1>1 DEF FinishInsert, RecordSkipped, RecordOk, RecordFails, ledgerVars
  <2>3. /\ acked' = acked \cup {o} /\ Injected' = Injected
        /\ \A c \in Conns \ {k} : job'[c] = job[c]
        /\ Knows(ledger', o) /\ Keys(ledger) \subseteq Keys(ledger') /\ ~unavailable
    BY <1>1, <2>1, <2>2 DEF Injected
  <2>4. \A e : Unrecorded(e) /\ e # o => Unrecorded(e)'
    BY <2>3 DEF Unrecorded
  <2>5. ASSUME NEW e \in Injected'
        PROVE  Knows(ledger', e) \/ Unrecorded(e)'
    <3>1. Knows(ledger, e) \/ Unrecorded(e)
      BY <2>3, <2>5 DEF MemoryInv
    <3> QED
      BY <2>3, <2>4, <3>1 DEF Knows
  <2>6. \A e \in acked' : Knows(ledger', e)
    BY <2>3 DEF MemoryInv, Knows
  <2> QED
    BY <1>0, <2>5, <2>6 DEF MemoryInv, Knows, Unrecorded
<1>2. CASE unavailable'
  BY <1>0, <1>2 DEF MemoryInv
<1>3. CASE ~unavailable' /\ Looks /\ ~(\E k \in Conns : FinishInsert(k))
           /\ ~RestartHostUnreadable
  <2>1. Keys(ledger') = Keys(ledger) /\ ~unavailable
    BY <1>3 DEF Looks, Keys
  <2>2. \A o \in acked' : Knows(ledger', o)
    <3>1. CASE UNCHANGED acked
      BY <2>1, <3>1 DEF MemoryInv, Knows
    <3>2. ASSUME NEW k \in Conns, AckDuplicate(k)
          PROVE  \A o \in acked' : Knows(ledger', o)
      BY <2>1, <3>2, MatchKnown DEF Grounds, MemoryInv, Knows
    <3> QED
      BY <1>3, <3>1, <3>2, AckedMoves DEF Grounds
  <2>3. ASSUME Injected' = Injected,
               \A k \in Conns : job[k] # None /\ job[k].stage = "injected" =>
                 job'[k] = job[k]
        PROVE  MemoryInv'
    <3>1. \A o : Unrecorded(o) => Unrecorded(o)'
      BY <2>3 DEF Unrecorded
    <3>2. \A o \in Injected' : Knows(ledger', o) \/ Unrecorded(o)'
      BY <2>1, <2>3, <3>1 DEF MemoryInv, Knows
    <3> QED
      BY <1>0, <2>2, <3>2 DEF MemoryInv, Knows, Unrecorded
  <2>4. CASE UNCHANGED <<job, desktop>>
    BY <2>3, <2>4 DEF Injected
  <2>5. ASSUME NEW k \in Conns, StartInsert(k)
        PROVE  MemoryInv'
    <3>1. UNCHANGED desktop /\ job[k] = None /\ \A c \in Conns \ {k} : job'[c] = job[c]
      BY <2>5, StartsUnknown DEF Grounds, StartInsert
    <3> QED
      BY <2>3, <3>1 DEF Injected
  <2>6. ASSUME NEW k \in Conns, FailInsert(k)
        PROVE  MemoryInv'
    <3>1. Resumes(k, "failed") /\ UNCHANGED <<execQ, desktop>>
      BY <2>6 DEF FailInsert
    <3>2. job[k].stage = "failed" /\ \A c \in Conns \ {k} : job'[c] = job[c]
      BY <3>1, ResumeQueues DEF Grounds, HostInv, HostTypes, Resumes
    <3> QED
      BY <2>3, <3>1, <3>2 DEF Injected
  <2>7. CASE RunInjector
    <3>1. PICK k \in Conns :
            /\ job[k] # None /\ job[k].stage = "waiting" /\ job'[k] # None
            /\ \A c \in Conns \ {k} : job'[c] = job[c]
            /\ \/ UNCHANGED desktop
               \/ /\ job'[k].stage = "injected"
                  /\ Injected' = Injected \cup {job'[k].op}
      BY <2>7, WorkerTypes DEF Grounds
    <3>2. CASE UNCHANGED desktop
      BY <2>3, <3>1, <3>2 DEF Injected
    <3>3. CASE /\ job'[k].stage = "injected"
               /\ Injected' = Injected \cup {job'[k].op}
      <4>1. \A o : Unrecorded(o) => Unrecorded(o)'
        BY <3>1 DEF Unrecorded
      <4>2. \A o : o = job'[k].op => Unrecorded(o)'
        BY <3>1, <3>3 DEF Unrecorded
      <4>3. \A o \in Injected' : Knows(ledger', o) \/ Unrecorded(o)'
        BY <2>1, <3>3, <4>1, <4>2 DEF MemoryInv, Knows
      <4> QED
        BY <1>0, <2>2, <4>3 DEF MemoryInv, Knows, Unrecorded
    <3> QED
      BY <3>1, <3>2, <3>3
  <2> QED
    BY <1>0, <1>3, <2>4, <2>5, <2>6, <2>7, HandlersMove DEF Grounds
<1>4. RestartHostUnreadable => unavailable'
  BY DEF RestartHostUnreadable, LoadFails
<1> QED
  BY <1>0, <1>1, <1>2, <1>3, <1>4, LedgerChanges DEF Grounds

LEMMA SpecGrounds ==
  ASSUME RoomForAll
  PROVE  Spec => [](Grounds /\ Inv)
<1>1. Init => KeysInv
  BY EmptyKeys DEF Init, LedgerInit, KeysInv
<1>2. Inv /\ OrderInv /\ StepInv /\ OwnerInv /\ LedgerInv /\ KeysInv /\ [Next]_vars
      => KeysInv'
  BY KeysNext DEF Inv, OrderInv, StepInv, TakingTurns
<1>3. Inv /\ OrderInv /\ StepInv /\ OwnerInv /\ LedgerInv /\ KeysInv => Grounds
  BY DEF Grounds, Inv, OrderInv, StepInv, TakingTurns
<1> QED
  BY SpecInv, SpecOrder, SpecStep, SpecOwners, SpecLedger, <1>1, <1>2, <1>3, PTL
     DEF Spec

LEMMA SpecFile ==
  ASSUME RoomForAll, Budget["persist"] = 0
  PROVE  Spec => []FileInv
<1>1. Init => FileInv
  BY DEF Init, WireInit, LedgerInit, HostInit, FileInv
<1>2. Grounds /\ FileInv /\ [Next]_vars => FileInv'
  BY FileNext
<1> QED
  BY SpecGrounds, <1>1, <1>2, PTL DEF Spec

LEMMA SpecMemory ==
  ASSUME RoomForAll, Budget["crash"] = 0
  PROVE  Spec => []MemoryInv
<1>1. Init => MemoryInv
  BY DEF Init, WireInit, HostInit, Injected, MemoryInv
<1>2. Grounds /\ MemoryInv /\ [Next]_vars => MemoryInv'
  BY MemoryNext
<1> QED
  BY SpecGrounds, <1>1, <1>2, PTL DEF Spec

\* If the ledger has room for every operation and no write of its file fails,
\* an operation acknowledged as delivered is in memory and on file in every
\* state in which the ledger is usable: neither a lookup, a recording, a
\* restart nor a crash between the two makes the host forget it
\* (AppliedOpLedger.record, _persist, _load).
THEOREM AcksAreDurable ==
  RoomForAll /\ Budget["persist"] = 0 /\ Spec => []AckedIsDurable
<1> SUFFICES ASSUME RoomForAll, Budget["persist"] = 0
             PROVE  Spec => []AckedIsDurable
  OBVIOUS
<1>1. FileInv => AckedIsDurable
  BY DEF FileInv, AckedIsDurable, Knows
<1> QED
  BY SpecFile, <1>1, PTL

\* Under the same room, unless both a write of the file fails and a restart
\* reads it, an operation acknowledged as delivered is never handed to the
\* worker again, whatever is resent on whatever connection and session
\* (_on_text_insert asks the ledger before it calls the injector).
THEOREM AckedOnceForAll ==
  RoomForAll /\ (Budget["persist"] = 0 \/ Budget["crash"] = 0) /\ Spec
  => AckedNeverRestarted
<1> SUFFICES ASSUME RoomForAll, Budget["persist"] = 0 \/ Budget["crash"] = 0
             PROVE  Spec => AckedNeverRestarted
  OBVIOUS
<1>1. Grounds /\ (FileInv \/ MemoryInv) /\ [Next]_vars =>
        [\A k \in Conns : StartsInsert(k) => job'[k].op \notin acked]_hostVars
  <2> SUFFICES ASSUME Grounds, FileInv \/ MemoryInv, [Next]_vars,
                      NEW k \in Conns, StartsInsert(k)
               PROVE  job'[k].op \notin acked
    OBVIOUS
  <2>1. ~unavailable /\ ~Knows(ledger, job'[k].op)
    BY StartsIsStart, StartsUnknown DEF Grounds
  <2> QED
    BY <2>1 DEF FileInv, MemoryInv, Knows
<1>2. CASE Budget["persist"] = 0
  BY <1>1, <1>2, SpecGrounds, SpecFile, PTL DEF Spec, AckedNeverRestarted
<1>3. CASE Budget["crash"] = 0
  BY <1>1, <1>3, SpecGrounds, SpecMemory, PTL DEF Spec, AckedNeverRestarted
<1> QED
  BY <1>2, <1>3

\* Under the same room, and without a restart that reads the file, the worker
\* is given a chunk the desktop already shows only while the handler that had
\* it typed before has not yet recorded it.
THEOREM ReplayIsARace ==
  RoomForAll /\ Budget["crash"] = 0 /\ Spec => ReplayOnlyWhileUnrecorded
<1> SUFFICES ASSUME RoomForAll, Budget["crash"] = 0
             PROVE  Spec => ReplayOnlyWhileUnrecorded
  OBVIOUS
<1>1. Grounds /\ MemoryInv /\ [Next]_vars =>
        [\A k \in Conns : StartsInsert(k) /\ job'[k].op \in Injected =>
           \E j \in Conns \ {k} : job[j] # None /\ job[j].op = job'[k].op]_vars
  <2> SUFFICES ASSUME Grounds, MemoryInv, [Next]_vars, NEW k \in Conns,
                      StartsInsert(k), job'[k].op \in Injected
               PROVE  \E j \in Conns \ {k} : job[j] # None /\ job[j].op = job'[k].op
    OBVIOUS
  <2>1. ~unavailable /\ ~Knows(ledger, job'[k].op) /\ job[k] = None
    BY StartsIsStart, StartsUnknown DEF Grounds
  <2>2. Unrecorded(job'[k].op)
    BY <2>1 DEF MemoryInv
  <2> QED
    BY <2>1, <2>2 DEF Unrecorded
<1> QED
  BY <1>1, SpecGrounds, SpecMemory, PTL DEF Spec, ReplayOnlyWhileUnrecorded
=============================================================================
