------------------------- MODULE OneSided_proofs -------------------------
(***************************************************************************)
(* What each side keeps true on its own: the phone whatever the host       *)
(* answers, and the host whatever its clients send.                        *)
(***************************************************************************)
EXTENDS PhoneAlone, HostClients, BothSides_proofs

(* The phone. *)

PhoneAloneInv == PhoneInv /\ WireTypeOK

LEMMA PhoneAloneInit == AloneInit => PhoneAloneInv
BY PhoneInitLemma, WireInitLemma DEF AloneInit, PhoneAloneInv

LEMMA HostSaysTyped ==
  ASSUME PhoneAloneInv, NEW k \in Conns, HostSays(k)
  PROVE  PhoneAloneInv'
<1>1. PICK m \in Answers : toPhone' = [toPhone EXCEPT ![k] = <<m>>]
  BY DEF HostSays
<1>2. <<m>> \in Seq(PhoneMsg)
  BY AnswersAssumption
<1>3. <<>> \in Seq(HostMsg)
  BY EmptySeq
<1> QED
  BY <1>1, <1>2, <1>3 DEF HostSays, PhoneAloneInv, PhoneInv, WireTypeOK

LEMMA PhoneAloneStep == PhoneAloneInv /\ [AloneNext]_aloneVars => PhoneAloneInv'
<1> SUFFICES ASSUME PhoneAloneInv, [AloneNext]_aloneVars
             PROVE  PhoneAloneInv'
  OBVIOUS
<1>1. ASSUME NEW p \in Clients, PhoneNext(p)
      PROVE  PhoneAloneInv'
  BY <1>1, PhoneStepLemma DEF PhoneAloneInv
<1>2. ASSUME NEW k \in Conns, HostSays(k)
      PROVE  PhoneAloneInv'
  BY <1>2, HostSaysTyped
<1>3. CASE WireNext /\ UNCHANGED <<phone, says>>
  BY <1>3, WireStepLemma DEF PhoneAloneInv, PhoneInv
<1>4. CASE UNCHANGED aloneVars
  BY <1>4 DEF aloneVars, wireVars, PhoneAloneInv, PhoneInv, WireTypeOK
<1> QED
  BY <1>1, <1>2, <1>3, <1>4 DEF AloneNext

LEMMA PhoneAloneKeeps == AloneSpec => []PhoneAloneInv
BY PhoneAloneInit, PhoneAloneStep, PTL DEF AloneSpec

LEMMA PhoneAloneReady == AloneSpec => []AllReady
<1>1. AloneInit => AllReady
  BY DEF AloneInit, PhoneInit, AllReady, Ready, Drains
<1>2. ASSUME PhoneAloneInv, AllReady, [AloneNext]_aloneVars
      PROVE  AllReady'
  <2>1. ASSUME NEW p \in Clients, PhoneNext(p)
        PROVE  AllReady'
    <3>1. PhoneInv /\ LinesTyped
      BY <1>2 DEF PhoneAloneInv, WireTypeOK, LinesTyped
    <3>2. Settles(p)
      BY <1>2, <2>1, <3>1, PhoneSettles
    <3> QED
      BY <1>2, <2>1, <3>1, <3>2, SettlesReady
  <2>2. CASE UNCHANGED phone
    BY <1>2, <2>2 DEF AllReady
  <2> QED
    BY <1>2, <2>1, <2>2 DEF AloneNext, HostSays, aloneVars
<1> QED
  BY <1>1, <1>2, PhoneAloneKeeps, PTL DEF AloneSpec

\* Every variable of the phone and of the wire keeps its type: above all, the
\* sequence numbers of a session never pass the number of chunks.
THEOREM PhoneTypes == AloneSpec => []AloneTypeOK
<1>1. PhoneAloneInv => AloneTypeOK
  BY DEF PhoneAloneInv, AloneTypeOK, PhoneInv, PhoneTypeOK
<1> QED
  BY PhoneAloneKeeps, <1>1, PTL

\* The queue is the unconfirmed tail of what was appended, and only its head
\* is in flight (drainDeliveryQueue, handleMessage, onDisconnected).
THEOREM QueueTail == AloneSpec => []QueueIsUnconfirmedTail
<1>1. PhoneAloneInv => QueueIsUnconfirmedTail
  BY DEF PhoneAloneInv, PhoneInv, Sound, QueueIsUnconfirmedTail
<1> QED
  BY PhoneAloneKeeps, <1>1, PTL

\* Only the matching successful ACK of the operation in flight removes text
\* from the queue, and it removes that operation (handleMessage "ack").
THEOREM OnlyMatchingAckRemoves == AloneSpec => RemovedOnlyByMatchingAck
<1> DEFINE Shrinks(p) == Len(phone'[p].queue) < Len(phone[p].queue)
           Rightly(p) ==
             /\ phone[p].conn = "open" /\ Hears(p, "ack")
             /\ Heard(p).ok /\ Heard(p).op = <<p, Head(phone[p].queue)>>
             /\ phone[p].inflight = Head(phone[p].queue)
             /\ phone'[p].queue = Tail(phone[p].queue)
           Right == \A p \in Clients : Shrinks(p) => Rightly(p)
<1>1. ASSUME PhoneAloneInv, [AloneNext]_aloneVars
      PROVE  [Right]_phone
  <2> SUFFICES ASSUME phone' # phone, NEW q \in Clients, Shrinks(q)
               PROVE  Rightly(q)
    OBVIOUS
  <2>1. PICK p \in Clients : PhoneNext(p)
    BY <1>1 DEF AloneNext, HostSays, aloneVars
  <2>2. /\ Kept(p) \/ Appended(p) \/ Removed(p)
        /\ \A r \in Clients \ {p} : phone'[r] = phone[r]
    BY <1>1, <2>1, PhoneStepLemma DEF PhoneAloneInv
  <2>3. Sound(phone[q])
    BY <1>1 DEF PhoneAloneInv, PhoneInv
  <2>4. Len(phone[q].queue) \in Nat /\ phone[q].queue \in Seq(1..MaxOps)
    BY <2>3, SoundFields
  <2>5. q = p
    BY <2>2, <2>4
  <2>6. ~Kept(p)
    BY <2>4, <2>5 DEF Kept
  <2>7. ~Appended(p)
    <3> SUFFICES ASSUME Appended(p) PROVE FALSE
      OBVIOUS
    <3> DEFINE n == phone[p].submitted + 1
               S == 1..MaxOps \cup {n}
    <3>1. phone[p].queue \in Seq(1..MaxOps) /\ 1..MaxOps \subseteq S
      BY <2>4, <2>5
    <3>2. phone[p].queue \in Seq(S) /\ n \in S
      BY <3>1, SeqMonotonic, Zenon
    <3>3. Len(Append(phone[p].queue, n)) = Len(phone[p].queue) + 1
      BY <3>2, AppendProperties
    <3>4. phone'[q].queue = Append(phone[q].queue, n)
      BY <2>5 DEF Appended
    <3> QED
      BY <2>4, <2>5, <3>3, <3>4
  <2>8. Removed(p)
    BY <2>2, <2>6, <2>7
  <2> QED
    BY <2>5, <2>8 DEF Removed, MatchesInflight, Hears
<1> QED
  BY <1>1, PhoneAloneKeeps, PTL DEF AloneSpec, RemovedOnlyByMatchingAck

\* A phone that is authenticated and has text has an operation in flight
\* (drainDeliveryQueue, called wherever either may have changed).
THEOREM DrainNeverStalls == AloneSpec => []NeverIdleWithWork
<1>1. AllReady => NeverIdleWithWork
  BY DEF AllReady, Ready, NeverIdleWithWork
<1> QED
  BY PhoneAloneReady, <1>1, PTL

\* Every path that gives a connection up schedules the next dial
\* (tryNextCandidateOrSchedule, restartConnection, reconnectRunnable).
THEOREM DialIsPending == AloneSpec => []RedialPending
<1>1. AllReady => RedialPending
  BY DEF AllReady, Ready, RedialPending
<1> QED
  BY PhoneAloneReady, <1>1, PTL

-----------------------------------------------------------------------------
(* The host. *)

LEMMA HostAloneInit == ClientsInit => HostInv
<1> SUFFICES ASSUME ClientsInit PROVE HostInv
  OBVIOUS
<1>1. /\ toHost = [k \in Conns |-> <<>>] /\ toPhone = [k \in Conns |-> <<>>]
      /\ execQ = <<>> /\ doneQ = <<>> /\ desktop = <<>> /\ acked = {}
      /\ job = [k \in Conns |-> None] /\ active = None
  BY DEF ClientsInit, SessionInit
<1>2. WireTypeOK
  BY <1>1, EmptySeq, BudgetAssumption DEF ClientsInit, WireTypeOK, LinkState
<1>3. SessionTypeOK
  BY BoundsAssumption DEF ClientsInit, SessionInit, SessionTypeOK
<1>4. LedgerTypeOK
  <2>1. LedgerOf(diskLedger)
    <3>1. CASE diskLedger = EmptyLedger
      BY <3>1, EmptyLedgerSound
    <3>2. CASE \E key \in Key :
            diskLedger = [digest |-> [x \in {key} |-> Legacy], older |-> {}]
      BY <3>2 DEF LedgerOf, Keys
    <3> QED
      BY <3>1, <3>2 DEF ClientsInit, OldFiles
  <2> QED
    BY <2>1, NewestSound DEF ClientsInit, LedgerTypeOK
<1>5. HostTypeOK
  BY <1>1, EmptySeq, NoneAssumption DEF ClientsInit, HostTypeOK
<1>6. WorkerQueues /\ NumbersConsumed /\ QueuedInSeqOrder
  <2>1. DOMAIN execQ = {} /\ DOMAIN doneQ = {}
    BY <1>1
  <2> QED
    BY <1>1, <2>1 DEF WorkerQueues, NumbersConsumed, QueuedInSeqOrder, IsInjective
<1> QED
  BY <1>2, <1>3, <1>4, <1>5, <1>6 DEF HostInv, HostTypes

LEMMA MessagesInFormat ==
  ASSUME SessionTypeOK
  PROVE  Messages \subseteq HostMsg
<1> SUFFICES ASSUME NEW m \in Messages PROVE m \in HostMsg
  OBVIOUS
<1>1. 1..nextSession - 1 \subseteq SessionIds
  BY BoundsAssumption DEF SessionTypeOK, SessionIds
<1>2. CASE \/ \E c \in Clients : m = Hello(c)
           \/ m = Auth(DefaultMode)
           \/ \E s \in 1..nextSession - 1 : m = Ping(s)
  BY <1>1, <1>2, NoneAssumption DEF Hello, Auth, Ping, HostMsg
<1>3. CASE \E s \in 1..nextSession - 1, seq \in 0..MaxOps, i \in Inserts :
             m = TextInsert(s, seq, i[1], i[2], i[3])
  <2>1. PICK s \in 1..nextSession - 1, seq \in 0..MaxOps, i \in Inserts :
          m = TextInsert(s, seq, i[1], i[2], i[3])
    BY <1>3
  <2>2. /\ s \in SessionIds /\ seq \in 0..MaxOps + 1
        /\ i[1] \in OpId \cup {None} /\ i[2] \in Texts \cup {None}
        /\ i[3] \in Modes \cup {None}
    BY <1>1, InsertsAssumption, BoundsAssumption
  <2> QED
    BY <2>1, <2>2 DEF TextInsert, HostMsg
<1> QED
  BY <1>2, <1>3 DEF Messages

LEMMA SendInv ==
  ASSUME HostInv, NEW k \in Conns, Send(k)
  PROVE  HostInv'
<1>1. PICK m \in HostMsg : Transmit(k, m)
  BY MessagesInFormat DEF Send, HostInv, HostTypes
<1>2. toHost' \in [Conns -> Seq(HostMsg)]
  <2>1. Append(toHost[k], m) \in Seq(HostMsg)
    BY AppendProperties DEF HostInv, HostTypes, WireTypeOK
  <2> QED
    BY <1>1, <2>1 DEF Transmit, HostInv, HostTypes, WireTypeOK
<1>3. link' \in [Conns -> LinkState]
  BY <1>1 DEF Transmit, HostInv, HostTypes, WireTypeOK, LinkState
<1>4. toPhone' \in [Conns -> Seq(PhoneMsg)]
  BY EmptySeq DEF Send, HostInv, HostTypes, WireTypeOK
<1>5. WireTypeOK'
  BY <1>2, <1>3, <1>4 DEF Send, HostInv, HostTypes, WireTypeOK
<1>6. SessionTypeOK' /\ LedgerTypeOK' /\ NumbersConsumed'
  BY DEF Send, sessionVars, ledgerVars, hostVars, HostInv, HostTypes,
         SessionTypeOK, LedgerTypeOK, NumbersConsumed
<1> QED
  BY <1>5, <1>6, NoWork DEF Send, hostVars, HostInv, HostTypes, HostTypeOK

LEMMA HostAloneStep == HostInv /\ [ClientsNext]_clientsVars => HostInv'
<1> SUFFICES ASSUME HostInv, [ClientsNext]_clientsVars
             PROVE  HostInv'
  OBVIOUS
<1>1. ASSUME NEW k \in Conns, Send(k)
      PROVE  HostInv'
  BY <1>1, SendInv
<1>2. CASE HostNext
  BY <1>2, HostStepInv
<1>3. CASE UNCHANGED clientsVars
  <2>1. UNCHANGED <<link, toHost, toPhone, faults, active, nextSession, ledger,
                    diskLedger, unavailable, helloFrom, job, execQ, doneQ,
                    injectorMode, desktop, acked>>
    BY <1>3 DEF clientsVars, wireVars, sessionVars, ledgerVars, hostVars
  <2> QED
    BY <2>1, NoWork DEF HostInv, HostTypes, WireTypeOK, SessionTypeOK,
                        LedgerTypeOK, HostTypeOK, NumbersConsumed
<1> QED
  BY <1>1, <1>2, <1>3 DEF ClientsNext

LEMMA HostAloneKeeps == ClientsSpec => []HostInv
BY HostAloneInit, HostAloneStep, PTL DEF ClientsSpec

\* The host's state keeps its types: a handler resumed by the worker finds the
\* insert it was waiting with, and the ledger stays a map with an order on it.
THEOREM HostTypesHold == ClientsSpec => []ClientsTypeOK
<1>1. HostInv => ClientsTypeOK
  BY DEF HostInv, HostTypes, ClientsTypeOK
<1> QED
  BY HostAloneKeeps, <1>1, PTL

\* The worker types the inserts of one session in the order of their sequence
\* numbers, whichever connections they came through (handle_ws,
\* _on_text_insert and the single-threaded executor).
THEOREM WorkerKeepsSeqOrder == ClientsSpec => []QueuedInSeqOrder
<1>1. HostInv => QueuedInSeqOrder
  BY DEF HostInv
<1> QED
  BY HostAloneKeeps, <1>1, PTL

LEMMA HostAloneInitLedger == ClientsInit => LedgerInv
<1> SUFFICES ASSUME ClientsInit PROVE LedgerInv
  OBVIOUS
<1>1. Fits(diskLedger)
  <2>1. CASE diskLedger = EmptyLedger
    BY <2>1, EmptyFits
  <2>2. CASE \E key \in Key :
          diskLedger = [digest |-> [x \in {key} |-> Legacy], older |-> {}]
    <3>1. PICK key \in Key :
            diskLedger = [digest |-> [x \in {key} |-> Legacy], older |-> {}]
      BY <2>2
    <3>2. LedgerOf(diskLedger) /\ Keys(diskLedger) = {key} /\ diskLedger.older = {}
      BY <3>1 DEF LedgerOf, Keys
    <3>3. IsFiniteSet({key}) /\ Cardinality({key}) = 1
      BY FS_Singleton
    <3> QED
      BY <3>2, <3>3, LedgerAssumption DEF Fits, InOrder, Orders
  <2> QED
    BY <2>1, <2>2 DEF ClientsInit, OldFiles
<1>2. ledger = Newest(diskLedger)
  BY DEF ClientsInit
<1>3. Fits(ledger) /\ ledger.digest = diskLedger.digest
  BY <1>1, <1>2, NewestFits, NewestKeepsAll DEF Fits
<1> QED
  BY <1>1, <1>3, SameDigestSameKnown DEF LedgerInv

LEMMA HostAloneLedger == ClientsSpec => []LedgerInv
<1>1. HostInv /\ LedgerInv /\ [ClientsNext]_clientsVars => LedgerInv'
  <2>1. ASSUME LedgerInv, UNCHANGED ledgerVars
        PROVE  LedgerInv'
    BY <2>1 DEF ledgerVars, LedgerInv, SameKnown, Persisted, Only, Keys
  <2> QED
    BY <2>1, HostStepLedger DEF ClientsNext, Send, clientsVars
<1> QED
  BY HostAloneInitLedger, HostAloneKeeps, <1>1, PTL DEF ClientsSpec

\* While the ledger is usable its file knows what it knows, apart from entries
\* without a digest: what is answered "duplicate" or "conflict" now still is
\* after a restart (AppliedOpLedger.record, _persist and _load).
THEOREM FileKnowsTheLedger == ClientsSpec => []LedgerMatchesFile
<1>1. LedgerInv => LedgerMatchesFile
  BY DEF LedgerInv, LedgerMatchesFile, SameKnown
<1> QED
  BY HostAloneLedger, <1>1, PTL
=============================================================================
