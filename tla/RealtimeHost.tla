---------------------------- MODULE RealtimeHost ----------------------------
(***************************************************************************)
(* host/server.py: one handle_ws coroutine per connection, all on one      *)
(* event loop, and one worker thread that types on the desktop.            *)
(*                                                                         *)
(* A coroutine runs without interruption until it awaits, so every handler *)
(* is one action, except that of text_insert: it gives the text to the     *)
(* worker and awaits it, and in the meantime other connections are served. *)
(* It is split at that await into StartInsert, RunInjector (the worker)    *)
(* and FinishInsert / FailInsert.  A connection whose handler awaits reads *)
(* no further message.                                                     *)
(***************************************************************************)
EXTENDS Wire, SessionManager, AppliedOpLedger, Functions

VARIABLES
  helloFrom,     \* state["client_id"] of each connection once hello_ok is set
  job,           \* the insert each connection's handler awaits, or None
  execQ,         \* the work queue of the single-threaded executor
  doneQ,         \* awaited results the event loop has yet to hand back, in order
  injectorMode,  \* the injector's paste_mode
  desktop,       \* history: everything typed, in order
  acked          \* history: operations for which a successful ACK was emitted

hostVars == <<helloFrom, job, execQ, doneQ, injectorMode, desktop, acked>>

Job ==
  [stage : {"waiting", "injected", "failed"}, sid : SessionIds,
   client : Clients, seq : 0..MaxOps + 1, op : OpId \cup {None}, text : Texts,
   mode : Modes]

ASSUME NoneIsNoJob == None \notin Job \cup Session

\* mode is the injector's when the worker typed the text: that of a later
\* message, if one was queued meanwhile.
Typed == [client : Clients, op : OpId \cup {None}, text : Texts,
          mode : Modes]

HostTypeOK ==
  /\ helloFrom \in [Conns -> Clients \cup {None}]
  /\ job \in [Conns -> Job \cup {None}]
  /\ execQ \in Seq(Conns)
  /\ doneQ \in Seq(Conns)
  /\ injectorMode \in Modes
  /\ desktop \in Seq(Typed)
  /\ acked \subseteq OpId

HostInit ==
  /\ helloFrom = [k \in Conns |-> None]
  /\ job = [k \in Conns |-> None]
  /\ execQ = <<>>
  /\ doneQ = <<>>
  /\ injectorMode = DefaultMode
  /\ desktop = <<>>
  /\ acked = {}

Injected == {desktop[i].op : i \in DOMAIN desktop}

-----------------------------------------------------------------------------
\* The coroutine of k has read a message of this type.
Reads(k, type) ==
  /\ job[k] = None
  /\ toHost[k] # <<>>
  /\ Head(toHost[k]).type = type

Consumed(k) == toHost' = [toHost EXCEPT ![k] = Tail(@)]

\* _emit: the reply goes out unless the connection is gone.
Emit(k, m) == toPhone' = [toPhone EXCEPT ![k] = Carrying(k, m)]

OnHello(k) ==
  /\ Reads(k, "hello")
  /\ helloFrom' = [helloFrom EXCEPT ![k] = Head(toHost[k]).client]
  /\ Consumed(k) /\ Emit(k, HelloOk)
  /\ UNCHANGED <<sessionVars, ledgerVars, link, faults,
                 job, execQ, doneQ, injectorMode, desktop, acked>>

OnAuthRefused(k) ==
  /\ Reads(k, "auth")
  /\ helloFrom[k] = None
  /\ Consumed(k) /\ Emit(k, Error("hello_required"))
  /\ UNCHANGED <<sessionVars, ledgerVars, hostVars, link, faults>>

OnAuth(k) ==
  /\ Reads(k, "auth")
  /\ helloFrom[k] # None
  /\ LET mode == Head(toHost[k]).mode
     IN /\ Authenticate(helloFrom[k], mode)
        /\ Emit(k, AuthOk(nextSession, mode))
  /\ Consumed(k)
  /\ UNCHANGED <<ledgerVars, hostVars, link, faults>>

OnPing(k) ==
  /\ Reads(k, "ping")
  /\ LET s == Head(toHost[k]).sid
     IN \/ /\ Valid(s)
           /\ UpdateHeartbeat
           /\ Emit(k, Pong)
        \/ /\ ~Valid(s)
           /\ Emit(k, Error(Invalid(s)))
           /\ UNCHANGED sessionVars
  /\ Consumed(k)
  /\ UNCHANGED <<ledgerVars, hostVars, link, faults>>

-----------------------------------------------------------------------------
\* _on_text_insert: what its checks conclude about the message m, in the
\* order they are made.  "match" and "missing" are the two that go on.
KeyOf(m) == <<active.client, m.op>>
OpStatus(m) ==
  IF m.op = None THEN "missing" ELSE Status(KeyOf(m), m.text)

Verdict(m) ==
  CASE ~WellFormed(m) -> "malformed"
    [] WellFormed(m) /\ ~Valid(m.sid) -> Invalid(m.sid)
    [] WellFormed(m) /\ Valid(m.sid) ->
         IF OpStatus(m) \in {"match", "missing"} /\ ~IsNextSeq(m.seq)
         THEN "out_of_order" ELSE OpStatus(m)

\* The session of m was validated, so the ledger was asked.
Validated(m) == WellFormed(m) /\ Valid(m.sid)
LedgerSeen(m) ==
  IF Validated(m) /\ m.op # None THEN Touched(KeyOf(m)) ELSE ledger

\* The refusal names the operation only once the session has been validated.
RefuseInsert(k) ==
  /\ Reads(k, "text_insert")
  /\ LET m == Head(toHost[k])
     IN /\ Verdict(m) \notin {"match", "missing"}
        /\ ledger' = LedgerSeen(m)
        /\ Emit(k, Ack(m.seq, IF Validated(m) THEN m.op ELSE None, FALSE))
  /\ Consumed(k)
  /\ UNCHANGED <<sessionVars, diskLedger, unavailable, hostVars, link,
                 faults>>

\* The ledger knows the operation: acknowledged, and not typed again.
AckDuplicate(k) ==
  /\ Reads(k, "text_insert")
  /\ LET m == Head(toHost[k])
     IN /\ Verdict(m) = "match"
        /\ ledger' = LedgerSeen(m)
        /\ active' = Grown(Advanced(active, m.seq), m.text)
        /\ acked' = acked \cup {m.op}
        /\ Emit(k, Ack(m.seq, m.op, TRUE))
  /\ Consumed(k)
  /\ UNCHANGED <<nextSession, diskLedger, unavailable, link, faults,
                 helloFrom, job, execQ, doneQ, injectorMode, desktop>>

\* Faulty variant: the text goes to the front of the worker's queue.
StartInsertInFront(k) ==
  /\ Reads(k, "text_insert")
  /\ LET m == Head(toHost[k])
         mode == IF m.mode = None THEN active.mode ELSE m.mode
     IN /\ Verdict(m) = "missing"
        /\ active' = Advanced(active, m.seq)
        /\ injectorMode' = mode
        /\ job' = [job EXCEPT ![k] =
                     [stage |-> "waiting", sid |-> m.sid,
                      client |-> active.client, seq |-> m.seq, op |-> m.op,
                      text |-> m.text, mode |-> mode]]
        /\ execQ' = <<k>> \o execQ
  /\ Consumed(k)
  /\ UNCHANGED <<nextSession, ledgerVars, link, toPhone, faults,
                 helloFrom, doneQ, desktop, acked>>

\* The text goes to the worker and the handler awaits it.
StartInsert(k) ==
  /\ Reads(k, "text_insert")
  /\ LET m == Head(toHost[k])
         mode == IF m.mode = None THEN active.mode ELSE m.mode
     IN /\ Verdict(m) = "missing"
        /\ active' = Advanced(active, m.seq)
        /\ injectorMode' = mode
        /\ job' = [job EXCEPT ![k] =
                     [stage |-> "waiting", sid |-> m.sid,
                      client |-> active.client, seq |-> m.seq, op |-> m.op,
                      text |-> m.text, mode |-> mode]]
        /\ execQ' = Append(execQ, k)
  /\ Consumed(k)
  /\ UNCHANGED <<nextSession, ledgerVars, link, toPhone, faults,
                 helloFrom, doneQ, desktop, acked>>

\* The worker thread takes the oldest job.  The injector reads its paste mode
\* when it types, not when the job was queued.
RunInjector ==
  /\ execQ # <<>>
  /\ LET k == Head(execQ)
     IN \/ /\ desktop' = Append(desktop,
                 [client |-> job[k].client, op |-> job[k].op,
                  text |-> job[k].text, mode |-> injectorMode])
           /\ job' = [job EXCEPT ![k].stage = "injected"]
           /\ UNCHANGED faults
        \/ /\ Spend("inject")
           /\ job' = [job EXCEPT ![k].stage = "failed"]
           /\ UNCHANGED desktop
  /\ execQ' = Tail(execQ)
  /\ doneQ' = Append(doneQ, Head(execQ))
  /\ UNCHANGED <<sessionVars, ledgerVars, wireVars, helloFrom, injectorMode,
                 acked>>

\* The event loop resumes the handlers in the order their work was done.
Resumes(k, stage) ==
  /\ doneQ # <<>> /\ Head(doneQ) = k
  /\ job[k].stage = stage
  /\ doneQ' = Tail(doneQ)
  /\ job' = [job EXCEPT ![k] = None]

\* After a successful injection.  A ledger that cannot be written does not
\* turn the ACK into a failure.
FinishInsert(k) ==
  /\ Resumes(k, "injected")
  /\ LET j == job[k]
         key == <<j.client, j.op>>
     IN /\ active' = IF Valid(j.sid) THEN Grown(active, j.text) ELSE active
        /\ \/ j.op = None /\ UNCHANGED <<ledgerVars, faults>>
           \/ j.op # None /\ RecordSkipped /\ UNCHANGED faults
           \/ j.op # None /\ RecordOk(key, j.text) /\ UNCHANGED faults
           \/ j.op # None /\ RecordFails(key, j.text) /\ Spend("persist")
        /\ acked' = acked \cup ({j.op} \ {None})
        /\ Emit(k, Ack(j.seq, j.op, TRUE))
  /\ UNCHANGED <<nextSession, link, toHost, helloFrom, execQ, injectorMode,
                 desktop>>

\* After an injector error; the sequence number stays consumed and nothing is
\* recorded.
FailInsert(k) ==
  /\ Resumes(k, "failed")
  /\ Emit(k, Ack(job[k].seq, job[k].op, FALSE))
  /\ UNCHANGED <<sessionVars, ledgerVars, link, toHost, faults, helloFrom,
                 execQ, injectorMode, desktop, acked>>

-----------------------------------------------------------------------------
\* _heartbeat_guard finds the session timed out.
HeartbeatGuard ==
  /\ DropQuietSession
  /\ UNCHANGED <<ledgerVars, hostVars, wireVars, faults>>

\* Time passes without a message of the session.
QuietPeriod ==
  /\ Quieten
  /\ Spend("quiet")
  /\ UNCHANGED <<ledgerVars, hostVars, wireVars>>

\* The host process dies and is started again: only the ledger's file is left.
\* Sockets of the dead process are reset.
Restarted ==
  /\ active' = None
  /\ helloFrom' = [k \in Conns |-> None]
  /\ job' = [k \in Conns |-> None]
  /\ execQ' = <<>>
  /\ doneQ' = <<>>
  /\ injectorMode' = DefaultMode
  /\ toHost' = [k \in Conns |-> <<>>]
  /\ link' = [k \in Conns |->
               IF link[k] \in {"up", "dead"} THEN "down" ELSE link[k]]
  /\ UNCHANGED <<nextSession, toPhone, desktop, acked>>

RestartHost == Spend("crash") /\ Restarted /\ LoadOk

\* The ledger's file cannot be read or parsed.
RestartHostUnreadable == Spend("load") /\ Restarted /\ LoadFails

HostConnNext(k) ==
  \/ OnHello(k) \/ OnAuthRefused(k) \/ OnAuth(k) \/ OnPing(k)
  \/ RefuseInsert(k) \/ AckDuplicate(k) \/ StartInsert(k)
  \/ FinishInsert(k) \/ FailInsert(k)

HostNext ==
  \/ \E k \in Conns : HostConnNext(k)
  \/ RunInjector
  \/ HeartbeatGuard \/ QuietPeriod
  \/ RestartHost \/ RestartHostUnreadable

-----------------------------------------------------------------------------
\* k's handler hands an operation to the worker in this step.
StartsInsert(k) == job[k] = None /\ job'[k] # None

\* A chunk that has been acknowledged as delivered is never handed to the
\* worker again.
AckedNeverRestarted ==
  [][\A k \in Conns : StartsInsert(k) => job'[k].op \notin acked]_hostVars

\* The worker types the inserts of one session in the order of their sequence
\* numbers, whichever connections they came through.
QueuedInSeqOrder ==
  \A i, j \in DOMAIN execQ :
    i < j /\ job[execQ[i]].sid = job[execQ[j]].sid =>
      job[execQ[i]].seq < job[execQ[j]].seq

\* A handler that awaits the worker is in one of the two queues at most, and
\* once: the worker and the event loop each find it at the stage they expect.
WorkerQueues ==
  /\ \A i \in DOMAIN execQ :
       job[execQ[i]] # None /\ job[execQ[i]].stage = "waiting"
  /\ \A i \in DOMAIN doneQ :
       job[doneQ[i]] # None /\ job[doneQ[i]].stage # "waiting"
  /\ IsInjective(execQ) /\ IsInjective(doneQ)

\* Sessions are numbered in the order they were issued, and an awaited insert
\* has a number its session has consumed: with these, QueuedInSeqOrder is
\* inductive.
NumbersConsumed ==
  /\ active # None => active.sid < nextSession
  /\ \A k \in Conns : job[k] # None =>
       /\ job[k].sid < nextSession
       /\ active # None /\ active.sid = job[k].sid => job[k].seq <= active.lastSeq

\* What the ledger knows, in memory or on file, and what a handler is about to
\* acknowledge, has been typed: with these, AckImpliesInjected is inductive.
RecordedIsInjected ==
  /\ \A x \in Keys(ledger) \cup Keys(diskLedger) : x[2] \in Injected
  /\ \A k \in Conns :
       job[k] # None /\ job[k].stage = "injected" => job[k].op \in Injected

\* A successful ACK under way to a phone is never ahead of the desktop: the
\* host acknowledges what it has typed, or what the ledger says was typed.
AckImpliesInjected ==
  \A k \in Conns : \A i \in DOMAIN toPhone[k] :
    LET m == toPhone[k][i]
    IN m.type = "ack" /\ m.ok => m.op \in Injected

\* The ledger's order is a strict total order of its keys, and it never holds
\* more than max_entries, in memory or on file.
LedgerSound ==
  \A l \in {ledger, diskLedger} :
    /\ \A x, y \in Keys(l) :
         IF x = y THEN <<x, y>> \notin l.older
         ELSE <<x, y>> \in l.older <=> <<y, x>> \notin l.older
    /\ \A a, b \in l.older : a[2] = b[1] => <<a[1], b[2]>> \in l.older
    /\ Cardinality(Keys(l)) <= MaxEntries

\* While the ledger is usable, the file knows what the memory knows, apart
\* from entries without a digest: nothing that answers "duplicate" or
\* "conflict" now would be forgotten by a restart.
LedgerMatchesFile ==
  ~unavailable =>
    LET Known(l) == Persisted(l).digest
    IN Known(ledger) = Known(diskLedger)
=============================================================================
