---------------------------- MODULE TextReplace ----------------------------
(***************************************************************************)
(* host/server.py: the legacy text_replace path.  A client sends its whole *)
(* document; the host keeps only the latest one, waits until the client    *)
(* has been quiet for a while, and then types what the document appends to *)
(* what this session has already been shown.  The requests that a later    *)
(* one overtook are answered together with it.                             *)
(*                                                                         *)
(* Three tasks of the event loop share pending_replace: the handlers of    *)
(* the connections, the quiet-window timer and the apply task.  What they  *)
(* do under replace_lock contains no await, so each holds it within one    *)
(* action.  The apply task and a text_insert handler each await the one    *)
(* worker thread.                                                          *)
(*                                                                         *)
(* A document is a sequence of pieces, each typed by its client once.  The *)
(* clients are those of the legacy protocol, without operation identifiers *)
(* and so without the ledger; each uses one connection.  A connection that *)
(* closes changes nothing here but who hears the answers.  Malformed       *)
(* requests are refused like those of a session that is gone.              *)
(***************************************************************************)
EXTENDS SessionManager, SequencesExt

VARIABLES
  editor,        \* each client: its session, the numbers it used, its document
  inserting,     \* the text_insert each connection's handler awaits, or None
  pending,       \* _pending_replace
  timer,         \* the seq given to the timer that is running, or None
  applying,      \* the request of the apply task, or None
  worker,        \* the executor's queue; None stands for the apply task
  done,          \* awaited results yet to be handed back, in order
  injectorMode,  \* the injector's paste_mode
  typed,         \* history: <<session, piece, waiter>>, in the order typed
  accepted,      \* history: <<session, seq>> of the replaces accepted, in order
  answers        \* history: the answers to them, in order

replaceVars == <<pending, timer, applying>>
workVars    == <<worker, done, injectorMode, typed>>
vars == <<sessionVars, editor, inserting, replaceVars, workVars, accepted,
          answers>>

Doc    == Seq(Texts)
Seqs   == 1..MaxOps
Waiter == Clients \cup {None}

Editor  == [sid : SessionIds \cup {NoSid}, seq : 0..MaxOps, doc : Doc,
            pieces : 0..MaxOps]
Asked   == [sid : SessionIds, seq : Seqs, text : Doc]
Pending == [req : Asked, coalesced : Seq(Asked), quiet : BOOLEAN]
Apply   == [req : Asked, coalesced : Seq(Asked), suffix : Doc,
            stage : {"created", "typing", "typed", "failed"}]
Insert  == [sid : SessionIds, text : Texts,
            stage : {"typing", "typed", "failed"}]

ASSUME NothingAssumption == None \notin Pending \cup Apply \cup Insert

ReplaceInit ==
  /\ SessionInit
  /\ editor = [c \in Clients |->
                [sid |-> NoSid, seq |-> 0, doc |-> <<>>, pieces |-> 0]]
  /\ inserting = [c \in Clients |-> None]
  /\ pending = None /\ timer = None /\ applying = None
  /\ worker = <<>> /\ done = <<>>
  /\ injectorMode = DefaultMode
  /\ typed = <<>> /\ accepted = <<>> /\ answers = <<>>

-----------------------------------------------------------------------------
(* The clients.  A handler that awaits the worker reads no further message, *)
(* so a client's message is read when it is sent.                           *)
Ready(c) == editor[c].sid # NoSid /\ inserting[c] = None

\* Bound: a session uses MaxOps sequence numbers.
NextSeq(c) == editor[c].seq + 1
CanSend(c) == Ready(c) /\ NextSeq(c) \in Seqs

\* A document grows by its client's next piece, stays, or loses its end.
Longer(c) ==
  {Append(editor[c].doc, <<c, n>>) : n \in {editor[c].pieces + 1} \cap Seqs}
Shorter(c) ==
  {SubSeq(editor[c].doc, 1, n) : n \in {Len(editor[c].doc) - 1} \cap Nat}

Sent(c, doc) ==
  editor' = [editor EXCEPT ![c] =
              [sid |-> @.sid, seq |-> @.seq + 1, doc |-> doc,
               pieces |-> IF doc \in Longer(c) THEN @.pieces + 1 ELSE @.pieces]]

\* _on_auth; the client's document starts over.
OnAuth(c) ==
  /\ inserting[c] = None
  /\ \E mode \in Modes : Authenticate(c, mode)
  /\ editor' = [editor EXCEPT ![c] =
                 [@ EXCEPT !.sid = nextSession, !.seq = 0, !.doc = <<>>]]
  /\ UNCHANGED <<inserting, replaceVars, workVars, accepted, answers>>

-----------------------------------------------------------------------------
\* Faulty variants: a newer request forgets the ones it overtakes, or keeps
\* the pending one with everything that hangs on it.
OvertakenForgotten == <<>>
OvertakenWhole ==
  IF pending = None THEN <<>> ELSE Append(pending.coalesced, pending)

\* The requests that the next one overtakes, oldest first.
Overtaken ==
  IF pending = None THEN <<>> ELSE Append(pending.coalesced, pending.req)

\* _on_text_replace: the request takes the place of the pending one and the
\* quiet window starts again.
OnTextReplace(c) ==
  /\ CanSend(c)
  /\ Valid(editor[c].sid) /\ IsNextSeq(NextSeq(c))
  /\ \E doc \in Longer(c) \cup {editor[c].doc} \cup Shorter(c) :
       /\ pending' =
            [req |-> [sid |-> active.sid, seq |-> NextSeq(c), text |-> doc],
             coalesced |-> Overtaken, quiet |-> FALSE]
       /\ Sent(c, doc)
  /\ timer' = NextSeq(c)
  /\ active' = Advanced(active, NextSeq(c))
  /\ accepted' = Append(accepted, <<active.sid, NextSeq(c)>>)
  /\ UNCHANGED <<nextSession, inserting, applying, workVars, answers>>

\* A refused message leaves the host as it was; the client drops its session.
Refuse(c) ==
  /\ CanSend(c)
  /\ ~(Valid(editor[c].sid) /\ IsNextSeq(NextSeq(c)))
  /\ editor' = [editor EXCEPT ![c].sid = NoSid]
  /\ UNCHANGED <<sessionVars, inserting, replaceVars, workVars, accepted,
                 answers>>

\* _on_text_insert, up to its await.
OnTextInsert(c) ==
  /\ CanSend(c)
  /\ Valid(editor[c].sid) /\ IsNextSeq(NextSeq(c))
  /\ \E doc \in Longer(c) :
       /\ inserting' = [inserting EXCEPT ![c] =
                         [sid |-> active.sid, text |-> Last(doc),
                          stage |-> "typing"]]
       /\ Sent(c, doc)
  /\ active' = Advanced(active, NextSeq(c))
  /\ injectorMode' = active.mode
  /\ worker' = Append(worker, c)
  /\ UNCHANGED <<nextSession, replaceVars, done, typed, accepted, answers>>

-----------------------------------------------------------------------------
\* quiet_until of the pending request passes.
QuietWindowEnds ==
  /\ pending # None /\ ~pending.quiet
  /\ pending' = [pending EXCEPT !.quiet = TRUE]
  /\ UNCHANGED <<sessionVars, editor, inserting, timer, applying, workVars,
                 accepted, answers>>

\* _try_start_replace_apply.  A timer that wakes before the window has ended
\* starts itself again, which is no step; one that finds the apply task at
\* work leaves the request to it.
TimerFires ==
  /\ timer # None
  /\ timer' = None
  /\ \/ /\ applying # None \/ pending = None \/ pending.req.seq # timer
        /\ UNCHANGED <<pending, applying>>
     \/ /\ applying = None /\ pending # None /\ pending.req.seq = timer
        /\ pending.quiet
        /\ applying' = [req |-> pending.req, coalesced |-> pending.coalesced,
                        suffix |-> <<>>, stage |-> "created"]
        /\ pending' = None
  /\ UNCHANGED <<sessionVars, editor, inserting, workVars, accepted, answers>>

\* _record_and_emit_ack for the requests that were overtaken, oldest first, and
\* then for the one applied: all have the same outcome.
Outcomes(ok) ==
  LET old == applying.coalesced
  IN [i \in DOMAIN old |-> [req |-> old[i], ok |-> ok, coalesced |-> TRUE]]
       \o <<[req |-> applying.req, ok |-> ok, coalesced |-> FALSE]>>

\* Faulty variant: a request that arrived meanwhile is left without a timer.
ConcludesWithoutTimer(ok) ==
  /\ answers' = answers \o Outcomes(ok)
  /\ applying' = None
  /\ UNCHANGED <<timer, pending, accepted>>

\* The end of _apply_replace_request: everyone is answered, and a request that
\* arrived meanwhile gets its timer.
Concludes(ok) ==
  /\ answers' = answers \o Outcomes(ok)
  /\ applying' = None
  /\ timer' = IF pending = None THEN timer ELSE pending.req.seq
  /\ UNCHANGED <<pending, accepted>>

\* The text appends to what the session has been shown.
Appends == Valid(applying.req.sid) /\ IsPrefix(active.snapshot, applying.req.text)
Suffix ==
  SubSeq(applying.req.text, Len(active.snapshot) + 1, Len(applying.req.text))

Created == applying # None /\ applying.stage = "created"

\* The session is gone, or the document was edited where it is already shown.
RefuseApply ==
  /\ Created /\ ~Appends
  /\ Concludes(FALSE)
  /\ UNCHANGED <<sessionVars, editor, inserting, workVars>>

ApplyNothing ==
  /\ Created /\ Appends /\ Suffix = <<>>
  /\ Concludes(TRUE)
  /\ UNCHANGED <<sessionVars, editor, inserting, workVars>>

ApplySuffix ==
  /\ Created /\ Appends /\ Suffix # <<>>
  /\ applying' = [applying EXCEPT !.stage = "typing", !.suffix = Suffix]
  /\ injectorMode' = active.mode
  /\ worker' = Append(worker, None)
  /\ UNCHANGED <<sessionVars, editor, inserting, pending, timer, done, typed,
                 accepted, answers>>

\* The worker thread takes the oldest job; a failed one has typed nothing.
RunWorker ==
  /\ worker # <<>>
  /\ \E stage \in {"typed", "failed"} :
       LET w == Head(worker)
           job == IF w = None
                  THEN [sid |-> applying.req.sid, text |-> applying.suffix]
                  ELSE [sid |-> inserting[w].sid, text |-> <<inserting[w].text>>]
       IN /\ IF w = None
             THEN /\ applying' = [applying EXCEPT !.stage = stage]
                  /\ UNCHANGED inserting
             ELSE /\ inserting' = [inserting EXCEPT ![w].stage = stage]
                  /\ UNCHANGED applying
          /\ typed' = IF stage = "failed" THEN typed
                      ELSE typed \o [i \in DOMAIN job.text |->
                                      <<job.sid, job.text[i], w>>]
          /\ done' = Append(done, w)
  /\ worker' = Tail(worker)
  /\ UNCHANGED <<sessionVars, editor, pending, timer, injectorMode, accepted,
                 answers>>

Resumes(w) == done # <<>> /\ Head(done) = w /\ done' = Tail(done)

\* The rest of _on_text_insert, with its session object as it is now.
EndInsert(c) ==
  /\ Resumes(c)
  /\ active' = IF inserting[c].stage = "typed" /\ Valid(inserting[c].sid)
               THEN Grown(active, inserting[c].text) ELSE active
  /\ inserting' = [inserting EXCEPT ![c] = None]
  /\ UNCHANGED <<nextSession, editor, replaceVars, worker, injectorMode,
                 typed, accepted, answers>>

\* Faulty variants: the snapshot is set after a failure too, or never.
EndApplyAnyway ==
  /\ Resumes(None)
  /\ active' = IF Valid(applying.req.sid)
               THEN [active EXCEPT !.snapshot = applying.req.text] ELSE active
  /\ Concludes(applying.stage = "typed")
  /\ UNCHANGED <<nextSession, editor, inserting, worker, injectorMode, typed>>

EndApplyForgetful ==
  /\ Resumes(None)
  /\ Concludes(applying.stage = "typed")
  /\ UNCHANGED <<sessionVars, editor, inserting, worker, injectorMode, typed>>

\* The snapshot is set to the text of the request, whatever it became while
\* the worker was typing.
EndApply ==
  /\ Resumes(None)
  /\ active' = IF applying.stage = "typed" /\ Valid(applying.req.sid)
               THEN [active EXCEPT !.snapshot = applying.req.text] ELSE active
  /\ Concludes(applying.stage = "typed")
  /\ UNCHANGED <<nextSession, editor, inserting, worker, injectorMode, typed>>

\* The client sends nothing for a while, and _heartbeat_guard drops its
\* session.
SessionTimesOut ==
  /\ Quieten \/ DropQuietSession
  /\ UNCHANGED <<editor, inserting, replaceVars, workVars, accepted, answers>>

HostWorks ==
  \/ QuietWindowEnds \/ TimerFires
  \/ RefuseApply \/ ApplyNothing \/ ApplySuffix \/ EndApply
  \/ RunWorker
  \/ \E c \in Clients : EndInsert(c)

Next ==
  \/ \E c \in Clients :
       OnAuth(c) \/ OnTextReplace(c) \/ OnTextInsert(c) \/ Refuse(c)
  \/ HostWorks
  \/ SessionTimesOut

Spec == ReplaceInit /\ [][Next]_vars

\* The event loop, its timers and the worker thread keep working.
FairSpec == Spec /\ WF_vars(HostWorks)

-----------------------------------------------------------------------------
TypeOK ==
  /\ SessionTypeOK
  /\ editor \in [Clients -> Editor]
  /\ inserting \in [Clients -> Insert \cup {None}]
  /\ pending \in Pending \cup {None}
  /\ timer \in Seqs \cup {None}
  /\ applying \in Apply \cup {None}
  /\ worker \in Seq(Waiter) /\ done \in Seq(Waiter)
  /\ injectorMode \in Modes
  /\ typed \in Seq(SessionIds \X Texts \X Waiter)
  /\ accepted \in Seq(SessionIds \X Seqs)
  /\ answers \in Seq([req : Asked, ok : BOOLEAN, coalesced : BOOLEAN])

\* The requests of x, a Pending or an Apply, oldest first.
Requests(x) == IF x = None THEN <<>> ELSE Append(x.coalesced, x.req)
Names(rs) == [i \in DOMAIN rs |-> <<rs[i].sid, rs[i].seq>>]

\* Every accepted replace is answered once, and in the order of acceptance:
\* what has been answered, then what the apply task will answer, then what is
\* pending, is exactly what was accepted.
AnsweredOnceInOrder ==
  accepted = Names([i \in DOMAIN answers |-> answers[i].req])
               \o Names(Requests(applying)) \o Names(Requests(pending))

TypedIn(sid) == {typed[i][2] : i \in {j \in DOMAIN typed : typed[j][1] = sid}}

\* The host never believes to have shown what it has not typed, nor says so
\* to the client whose request it applied.
ShownIsTyped ==
  /\ active # None => Range(active.snapshot) \subseteq TypedIn(active.sid)
  /\ \A i \in DOMAIN answers :
       answers[i].ok /\ ~answers[i].coalesced =>
         Range(answers[i].req.text) \subseteq TypedIn(answers[i].req.sid)

\* Every accepted replace is answered in the end: the client's pause that
\* ends the burst starts the apply task, whichever task was running then.
EveryReplaceAnswered ==
  \A n \in 1..MaxSession * MaxOps :
    Len(accepted) >= n ~> Len(answers) >= n

\* What a snapshot has typed is never typed again by a later one of the same
\* session, across failed injections, edits and inserts: the snapshot it is
\* compared with still has it.  (What an insert has typed may be: its part of
\* applied_snapshot is overwritten by EndApply.)
ReplaceNeverRetypes ==
  \A i, j \in DOMAIN typed :
    typed[i] = typed[j] /\ typed[i][3] = None => i = j
=============================================================================
