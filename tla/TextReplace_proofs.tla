-------------------------- MODULE TextReplace_proofs --------------------------
(***************************************************************************)
(* Every accepted text_replace is answered once and in order, the host     *)
(* knows what it has typed, and no snapshot is typed twice: for any number *)
(* of clients, sessions, requests and failed injections.                   *)
(***************************************************************************)
EXTENDS TextReplace, SequenceTheorems, TLAPS

-----------------------------------------------------------------------------
(* Sequences.                                                              *)

LEMMA Appending ==
  ASSUME NEW S, NEW q \in Seq(S), NEW x \in S
  PROVE  LET a == Append(q, x)
         IN /\ a \in Seq(S) /\ Len(q) + 1 \in DOMAIN a /\ a[Len(q) + 1] = x
            /\ Len(q) + 1 \notin DOMAIN q
            /\ \A i \in DOMAIN q : i \in DOMAIN a /\ a[i] = q[i]
            /\ \A i \in DOMAIN a :
                 \/ i \in DOMAIN q /\ a[i] = q[i]
                 \/ i = Len(q) + 1 /\ a[i] = x
<1> DEFINE a == Append(q, x)
<1>1. /\ a \in Seq(S) /\ DOMAIN a = 1..Len(q) + 1
      /\ \A i \in 1..Len(q) : a[i] = q[i]
      /\ a[Len(q) + 1] = x
      /\ DOMAIN q = 1..Len(q) /\ Len(q) \in Nat
  BY AppendProperties, LenProperties
<1> HIDE DEF a
<1>2. \A i \in DOMAIN a : i \in DOMAIN q \/ i = Len(q) + 1
  BY <1>1
<1>3. /\ a \in Seq(S) /\ Len(q) + 1 \in DOMAIN a /\ a[Len(q) + 1] = x
      /\ Len(q) + 1 \notin DOMAIN q
      /\ \A i \in DOMAIN q : i \in DOMAIN a /\ a[i] = q[i]
  BY <1>1
<1>4. \A i \in DOMAIN a :
        \/ i \in DOMAIN q /\ a[i] = q[i]
        \/ i = Len(q) + 1 /\ a[i] = x
  BY <1>2, <1>3
<1> QED
  BY <1>3, <1>4, Zenon DEF a

LEMMA Joining ==
  ASSUME NEW S, NEW s \in Seq(S), NEW t \in Seq(S)
  PROVE  LET a == s \o t
         IN /\ a \in Seq(S)
            /\ \A i \in DOMAIN s : i \in DOMAIN a /\ a[i] = s[i]
            /\ \A j \in DOMAIN t :
                 /\ Len(s) + j \in DOMAIN a /\ a[Len(s) + j] = t[j]
                 /\ Len(s) + j \notin DOMAIN s
            /\ \A i \in DOMAIN a :
                 \/ i \in DOMAIN s /\ a[i] = s[i]
                 \/ \E j \in DOMAIN t : i = Len(s) + j /\ a[i] = t[j]
<1> DEFINE a == s \o t
<1>1. /\ a \in Seq(S) /\ DOMAIN a = 1..Len(s) + Len(t)
      /\ \A i \in 1..Len(s) + Len(t) :
           a[i] = IF i <= Len(s) THEN s[i] ELSE t[i - Len(s)]
      /\ DOMAIN s = 1..Len(s) /\ Len(s) \in Nat
      /\ DOMAIN t = 1..Len(t) /\ Len(t) \in Nat
  <2>1. a \in Seq(S) /\ Len(a) = Len(s) + Len(t)
    BY ConcatProperties
  <2>2. \A i \in 1..Len(s) + Len(t) :
          a[i] = IF i <= Len(s) THEN s[i] ELSE t[i - Len(s)]
    BY ConcatProperties
  <2> HIDE DEF a
  <2>3. DOMAIN a = 1..Len(s) + Len(t)
    BY <2>1, LenProperties
  <2> QED
    BY <2>1, <2>2, <2>3, LenProperties
<1> HIDE DEF a
<1>2. \A i \in DOMAIN s : i \in DOMAIN a /\ a[i] = s[i]
  BY <1>1
<1>3. \A j \in DOMAIN t :
        /\ Len(s) + j \in DOMAIN a /\ a[Len(s) + j] = t[j]
        /\ Len(s) + j \notin DOMAIN s
  <2> SUFFICES ASSUME NEW j \in DOMAIN t
               PROVE  /\ Len(s) + j \in DOMAIN a /\ a[Len(s) + j] = t[j]
                      /\ Len(s) + j \notin DOMAIN s
    OBVIOUS
  <2>1. /\ Len(s) + j \in 1..Len(s) + Len(t) /\ ~(Len(s) + j <= Len(s))
        /\ (Len(s) + j) - Len(s) = j
    BY <1>1
  <2>2. a[Len(s) + j] = t[(Len(s) + j) - Len(s)]
    BY <1>1, <2>1
  <2> QED
    BY <1>1, <2>1, <2>2
<1>4. \A i \in DOMAIN a : i \in DOMAIN s \/ \E j \in DOMAIN t : i = Len(s) + j
  <2> SUFFICES ASSUME NEW i \in DOMAIN a, i \notin DOMAIN s
               PROVE  \E j \in DOMAIN t : i = Len(s) + j
    OBVIOUS
  <2>1. i - Len(s) \in DOMAIN t /\ i = Len(s) + (i - Len(s))
    BY <1>1
  <2> QED
    BY <2>1
<1>5. \A i \in DOMAIN a :
        \/ i \in DOMAIN s /\ a[i] = s[i]
        \/ \E j \in DOMAIN t : i = Len(s) + j /\ a[i] = t[j]
  BY <1>2, <1>3, <1>4
<1> QED
  BY <1>1, <1>2, <1>3, <1>5, Zenon DEF a

Distinct(s) == \A i, j \in DOMAIN s : s[i] = s[j] => i = j

LEMMA AppendDistinct ==
  ASSUME NEW S, NEW q \in Seq(S), NEW x \in S, Distinct(q),
         \A i \in DOMAIN q : q[i] # x
  PROVE  Distinct(Append(q, x))
BY Appending DEF Distinct

LEMMA TailOf ==
  ASSUME NEW S, NEW q \in Seq(S), q # <<>>
  PROVE  /\ Head(q) \in S /\ Tail(q) \in Seq(S)
         /\ 1 \in DOMAIN q /\ Head(q) = q[1]
         /\ \A i \in DOMAIN Tail(q) :
              i \in Nat /\ i + 1 # 1 /\ i + 1 \in DOMAIN q /\ Tail(q)[i] = q[i + 1]
<1>1. /\ Tail(q) \in Seq(S) /\ Head(q) \in S
      /\ Len(Tail(q)) = Len(q) - 1
      /\ \A i \in 1..Len(Tail(q)) : Tail(q)[i] = q[i + 1]
      /\ Head(q) = q[1]
  BY HeadTailProperties
<1>2. DOMAIN q = 1..Len(q) /\ Len(q) \in Nat /\ Len(q) >= 1
  BY LenProperties, EmptySeq
<1>3. DOMAIN Tail(q) = 1..Len(q) - 1
  BY <1>1, LenProperties
<1> QED
  BY <1>1, <1>2, <1>3

LEMMA TailDistinct ==
  ASSUME NEW S, NEW q \in Seq(S), q # <<>>, Distinct(q)
  PROVE  /\ Distinct(Tail(q))
         /\ \A i \in DOMAIN Tail(q) : Tail(q)[i] # Head(q)
<1>1. /\ 1 \in DOMAIN q /\ Head(q) = q[1]
      /\ \A i \in DOMAIN Tail(q) :
           i \in Nat /\ i + 1 # 1 /\ i + 1 \in DOMAIN q /\ Tail(q)[i] = q[i + 1]
  BY TailOf
<1>2. \A i, j \in DOMAIN Tail(q) : Tail(q)[i] = Tail(q)[j] => i = j
  <2> SUFFICES ASSUME NEW i \in DOMAIN Tail(q), NEW j \in DOMAIN Tail(q),
                      Tail(q)[i] = Tail(q)[j]
               PROVE  i = j
    OBVIOUS
  <2>1. i + 1 = j + 1
    BY <1>1 DEF Distinct
  <2> QED
    BY <1>1, <2>1
<1> QED
  BY <1>1, <1>2 DEF Distinct

-----------------------------------------------------------------------------
(* The worker's queues.                                                    *)

\* Where the awaited work of w, a client's handler or the apply task, is.
Stage ==
  [w \in Waiter |->
    IF w = None THEN (IF applying = None THEN "none" ELSE applying.stage)
                ELSE (IF inserting[w] = None THEN "none" ELSE inserting[w].stage)]

\* Nobody waits twice, and who waits knows for what.
WorkInv ==
  /\ Distinct(worker) /\ Distinct(done)
  /\ \A i \in DOMAIN worker : Stage[worker[i]] = "typing"
  /\ \A i \in DOMAIN done : Stage[done[i]] \in {"typed", "failed"}

Busy == {"typing", "typed", "failed"}

LEMMA WaiterTypes ==
  ASSUME TypeOK
  PROVE  /\ worker \in Seq(Waiter) /\ done \in Seq(Waiter)
         /\ \A i \in DOMAIN worker : worker[i] \in Waiter
         /\ \A i \in DOMAIN done : done[i] \in Waiter
BY ElementOfSeq, LenProperties DEF TypeOK

LEMMA WorkStarts ==
  ASSUME TypeOK, WorkInv, NEW w \in Waiter, Stage[w] \notin Busy,
         worker' = Append(worker, w), done' = done, Stage'[w] = "typing",
         \A v \in Waiter \ {w} : Stage'[v] = Stage[v]
  PROVE  WorkInv' /\ worker' \in Seq(Waiter) /\ done' \in Seq(Waiter)
<1>1. /\ \A i \in DOMAIN worker : worker[i] # w
      /\ \A i \in DOMAIN done : done[i] # w
  BY DEF WorkInv, Busy
<1>2. /\ worker' \in Seq(Waiter)
      /\ \A i \in DOMAIN worker' :
           (i \in DOMAIN worker /\ worker'[i] = worker[i]) \/ worker'[i] = w
  BY WaiterTypes, Appending
<1>3. Distinct(worker')
  BY <1>1, WaiterTypes, AppendDistinct DEF WorkInv
<1>4. \A i \in DOMAIN worker' : Stage'[worker'[i]] = "typing"
  <2> SUFFICES ASSUME NEW i \in DOMAIN worker' PROVE Stage'[worker'[i]] = "typing"
    OBVIOUS
  <2>1. CASE worker'[i] = w
    BY <2>1
  <2>2. CASE i \in DOMAIN worker /\ worker'[i] = worker[i]
    <3>1. PICK v \in Waiter \ {w} : v = worker[i] /\ v = worker'[i]
      BY <1>1, <2>2, WaiterTypes
    <3>2. Stage[v] = "typing"
      BY <2>2, <3>1 DEF WorkInv
    <3>3. Stage'[v] = "typing"
      BY <3>2
    <3> QED
      BY <3>1, <3>3
  <2> QED
    BY <1>2, <2>1, <2>2
<1>5. \A i \in DOMAIN done' : Stage'[done'[i]] \in {"typed", "failed"}
  <2> SUFFICES ASSUME NEW i \in DOMAIN done
               PROVE  Stage'[done[i]] \in {"typed", "failed"}
    OBVIOUS
  <2>1. PICK v \in Waiter \ {w} : v = done[i]
    BY <1>1, WaiterTypes
  <2> QED
    BY <2>1 DEF WorkInv
<1> QED
  BY <1>2, <1>3, <1>4, <1>5, WaiterTypes DEF WorkInv

LEMMA WorkRuns ==
  ASSUME TypeOK, WorkInv, worker # <<>>, worker' = Tail(worker),
         done' = Append(done, Head(worker)),
         Stage'[Head(worker)] \in {"typed", "failed"},
         \A v \in Waiter \ {Head(worker)} : Stage'[v] = Stage[v]
  PROVE  WorkInv' /\ worker' \in Seq(Waiter) /\ done' \in Seq(Waiter)
<1> DEFINE w == Head(worker)
<1>1. /\ w \in Waiter /\ worker' \in Seq(Waiter) /\ Stage[w] = "typing"
      /\ \A i \in DOMAIN worker' : i + 1 \in DOMAIN worker /\ worker'[i] = worker[i + 1]
  BY WaiterTypes, TailOf DEF WorkInv
<1>2. Distinct(worker') /\ \A i \in DOMAIN worker' : worker'[i] # w
  BY WaiterTypes, TailDistinct DEF WorkInv
<1> HIDE DEF w
<1>3. \A i \in DOMAIN done : done[i] # w
  BY <1>1 DEF WorkInv
<1>4. done' = Append(done, w) /\ Stage'[w] \in {"typed", "failed"}
  BY DEF w
<1>5. /\ done' \in Seq(Waiter) /\ Distinct(done')
      /\ \A i \in DOMAIN done' :
           (i \in DOMAIN done /\ done'[i] = done[i]) \/ done'[i] = w
  BY <1>1, <1>3, <1>4, WaiterTypes, Appending, AppendDistinct DEF WorkInv
<1>6. \A v \in Waiter \ {w} : Stage'[v] = Stage[v]
  BY DEF w
<1>7. \A i \in DOMAIN worker' : Stage'[worker'[i]] = "typing"
  <2> SUFFICES ASSUME NEW i \in DOMAIN worker' PROVE Stage'[worker'[i]] = "typing"
    OBVIOUS
  <2>1. i + 1 \in DOMAIN worker /\ worker'[i] = worker[i + 1]
    BY <1>1
  <2>2. worker'[i] \in Waiter \ {w} /\ Stage[worker'[i]] = "typing"
    BY <1>2, <2>1, WaiterTypes DEF WorkInv
  <2> QED
    BY <1>6, <2>2
<1>8. \A i \in DOMAIN done' : Stage'[done'[i]] \in {"typed", "failed"}
  <2> SUFFICES ASSUME NEW i \in DOMAIN done'
               PROVE  Stage'[done'[i]] \in {"typed", "failed"}
    OBVIOUS
  <2>1. CASE done'[i] = w
    BY <1>4, <2>1
  <2>2. CASE i \in DOMAIN done /\ done'[i] = done[i]
    BY <1>3, <1>6, <2>2, WaiterTypes DEF WorkInv
  <2> QED
    BY <1>5, <2>1, <2>2
<1> QED
  BY <1>1, <1>2, <1>5, <1>7, <1>8 DEF WorkInv

LEMMA WorkEnds ==
  ASSUME TypeOK, WorkInv, done # <<>>, done' = Tail(done), worker' = worker,
         \A v \in Waiter \ {Head(done)} : Stage'[v] = Stage[v]
  PROVE  WorkInv' /\ worker' \in Seq(Waiter) /\ done' \in Seq(Waiter)
<1> DEFINE w == Head(done)
<1>1. /\ w \in Waiter /\ done' \in Seq(Waiter) /\ Stage[w] \in {"typed", "failed"}
      /\ \A i \in DOMAIN done' : i + 1 \in DOMAIN done /\ done'[i] = done[i + 1]
  BY WaiterTypes, TailOf DEF WorkInv
<1>2. Distinct(done') /\ \A i \in DOMAIN done' : done'[i] # w
  BY WaiterTypes, TailDistinct DEF WorkInv
<1>3. \A v \in Waiter \ {w} : Stage'[v] = Stage[v]
  OBVIOUS
<1> HIDE DEF w
<1>4. \A i \in DOMAIN done' : Stage'[done'[i]] \in {"typed", "failed"}
  <2> SUFFICES ASSUME NEW i \in DOMAIN done'
               PROVE  Stage'[done'[i]] \in {"typed", "failed"}
    OBVIOUS
  <2>1. i + 1 \in DOMAIN done /\ done'[i] = done[i + 1]
    BY <1>1
  <2>2. done'[i] \in Waiter \ {w} /\ Stage[done'[i]] \in {"typed", "failed"}
    BY <1>2, <2>1, WaiterTypes DEF WorkInv
  <2> QED
    BY <1>3, <2>2
<1>5. \A i \in DOMAIN worker' : Stage'[worker'[i]] = "typing"
  <2>1. \A i \in DOMAIN worker : worker[i] \in Waiter \ {w}
    BY <1>1, WaiterTypes DEF WorkInv
  <2> QED
    BY <1>3, <2>1 DEF WorkInv
<1> QED
  BY <1>1, <1>2, <1>4, <1>5, WaiterTypes DEF WorkInv

LEMMA WorkStays ==
  ASSUME TypeOK, WorkInv, UNCHANGED <<worker, done>>,
         \A v \in Waiter : Stage'[v] = Stage[v] \/ Stage[v] \notin Busy
  PROVE  WorkInv' /\ worker' \in Seq(Waiter) /\ done' \in Seq(Waiter)
BY WaiterTypes DEF WorkInv, Busy

-----------------------------------------------------------------------------
(* The types.                                                              *)

TypesInv == TypeOK /\ WorkInv

LEMMA InitTypes == ReplaceInit => TypesInv
<1> SUFFICES ASSUME ReplaceInit PROVE TypesInv
  OBVIOUS
<1>1. \A S : <<>> \in Seq(S) /\ DOMAIN <<>> = {}
  BY EmptySeq
<1>2. SessionTypeOK
  BY BoundsAssumption DEF ReplaceInit, SessionInit, SessionTypeOK
<1>3. editor \in [Clients -> Editor]
  BY <1>1, BoundsAssumption DEF ReplaceInit, Editor, Doc
<1>4. WorkInv
  BY <1>1 DEF ReplaceInit, WorkInv, Distinct
<1>5. /\ inserting \in [Clients -> Insert \cup {None}]
      /\ pending \in Pending \cup {None}
      /\ timer \in Seqs \cup {None} /\ applying \in Apply \cup {None}
      /\ injectorMode \in Modes
  BY NoneAssumption DEF ReplaceInit
<1>6. /\ worker \in Seq(Waiter) /\ done \in Seq(Waiter)
      /\ typed \in Seq(SessionIds \X Texts \X Waiter)
      /\ accepted \in Seq(SessionIds \X Seqs)
      /\ answers \in Seq([req : Asked, ok : BOOLEAN, coalesced : BOOLEAN])
  BY <1>1 DEF ReplaceInit
<1> QED
  BY <1>2, <1>3, <1>4, <1>5, <1>6 DEF TypesInv, TypeOK

LEMMA SessionFields ==
  ASSUME TypeOK, active # None
  PROVE  /\ active \in Session /\ active.sid \in SessionIds
         /\ active.mode \in Modes /\ active.snapshot \in Doc
BY DEF TypeOK, SessionTypeOK, Session, Doc

LEMMA AdvancedTyped ==
  ASSUME NEW s \in Session, NEW seq \in Seqs
  PROVE  /\ Advanced(s, seq) \in Session /\ Advanced(s, seq).sid = s.sid
         /\ Advanced(s, seq).snapshot = s.snapshot
<1>1. seq \in 0..MaxOps + 1
  BY BoundsAssumption DEF Seqs
<1> QED
  BY <1>1 DEF Advanced, Session

LEMMA GrownTyped ==
  ASSUME NEW s \in Session, NEW text \in Texts
  PROVE  /\ Grown(s, text) \in Session /\ Grown(s, text).sid = s.sid
         /\ Grown(s, text).snapshot = Append(s.snapshot, text)
<1>1. Append(s.snapshot, text) \in Seq(Texts)
  BY AppendProperties DEF Session
<1> QED
  BY <1>1 DEF Grown, Session

LEMMA NewSessionTyped ==
  ASSUME nextSession \in SessionIds, NEW c \in Clients, NEW mode \in Modes
  PROVE  /\ NewSession(c, mode) \in Session /\ NewSession(c, mode).sid = nextSession
         /\ NewSession(c, mode).snapshot = <<>>
<1>1. 0 \in 0..MaxOps + 1 /\ <<>> \in Seq(Texts)
  BY BoundsAssumption, EmptySeq
<1> QED
  BY <1>1 DEF NewSession, Session

\* What a client sends.
LEMMA DocsTyped ==
  ASSUME TypeOK, NEW c \in Clients,
         NEW doc \in Longer(c) \cup {editor[c].doc} \cup Shorter(c)
  PROVE  /\ doc \in Doc
         /\ doc \in Longer(c) =>
              /\ editor[c].pieces + 1 \in Seqs
              /\ <<c, editor[c].pieces + 1>> \in Texts
              /\ doc = Append(editor[c].doc, <<c, editor[c].pieces + 1>>)
         /\ \/ doc \in Longer(c) \/ doc = editor[c].doc
            \/ doc = SubSeq(editor[c].doc, 1, Len(editor[c].doc) - 1)
<1>1. editor[c].doc \in Seq(Texts)
  BY DEF TypeOK, Editor, Doc
<1>2. CASE doc \in Longer(c)
  <2>1. editor[c].pieces + 1 \in Seqs
    BY <1>2 DEF Longer
  <2>2. <<c, editor[c].pieces + 1>> \in Texts
    BY <2>1 DEF Texts, OpId, Seqs
  <2>3. doc = Append(editor[c].doc, <<c, editor[c].pieces + 1>>)
    BY <1>2 DEF Longer
  <2> QED
    BY <1>1, <1>2, <2>1, <2>2, <2>3, AppendProperties DEF Doc
<1>3. CASE doc = editor[c].doc /\ doc \notin Longer(c)
  BY <1>1, <1>3 DEF Doc
<1>4. CASE doc \in Shorter(c) /\ doc \notin Longer(c)
  <2>1. doc = SubSeq(editor[c].doc, 1, Len(editor[c].doc) - 1)
    BY <1>4 DEF Shorter
  <2>2. \A i \in 1..Len(editor[c].doc) - 1 : editor[c].doc[i] \in Texts
    BY <1>1, ElementOfSeq, LenProperties
  <2>3. Len(editor[c].doc) - 1 \in Int
    BY <1>1, LenProperties
  <2>4. SubSeq(editor[c].doc, 1, Len(editor[c].doc) - 1) \in Seq(Texts)
    BY <2>2, <2>3, SubSeqProperties
  <2> QED
    BY <1>4, <2>1, <2>4 DEF Doc
<1> QED
  BY <1>2, <1>3, <1>4

LEMMA SentTyped ==
  ASSUME TypeOK, NEW c \in Clients, CanSend(c),
         NEW doc \in Longer(c) \cup {editor[c].doc} \cup Shorter(c), Sent(c, doc)
  PROVE  /\ editor' \in [Clients -> Editor] /\ NextSeq(c) \in Seqs
         /\ editor'[c].doc = doc
         /\ editor'[c].pieces =
              IF doc \in Longer(c) THEN editor[c].pieces + 1 ELSE editor[c].pieces
         /\ \A d \in Clients \ {c} : editor'[d] = editor[d]
<1>1. editor[c] \in Editor /\ editor \in [Clients -> Editor]
  BY DEF TypeOK
<1>2. NextSeq(c) \in Seqs /\ NextSeq(c) \in 0..MaxOps /\ NextSeq(c) = editor[c].seq + 1
  BY BoundsAssumption DEF CanSend, NextSeq, Seqs
<1>3. IF doc \in Longer(c) THEN editor[c].pieces + 1 \in 0..MaxOps
                           ELSE editor[c].pieces \in 0..MaxOps
  <2>1. doc \in Longer(c) => editor[c].pieces + 1 \in Seqs
    BY DocsTyped
  <2>2. \A n \in Seqs : n \in 0..MaxOps
    BY BoundsAssumption DEF Seqs
  <2>3. editor[c].pieces \in 0..MaxOps
    BY <1>1 DEF Editor
  <2> QED
    BY <2>1, <2>2, <2>3
<1>4. doc \in Doc /\ editor[c].sid \in SessionIds \cup {NoSid}
  BY <1>1, DocsTyped DEF Editor
<1> DEFINE new == [sid |-> editor[c].sid, seq |-> editor[c].seq + 1, doc |-> doc,
                   pieces |-> IF doc \in Longer(c) THEN editor[c].pieces + 1
                                                   ELSE editor[c].pieces]
<1>5. new \in Editor
  BY <1>2, <1>3, <1>4 DEF Editor
<1>6. editor' = [editor EXCEPT ![c] = new]
  BY DEF Sent
<1>7. /\ new.doc = doc
      /\ new.pieces = IF doc \in Longer(c) THEN editor[c].pieces + 1 ELSE editor[c].pieces
  OBVIOUS
<1> HIDE DEF new
<1>8. /\ editor' \in [Clients -> Editor] /\ editor'[c] = new
      /\ \A d \in Clients \ {c} : editor'[d] = editor[d]
  BY <1>1, <1>5, <1>6
<1> QED
  BY <1>2, <1>7, <1>8

LEMMA OnAuthTypes == ASSUME TypesInv, NEW c \in Clients, OnAuth(c) PROVE TypesInv'
<1> USE DEF TypesInv
<1>1. PICK mode \in Modes : Authenticate(c, mode)
  BY DEF OnAuth
<1>2. SessionTypeOK'
  <2>1. nextSession \in SessionIds /\ active' = NewSession(c, mode)
        /\ nextSession' = nextSession + 1
    BY <1>1 DEF Authenticate
  <2>2. nextSession' \in 1..MaxSession + 1
    BY <2>1, BoundsAssumption DEF SessionIds
  <2> QED
    BY <2>1, <2>2, NewSessionTyped DEF SessionTypeOK
<1>3. editor' \in [Clients -> Editor]
  <2>1. <<>> \in Doc /\ nextSession \in SessionIds /\ 0 \in 0..MaxOps
    BY <1>1, EmptySeq, BoundsAssumption DEF Authenticate, Doc
  <2>2. [editor[c] EXCEPT !.sid = nextSession, !.seq = 0, !.doc = <<>>] \in Editor
    BY <2>1 DEF TypeOK, Editor
  <2> QED
    BY <2>2 DEF OnAuth, TypeOK
<1>4. WorkInv'
  BY WorkStays DEF OnAuth, workVars, replaceVars, Stage
<1> QED
  BY <1>2, <1>3, <1>4 DEF OnAuth, replaceVars, workVars, TypeOK

LEMMA OvertakenTyped ==
  ASSUME TypeOK
  PROVE  Overtaken \in Seq(Asked)
<1>1. CASE pending = None
  BY <1>1, EmptySeq DEF Overtaken
<1>2. CASE pending # None
  <2>1. pending.coalesced \in Seq(Asked) /\ pending.req \in Asked
    BY <1>2 DEF TypeOK, Pending
  <2> QED
    BY <1>2, <2>1, AppendProperties DEF Overtaken
<1> QED
  BY <1>1, <1>2

\* The request that OnTextReplace makes the pending one.
LEMMA AskedTyped ==
  ASSUME TypeOK, NEW c \in Clients, CanSend(c), Valid(editor[c].sid),
         NEW doc \in Longer(c) \cup {editor[c].doc} \cup Shorter(c)
  PROVE  [sid |-> active.sid, seq |-> NextSeq(c), text |-> doc] \in Asked
<1>1. active.sid \in SessionIds
  BY SessionFields DEF Valid
<1>2. NextSeq(c) \in Seqs
  BY DEF CanSend
<1> QED
  BY <1>1, <1>2, DocsTyped DEF Asked

LEMMA OnTextReplaceTypes ==
  ASSUME TypesInv, NEW c \in Clients, OnTextReplace(c)
  PROVE  TypesInv'
<1> USE DEF TypesInv
<1>1. CanSend(c) /\ Valid(editor[c].sid) /\ NextSeq(c) \in Seqs
  BY DEF OnTextReplace, CanSend
<1>2. PICK doc \in Longer(c) \cup {editor[c].doc} \cup Shorter(c) :
        /\ pending' =
             [req |-> [sid |-> active.sid, seq |-> NextSeq(c), text |-> doc],
              coalesced |-> Overtaken, quiet |-> FALSE]
        /\ Sent(c, doc)
  BY DEF OnTextReplace
<1>3. pending' \in Pending
  BY <1>1, <1>2, AskedTyped, OvertakenTyped DEF Pending
<1>4. editor' \in [Clients -> Editor]
  BY <1>1, <1>2, SentTyped
<1>5. active \in Session /\ active.sid \in SessionIds
  BY <1>1, SessionFields DEF Valid
<1>6. SessionTypeOK'
  BY <1>1, <1>5, AdvancedTyped DEF OnTextReplace, TypeOK, SessionTypeOK
<1>7. accepted' \in Seq(SessionIds \X Seqs)
  <2>1. <<active.sid, NextSeq(c)>> \in SessionIds \X Seqs
    BY <1>1, <1>5
  <2> QED
    BY <2>1, AppendProperties DEF OnTextReplace, TypeOK
<1>8. WorkInv'
  BY WorkStays DEF OnTextReplace, workVars, Stage
<1> QED
  BY <1>1, <1>3, <1>4, <1>6, <1>7, <1>8 DEF OnTextReplace, workVars, TypeOK

LEMMA RefuseTypes == ASSUME TypesInv, NEW c \in Clients, Refuse(c) PROVE TypesInv'
<1> USE DEF TypesInv
<1>1. editor' \in [Clients -> Editor]
  <2>1. [editor[c] EXCEPT !.sid = NoSid] \in Editor
    BY DEF TypeOK, Editor
  <2> QED
    BY <2>1 DEF Refuse, TypeOK
<1>2. WorkInv'
  BY WorkStays DEF Refuse, workVars, replaceVars, Stage
<1> QED
  BY <1>1, <1>2
     DEF Refuse, sessionVars, workVars, replaceVars, TypeOK, SessionTypeOK

LEMMA OnTextInsertTypes ==
  ASSUME TypesInv, NEW c \in Clients, OnTextInsert(c)
  PROVE  TypesInv'
<1> USE DEF TypesInv
<1>1. /\ CanSend(c) /\ Valid(editor[c].sid) /\ NextSeq(c) \in Seqs
      /\ inserting[c] = None
  BY DEF OnTextInsert, CanSend, Ready
<1>2. PICK doc \in Longer(c) :
        /\ inserting' = [inserting EXCEPT ![c] =
                          [sid |-> active.sid, text |-> Last(doc), stage |-> "typing"]]
        /\ Sent(c, doc)
  BY DEF OnTextInsert
<1>3. active \in Session /\ active.sid \in SessionIds /\ active.mode \in Modes
  BY <1>1, SessionFields DEF Valid
<1>4. Last(doc) = <<c, editor[c].pieces + 1>> /\ Last(doc) \in Texts
  <2>1. /\ doc = Append(editor[c].doc, <<c, editor[c].pieces + 1>>)
        /\ <<c, editor[c].pieces + 1>> \in Texts
    BY DocsTyped
  <2>2. editor[c].doc \in Seq(Texts)
    BY DEF TypeOK, Editor, Doc
  <2> QED
    BY <2>1, <2>2, AppendProperties DEF Last
<1> DEFINE new == [sid |-> active.sid, text |-> Last(doc), stage |-> "typing"]
<1>5. new \in Insert /\ new.stage = "typing" /\ new # None
  BY <1>3, <1>4, NothingAssumption DEF Insert
<1>6. inserting' = [inserting EXCEPT ![c] = new]
  BY <1>2
<1> HIDE DEF new
<1>7. inserting' \in [Clients -> Insert \cup {None}]
  BY <1>5, <1>6 DEF TypeOK
<1>8. editor' \in [Clients -> Editor]
  BY <1>1, <1>2, SentTyped
<1>9. SessionTypeOK'
  BY <1>1, <1>3, AdvancedTyped DEF OnTextInsert, TypeOK, SessionTypeOK
<1>10. WorkInv' /\ worker' \in Seq(Waiter)
  <2>1. Stage[c] = "none" /\ Stage'[c] = "typing"
    BY <1>1, <1>5, <1>6, NoneAssumption DEF Stage, Waiter, TypeOK
  <2>2. \A v \in Waiter \ {c} : Stage'[v] = Stage[v]
    BY <1>6 DEF Stage, Waiter, OnTextInsert, replaceVars, TypeOK
  <2>3. c \in Waiter /\ worker' = Append(worker, c) /\ done' = done
    BY DEF Waiter, OnTextInsert
  <2> QED
    BY <2>1, <2>2, <2>3, WorkStarts DEF Busy
<1> QED
  BY <1>3, <1>7, <1>8, <1>9, <1>10 DEF OnTextInsert, replaceVars, TypeOK

LEMMA QuietTypes == ASSUME TypesInv, QuietWindowEnds PROVE TypesInv'
<1> USE DEF TypesInv
<1>1. pending' \in Pending
  BY DEF QuietWindowEnds, TypeOK, Pending
<1>2. WorkInv'
  BY WorkStays DEF QuietWindowEnds, workVars, Stage
<1> QED
  BY <1>1, <1>2 DEF QuietWindowEnds, sessionVars, workVars, TypeOK, SessionTypeOK

LEMMA TimerTypes == ASSUME TypesInv, TimerFires PROVE TypesInv'
<1> USE DEF TypesInv
<1>1. CASE UNCHANGED <<pending, applying>>
  <2>1. WorkInv'
    BY <1>1, WorkStays DEF TimerFires, workVars, Stage
  <2> QED
    BY <1>1, <2>1 DEF TimerFires, sessionVars, workVars, TypeOK, SessionTypeOK
<1>2. CASE /\ applying = None /\ pending # None /\ pending' = None
           /\ applying' = [req |-> pending.req, coalesced |-> pending.coalesced,
                           suffix |-> <<>>, stage |-> "created"]
  <2>1. <<>> \in Doc
    BY EmptySeq DEF Doc
  <2>2. pending.req \in Asked /\ pending.coalesced \in Seq(Asked)
    BY <1>2 DEF TypeOK, Pending
  <2>3. applying' \in Apply
    BY <1>2, <2>1, <2>2 DEF Apply
  <2>4. WorkInv'
    <3>1. Stage[None] = "none" /\ \A v \in Waiter \ {None} : Stage'[v] = Stage[v]
      BY <1>2 DEF TimerFires, Stage, Waiter
    <3> QED
      BY <3>1, WorkStays DEF TimerFires, workVars, Busy
  <2> QED
    BY <1>2, <2>3, <2>4 DEF TimerFires, sessionVars, workVars, TypeOK, SessionTypeOK
<1> QED
  BY <1>1, <1>2 DEF TimerFires

LEMMA OutcomesTyped ==
  ASSUME TypeOK, applying # None, NEW ok \in BOOLEAN
  PROVE  LET old == applying.coalesced
             out == Outcomes(ok)
         IN /\ out \in Seq([req : Asked, ok : BOOLEAN, coalesced : BOOLEAN])
            /\ old \in Seq(Asked) /\ applying.req \in Asked
            /\ Len(out) = Len(old) + 1
            /\ \A i \in 1..Len(old) :
                 out[i] = [req |-> old[i], ok |-> ok, coalesced |-> TRUE]
            /\ out[Len(old) + 1] = [req |-> applying.req, ok |-> ok, coalesced |-> FALSE]
<1> DEFINE old == applying.coalesced
           last == [req |-> applying.req, ok |-> ok, coalesced |-> FALSE]
           first == [i \in DOMAIN old |-> [req |-> old[i], ok |-> ok, coalesced |-> TRUE]]
           Answer == [req : Asked, ok : BOOLEAN, coalesced : BOOLEAN]
<1>1. old \in Seq(Asked) /\ applying.req \in Asked
  BY DEF TypeOK, Apply
<1>2. last \in Answer
  BY <1>1
<1>3. /\ first \in Seq(Answer) /\ Len(first) = Len(old)
      /\ \A i \in 1..Len(old) : first[i] = [req |-> old[i], ok |-> ok, coalesced |-> TRUE]
  <2> HIDE DEF old
  <2>1. DOMAIN old = 1..Len(old) /\ Len(old) \in Nat
    BY <1>1, LenProperties
  <2>2. \A i \in 1..Len(old) :
          [req |-> old[i], ok |-> ok, coalesced |-> TRUE] \in Answer
    BY <1>1, ElementOfSeq
  <2>3. first = [i \in 1..Len(old) |-> [req |-> old[i], ok |-> ok, coalesced |-> TRUE]]
    BY <2>1
  <2> HIDE DEF Answer, first
  <2>4. first \in Seq(Answer)
    BY <2>1, <2>2, <2>3, IsASeq
  <2>5. Len(first) = Len(old)
    BY <2>1, <2>3, <2>4, LenProperties
  <2> QED
    BY <2>3, <2>4, <2>5
<1>4. Outcomes(ok) = first \o <<last>>
  BY DEF Outcomes
<1>5. Append(first, last) = first \o <<last>>
  BY <1>2, <1>3, AppendIsConcat
<1> HIDE DEF old, last, first, Answer
<1>6. /\ Append(first, last) \in Seq(Answer)
      /\ Len(Append(first, last)) = Len(first) + 1
      /\ \A i \in 1..Len(first) : Append(first, last)[i] = first[i]
      /\ Append(first, last)[Len(first) + 1] = last
  BY <1>2, <1>3, AppendProperties
<1> QED
  BY <1>1, <1>3, <1>4, <1>5, <1>6 DEF old, last, Answer

LEMMA ConcludesTyped ==
  ASSUME TypeOK, applying # None, NEW ok \in BOOLEAN, Concludes(ok)
  PROVE  /\ answers' \in Seq([req : Asked, ok : BOOLEAN, coalesced : BOOLEAN])
         /\ applying' = None /\ timer' \in Seqs \cup {None}
         /\ UNCHANGED <<pending, accepted>>
<1>1. answers' \in Seq([req : Asked, ok : BOOLEAN, coalesced : BOOLEAN])
  BY OutcomesTyped, ConcatProperties DEF Concludes, TypeOK
<1>2. timer' \in Seqs \cup {None}
  BY DEF Concludes, TypeOK, Pending, Asked
<1> QED
  BY <1>1, <1>2 DEF Concludes

LEMMA AtOnceTypes ==
  ASSUME TypesInv, RefuseApply \/ ApplyNothing
  PROVE  TypesInv'
<1> USE DEF TypesInv
<1>1. PICK ok \in BOOLEAN : Concludes(ok)
  BY DEF RefuseApply, ApplyNothing
<1>2. /\ applying # None /\ applying.stage = "created"
      /\ UNCHANGED <<sessionVars, editor, inserting, workVars>>
  BY DEF RefuseApply, ApplyNothing, Created
<1>3. /\ answers' \in Seq([req : Asked, ok : BOOLEAN, coalesced : BOOLEAN])
      /\ applying' = None /\ timer' \in Seqs \cup {None}
      /\ UNCHANGED <<pending, accepted>>
  BY <1>1, <1>2, ConcludesTyped
<1>4. WorkInv'
  <2>1. Stage[None] = "created" /\ \A v \in Waiter \ {None} : Stage'[v] = Stage[v]
    BY <1>2 DEF Stage, Waiter
  <2> QED
    BY <1>2, <2>1, WorkStays DEF workVars, Busy
<1> QED
  BY <1>2, <1>3, <1>4 DEF sessionVars, workVars, TypeOK, SessionTypeOK

\* The request of the apply task: what the session has been shown, and then
\* the suffix.
LEMMA SuffixMeans ==
  ASSUME TypeOK, applying # None, Appends
  PROVE  LET shown == active.snapshot
             text  == applying.req.text
         IN /\ active # None /\ active.sid = applying.req.sid
            /\ shown \in Doc /\ text \in Doc /\ Suffix \in Doc
            /\ \A i \in DOMAIN shown : i \in DOMAIN text /\ text[i] = shown[i]
            /\ \A j \in DOMAIN Suffix :
                 /\ j \in Nat /\ Len(shown) + j \in DOMAIN text
                 /\ Suffix[j] = text[Len(shown) + j]
                 /\ Len(shown) + j \notin DOMAIN shown
            /\ \A i \in DOMAIN text :
                 i \in DOMAIN shown \/ \E j \in DOMAIN Suffix : i = Len(shown) + j
<1> DEFINE shown == active.snapshot
           text == applying.req.text
           tail == SubSeq(text, Len(shown) + 1, Len(text))
<1>1. active # None /\ active.sid = applying.req.sid /\ IsPrefix(shown, text)
  BY DEF Appends, Valid
<1>2. shown \in Seq(Texts) /\ text \in Seq(Texts) /\ Suffix = tail
  BY <1>1, SessionFields DEF TypeOK, Apply, Asked, Doc, Suffix
<1> HIDE DEF shown, text
<1>3. /\ DOMAIN shown = 1..Len(shown) /\ Len(shown) \in Nat
      /\ DOMAIN text = 1..Len(text) /\ Len(text) \in Nat /\ Len(shown) <= Len(text)
      /\ SubSeq(shown, 1, Len(shown)) = SubSeq(text, 1, Len(shown))
  BY <1>1, <1>2, LenProperties DEF IsPrefix
<1>4. \A i \in DOMAIN shown : i \in DOMAIN text /\ text[i] = shown[i]
  <2>1. \A i \in 1..Len(shown) : SubSeq(shown, 1, Len(shown))[i] = shown[i]
    BY <1>2, <1>3, SubSeqFull
  <2>2. \A i \in 1..Len(shown) : text[i] \in Texts
    BY <1>2, <1>3, ElementOfSeq
  <2>3. \A i \in 1..Len(shown) : SubSeq(text, 1, Len(shown))[i] = text[i]
    BY <1>3, <2>2, SubSeqProperties
  <2> QED
    BY <1>3, <2>1, <2>3
<1>5. /\ tail \in Seq(Texts) /\ DOMAIN tail = 1..Len(text) - Len(shown)
      /\ \A j \in 1..Len(text) - Len(shown) : tail[j] = text[Len(shown) + j]
  <2>1. \A i \in Len(shown) + 1..Len(text) : text[i] \in Texts
    BY <1>2, <1>3, ElementOfSeq
  <2>2. /\ tail \in Seq(Texts)
        /\ Len(tail) = IF Len(shown) + 1 <= Len(text)
                       THEN Len(text) - (Len(shown) + 1) + 1 ELSE 0
        /\ \A j \in 1..Len(text) - (Len(shown) + 1) + 1 :
             tail[j] = text[Len(shown) + 1 + j - 1]
    BY <1>3, <2>1, SubSeqProperties
  <2> HIDE DEF tail
  <2>3. DOMAIN tail = 1..Len(tail)
    BY <2>2, LenProperties
  <2>4. Len(tail) = Len(text) - Len(shown)
    <3>1. CASE Len(shown) + 1 <= Len(text)
      BY <1>3, <2>2, <3>1
    <3>2. CASE ~(Len(shown) + 1 <= Len(text))
      <4>1. Len(tail) = 0
        BY <2>2, <3>2
      <4>2. Len(shown) = Len(text)
        <5>1. \A m, n \in Nat : m <= n /\ ~(m + 1 <= n) => m = n
          OBVIOUS
        <5> QED
          BY <1>3, <3>2, <5>1
      <4> QED
        BY <1>3, <4>1, <4>2
    <3> QED
      BY <3>1, <3>2
  <2>5. Len(text) - (Len(shown) + 1) + 1 = Len(text) - Len(shown)
    BY <1>3
  <2>6. \A j \in 1..Len(text) - Len(shown) : Len(shown) + 1 + j - 1 = Len(shown) + j
    BY <1>3
  <2> QED
    BY <2>2, <2>3, <2>4, <2>5, <2>6
<1> HIDE DEF tail
<1>6. \A j \in DOMAIN tail :
        /\ j \in Nat /\ Len(shown) + j \in DOMAIN text
        /\ tail[j] = text[Len(shown) + j] /\ Len(shown) + j \notin DOMAIN shown
  BY <1>3, <1>5
<1>7. \A i \in DOMAIN text :
        i \in DOMAIN shown \/ \E j \in DOMAIN tail : i = Len(shown) + j
  <2> SUFFICES ASSUME NEW i \in DOMAIN text, i \notin DOMAIN shown
               PROVE  \E j \in DOMAIN tail : i = Len(shown) + j
    OBVIOUS
  <2>1. i - Len(shown) \in DOMAIN tail /\ i = Len(shown) + (i - Len(shown))
    BY <1>3, <1>5
  <2> QED
    BY <2>1
<1>8. shown = active.snapshot /\ text = applying.req.text
  BY DEF shown, text
<1> QED
  BY <1>1, <1>2, <1>4, <1>5, <1>6, <1>7, <1>8 DEF Doc

LEMMA ApplySuffixTypes == ASSUME TypesInv, ApplySuffix PROVE TypesInv'
<1> USE DEF TypesInv
<1>1. /\ applying # None /\ applying.stage = "created" /\ Appends
      /\ applying' = [applying EXCEPT !.stage = "typing", !.suffix = Suffix]
  BY DEF ApplySuffix, Created
<1>2. applying \in Apply /\ Suffix \in Doc /\ active.mode \in Modes
  BY <1>1, SuffixMeans, SessionFields DEF TypeOK
<1>3. applying' \in Apply /\ applying'.stage = "typing" /\ applying' # None
  BY <1>1, <1>2, NothingAssumption DEF Apply
<1>4. WorkInv' /\ worker' \in Seq(Waiter)
  <2>1. Stage[None] = "created" /\ Stage'[None] = "typing"
    BY <1>1, <1>3 DEF Stage, Waiter
  <2>2. \A v \in Waiter \ {None} : Stage'[v] = Stage[v]
    BY DEF Stage, Waiter, ApplySuffix
  <2>3. None \in Waiter /\ worker' = Append(worker, None) /\ done' = done
    BY DEF Waiter, ApplySuffix
  <2> QED
    BY <2>1, <2>2, <2>3, WorkStarts DEF Busy
<1> QED
  BY <1>2, <1>3, <1>4 DEF ApplySuffix, sessionVars, TypeOK, SessionTypeOK

\* What the worker types for w.
Job(w) == IF w = None THEN [sid |-> applying.req.sid, text |-> applying.suffix]
          ELSE [sid |-> inserting[w].sid, text |-> <<inserting[w].text>>]

Entries(w) == [i \in DOMAIN Job(w).text |-> <<Job(w).sid, Job(w).text[i], w>>]

LEMMA WaiterFinds ==
  ASSUME TypeOK, NEW w \in Waiter, Stage[w] # "none"
  PROVE  /\ w = None => applying # None /\ applying \in Apply /\ Stage[w] = applying.stage
         /\ w # None => /\ w \in Clients /\ inserting[w] # None
                        /\ inserting[w] \in Insert /\ Stage[w] = inserting[w].stage
BY DEF Stage, Waiter, TypeOK

LEMMA EntriesTyped ==
  ASSUME TypeOK, NEW w \in Waiter, Stage[w] # "none"
  PROVE  /\ Job(w).sid \in SessionIds /\ Job(w).text \in Doc
         /\ Entries(w) \in Seq(SessionIds \X Texts \X Waiter)
         /\ DOMAIN Entries(w) = DOMAIN Job(w).text
         /\ \A i \in DOMAIN Job(w).text :
              Entries(w)[i] = <<Job(w).sid, Job(w).text[i], w>>
<1> DEFINE sid == Job(w).sid
           text == Job(w).text
           S == SessionIds \X Texts \X Waiter
<1>1. sid \in SessionIds /\ text \in Doc
  <2>1. CASE w = None
    BY <2>1, WaiterFinds DEF Job, Apply, Asked
  <2>2. CASE w # None
    <3>1. inserting[w].sid \in SessionIds /\ inserting[w].text \in Texts
      BY <2>2, WaiterFinds DEF Insert
    <3>2. <<inserting[w].text>> \in Seq(Texts)
      BY <3>1
    <3> QED
      BY <2>2, <3>1, <3>2 DEF Job, Doc
  <2> QED
    BY <2>1, <2>2
<1>2. Entries(w) = [i \in DOMAIN text |-> <<sid, text[i], w>>]
  BY DEF Entries
<1> HIDE DEF sid, text
<1>3. DOMAIN text = 1..Len(text) /\ Len(text) \in Nat
  BY <1>1, LenProperties DEF Doc
<1>4. \A i \in 1..Len(text) : <<sid, text[i], w>> \in S
  BY <1>1, ElementOfSeq DEF Doc
<1> HIDE DEF S
<1>5. Entries(w) \in Seq(S)
  BY <1>2, <1>3, <1>4, IsASeq
<1> QED
  BY <1>1, <1>2, <1>5 DEF sid, text, S

LEMMA RunMeans ==
  ASSUME TypesInv, RunWorker
  PROVE  LET w == Head(worker)
         IN /\ w \in Waiter /\ Stage[w] = "typing" /\ Stage'[w] \in {"typed", "failed"}
            /\ \A v \in Waiter \ {w} : Stage'[v] = Stage[v]
            /\ typed' = IF Stage'[w] = "failed" THEN typed ELSE typed \o Entries(w)
            /\ w = None => /\ applying' = [applying EXCEPT !.stage = Stage'[w]]
                           /\ inserting' = inserting
                           /\ applying' \in Apply
            /\ w # None => /\ inserting' = [inserting EXCEPT ![w].stage = Stage'[w]]
                           /\ applying' = applying
                           /\ inserting' \in [Clients -> Insert \cup {None}]
<1> USE DEF TypesInv
<1> DEFINE w == Head(worker)
<1>1. w \in Waiter /\ Stage[w] = "typing"
  BY WaiterTypes, TailOf DEF RunWorker, WorkInv
<1>2. PICK stage \in {"typed", "failed"} :
        /\ w = None => applying' = [applying EXCEPT !.stage = stage] /\ inserting' = inserting
        /\ w # None => /\ inserting' = [inserting EXCEPT ![w].stage = stage]
                       /\ applying' = applying
        /\ typed' = IF stage = "failed" THEN typed ELSE typed \o Entries(w)
  BY DEF RunWorker, Entries, Job
<1> HIDE DEF w
<1>3. CASE w = None
  <2>1. applying \in Apply /\ applying # None
    BY <1>1, <1>3, WaiterFinds
  <2>2. applying' \in Apply /\ applying'.stage = stage /\ applying' # None
    BY <1>2, <1>3, <2>1, NothingAssumption DEF Apply
  <2>3. Stage'[w] = stage /\ \A v \in Waiter \ {w} : Stage'[v] = Stage[v]
    BY <1>1, <1>2, <1>3, <2>2 DEF Stage
  <2> QED
    BY <1>1, <1>2, <1>3, <2>2, <2>3 DEF w
<1>4. CASE w # None
  <2>1. w \in Clients /\ inserting[w] \in Insert /\ inserting[w] # None
    BY <1>1, <1>4, WaiterFinds
  <2>2. [inserting[w] EXCEPT !.stage = stage] \in Insert
    BY <2>1 DEF Insert
  <2>3. /\ inserting' \in [Clients -> Insert \cup {None}]
        /\ inserting'[w] = [inserting[w] EXCEPT !.stage = stage]
        /\ \A v \in Clients \ {w} : inserting'[v] = inserting[v]
    BY <1>2, <1>4, <2>1, <2>2 DEF TypeOK
  <2>4. inserting'[w] # None /\ inserting'[w].stage = stage
    BY <2>1, <2>2, <2>3, NothingAssumption DEF Insert
  <2>5. Stage'[w] = stage /\ \A v \in Waiter \ {w} : Stage'[v] = Stage[v]
    BY <1>1, <1>2, <1>4, <2>3, <2>4 DEF Stage, Waiter
  <2> QED
    BY <1>1, <1>2, <1>4, <2>3, <2>5 DEF w
<1> QED
  BY <1>3, <1>4

LEMMA RunTypes == ASSUME TypesInv, RunWorker PROVE TypesInv'
<1> USE DEF TypesInv
<1> DEFINE w == Head(worker)
<1>1. /\ w \in Waiter /\ Stage[w] = "typing" /\ Stage'[w] \in {"typed", "failed"}
      /\ \A v \in Waiter \ {w} : Stage'[v] = Stage[v]
      /\ typed' = IF Stage'[w] = "failed" THEN typed ELSE typed \o Entries(w)
      /\ inserting' \in [Clients -> Insert \cup {None}]
      /\ applying' \in Apply \cup {None}
  BY RunMeans DEF TypeOK
<1>2. worker # <<>> /\ worker' = Tail(worker) /\ done' = Append(done, w)
  BY DEF RunWorker
<1>3. WorkInv' /\ worker' \in Seq(Waiter) /\ done' \in Seq(Waiter)
  BY <1>1, <1>2, WorkRuns
<1>4. typed' \in Seq(SessionIds \X Texts \X Waiter)
  <2>1. Entries(w) \in Seq(SessionIds \X Texts \X Waiter)
    BY <1>1, EntriesTyped
  <2> QED
    BY <1>1, <2>1, ConcatProperties DEF TypeOK
<1> QED
  BY <1>1, <1>3, <1>4 DEF RunWorker, sessionVars, TypeOK, SessionTypeOK

LEMMA EndInsertTypes ==
  ASSUME TypesInv, NEW c \in Clients, EndInsert(c)
  PROVE  TypesInv'
<1> USE DEF TypesInv
<1>1. done # <<>> /\ Head(done) = c /\ done' = Tail(done)
  BY DEF EndInsert, Resumes
<1>2. c \in Waiter /\ c # None /\ Stage[c] \in {"typed", "failed"}
  BY <1>1, WaiterTypes, TailOf, NoneAssumption DEF WorkInv, Waiter
<1>3. inserting[c] \in Insert
  BY <1>2, WaiterFinds
<1>4. active' \in Session \cup {None}
  <2>1. active # None => active \in Session
    BY SessionFields
  <2> QED
    BY <1>3, <2>1, GrownTyped DEF EndInsert, Valid, Insert
<1>5. inserting' \in [Clients -> Insert \cup {None}]
  BY DEF EndInsert, TypeOK
<1>6. WorkInv' /\ worker' \in Seq(Waiter) /\ done' \in Seq(Waiter)
  <2>1. \A v \in Waiter \ {c} : Stage'[v] = Stage[v]
    BY DEF EndInsert, replaceVars, Stage, Waiter, TypeOK
  <2> QED
    BY <1>1, <2>1, WorkEnds DEF EndInsert
<1> QED
  BY <1>4, <1>5, <1>6 DEF EndInsert, replaceVars, TypeOK, SessionTypeOK

LEMMA EndApplyFinds ==
  ASSUME TypesInv, EndApply
  PROVE  /\ done # <<>> /\ Head(done) = None /\ done' = Tail(done)
         /\ applying # None /\ applying \in Apply
         /\ applying.stage \in {"typed", "failed"}
         /\ applying.req.text \in Doc
<1>1. done # <<>> /\ Head(done) = None /\ done' = Tail(done)
  BY DEF EndApply, Resumes
<1>2. None \in Waiter /\ Stage[None] \in {"typed", "failed"}
  BY <1>1, WaiterTypes, TailOf DEF TypesInv, WorkInv, Waiter
<1>3. applying # None /\ applying \in Apply /\ applying.stage = Stage[None]
  BY <1>2, WaiterFinds DEF TypesInv
<1> QED
  BY <1>1, <1>2, <1>3 DEF Apply, Asked

LEMMA EndApplyTypes == ASSUME TypesInv, EndApply PROVE TypesInv'
<1> USE DEF TypesInv
<1>1. Concludes(applying.stage = "typed") /\ (applying.stage = "typed") \in BOOLEAN
  BY DEF EndApply
<1>2. /\ answers' \in Seq([req : Asked, ok : BOOLEAN, coalesced : BOOLEAN])
      /\ applying' = None /\ timer' \in Seqs \cup {None}
      /\ UNCHANGED <<pending, accepted>>
  BY <1>1, EndApplyFinds, ConcludesTyped
<1>3. active' \in Session \cup {None}
  <2>1. active # None => active \in Session
    BY SessionFields
  <2> QED
    BY <2>1, EndApplyFinds DEF EndApply, Valid, Session, Doc
<1>4. WorkInv' /\ worker' \in Seq(Waiter) /\ done' \in Seq(Waiter)
  <2>1. \A v \in Waiter \ {None} : Stage'[v] = Stage[v]
    BY DEF EndApply, Stage, Waiter
  <2> QED
    BY <2>1, EndApplyFinds, WorkEnds DEF EndApply
<1> QED
  BY <1>2, <1>3, <1>4 DEF EndApply, TypeOK, SessionTypeOK

LEMMA TimesOutTypes == ASSUME TypesInv, SessionTimesOut PROVE TypesInv'
<1> USE DEF TypesInv
<1>1. active' \in Session \cup {None}
  BY DEF SessionTimesOut, Quieten, DropQuietSession, TypeOK, SessionTypeOK, Session
<1>2. WorkInv'
  BY WorkStays DEF SessionTimesOut, replaceVars, workVars, Stage
<1> QED
  BY <1>1, <1>2
     DEF SessionTimesOut, Quieten, DropQuietSession, replaceVars, workVars,
         TypeOK, SessionTypeOK

LEMMA UnchangedTypes == ASSUME TypesInv, UNCHANGED vars PROVE TypesInv'
BY DEF TypesInv, WorkInv, Stage, vars, sessionVars, replaceVars, workVars, TypeOK,
       SessionTypeOK

LEMMA NextTypes == TypesInv /\ [Next]_vars => TypesInv'
BY OnAuthTypes, OnTextReplaceTypes, OnTextInsertTypes, RefuseTypes, QuietTypes,
   TimerTypes, AtOnceTypes, ApplySuffixTypes, EndApplyTypes, RunTypes,
   EndInsertTypes, TimesOutTypes, UnchangedTypes
   DEF Next, HostWorks

LEMMA SpecTypes == Spec => []TypesInv
BY InitTypes, NextTypes, PTL DEF Spec

\* Every variable keeps its type; in particular, the task that the worker
\* resumes finds its request (_apply_replace_request, _on_text_insert).
THEOREM ReplaceTypes == Spec => []TypeOK
<1>1. TypesInv => TypeOK
  BY DEF TypesInv
<1> QED
  BY <1>1, SpecTypes, PTL

-----------------------------------------------------------------------------
(* The answers.                                                            *)

Answer == [req : Asked, ok : BOOLEAN, coalesced : BOOLEAN]
Name   == SessionIds \X Seqs

Answered(prior) == Names([i \in DOMAIN prior |-> prior[i].req])

LEMMA NamesOf ==
  ASSUME NEW rs \in Seq(Asked)
  PROVE  /\ Names(rs) \in Seq(Name) /\ Len(Names(rs)) = Len(rs)
         /\ \A i \in 1..Len(rs) : Names(rs)[i] = <<rs[i].sid, rs[i].seq>>
<1>1. DOMAIN rs = 1..Len(rs) /\ Len(rs) \in Nat
  BY LenProperties
<1>2. \A i \in 1..Len(rs) : <<rs[i].sid, rs[i].seq>> \in Name
  <2>1. \A r \in Asked : <<r.sid, r.seq>> \in Name
    BY DEF Asked, Name
  <2> QED
    BY <2>1, ElementOfSeq
<1>3. Names(rs) = [i \in 1..Len(rs) |-> <<rs[i].sid, rs[i].seq>>]
  BY <1>1 DEF Names
<1>4. Names(rs) \in Seq(Name)
  BY <1>1, <1>2, <1>3, IsASeq
<1>5. Len(Names(rs)) = Len(rs)
  BY <1>1, <1>3, <1>4, LenProperties
<1> QED
  BY <1>3, <1>4, <1>5

LEMMA NamesAppend ==
  ASSUME NEW rs \in Seq(Asked), NEW r \in Asked
  PROVE  Names(Append(rs, r)) = Append(Names(rs), <<r.sid, r.seq>>)
<1> DEFINE more == Append(rs, r)
           n == <<r.sid, r.seq>>
           right == Append(Names(rs), n)
<1>1. /\ more \in Seq(Asked) /\ Len(more) = Len(rs) + 1 /\ Len(rs) \in Nat
      /\ \A i \in 1..Len(rs) : more[i] = rs[i]
      /\ more[Len(rs) + 1] = r
  BY AppendProperties, LenProperties
<1>2. n \in Name
  BY DEF Asked, Name
<1> HIDE DEF more, n
<1>3. /\ right \in Seq(Name) /\ Len(right) = Len(rs) + 1
      /\ \A i \in 1..Len(rs) : right[i] = <<rs[i].sid, rs[i].seq>>
      /\ right[Len(rs) + 1] = n
  BY <1>2, NamesOf, AppendProperties
<1> HIDE DEF right
<1>4. /\ Names(more) \in Seq(Name) /\ Len(Names(more)) = Len(rs) + 1
      /\ \A i \in 1..Len(rs) + 1 : Names(more)[i] = <<more[i].sid, more[i].seq>>
  BY <1>1, NamesOf
<1>5. \A i \in 1..Len(rs) + 1 : Names(more)[i] = right[i]
  <2> SUFFICES ASSUME NEW i \in 1..Len(rs) + 1 PROVE Names(more)[i] = right[i]
    OBVIOUS
  <2>1. CASE i \in 1..Len(rs)
    BY <1>1, <1>3, <1>4, <2>1
  <2>2. CASE i = Len(rs) + 1
    BY <1>1, <1>3, <1>4, <2>2 DEF n
  <2> QED
    BY <1>1, <2>1, <2>2
<1>6. Names(more) = right
  BY <1>3, <1>4, <1>5, SeqEqual
<1> QED
  BY <1>6 DEF more, right, n

LEMMA AnsweredOf ==
  ASSUME NEW prior \in Seq(Answer)
  PROVE  /\ Answered(prior) \in Seq(Name) /\ Len(Answered(prior)) = Len(prior)
         /\ \A i \in 1..Len(prior) :
              Answered(prior)[i] = <<prior[i].req.sid, prior[i].req.seq>>
<1> DEFINE rs == [i \in DOMAIN prior |-> prior[i].req]
<1>1. DOMAIN prior = 1..Len(prior) /\ Len(prior) \in Nat
  BY LenProperties
<1>2. \A i \in 1..Len(prior) : prior[i].req \in Asked
  <2>1. \A a \in Answer : a.req \in Asked
    BY DEF Answer
  <2> QED
    BY <2>1, ElementOfSeq
<1>3. rs = [i \in 1..Len(prior) |-> prior[i].req]
  BY <1>1
<1>4. Answered(prior) = Names(rs)
  BY DEF Answered
<1> HIDE DEF rs
<1>5. rs \in Seq(Asked)
  BY <1>1, <1>2, <1>3, IsASeq
<1>6. Len(rs) = Len(prior)
  BY <1>1, <1>3, <1>5, LenProperties
<1>7. /\ Names(rs) \in Seq(Name) /\ Len(Names(rs)) = Len(rs)
      /\ \A i \in 1..Len(rs) : Names(rs)[i] = <<rs[i].sid, rs[i].seq>>
  BY <1>5, NamesOf
<1>8. \A i \in 1..Len(prior) : rs[i] = prior[i].req
  BY <1>3
<1> QED
  BY <1>4, <1>6, <1>7, <1>8

LEMMA AnsweredConcat ==
  ASSUME NEW prior \in Seq(Answer), NEW later \in Seq(Answer)
  PROVE  Answered(prior \o later) = Answered(prior) \o Answered(later)
<1> DEFINE cs == prior \o later
           right == Answered(prior) \o Answered(later)
<1>1. /\ cs \in Seq(Answer) /\ Len(cs) = Len(prior) + Len(later)
      /\ \A i \in 1..Len(prior) + Len(later) :
           cs[i] = IF i <= Len(prior) THEN prior[i] ELSE later[i - Len(prior)]
      /\ Len(prior) \in Nat /\ Len(later) \in Nat
  BY ConcatProperties, LenProperties
<1>2. /\ right \in Seq(Name) /\ Len(right) = Len(prior) + Len(later)
      /\ \A i \in 1..Len(prior) + Len(later) :
           right[i] = IF i <= Len(prior) THEN Answered(prior)[i]
                      ELSE Answered(later)[i - Len(prior)]
  <2>1. /\ Answered(prior) \in Seq(Name) /\ Len(Answered(prior)) = Len(prior)
        /\ Answered(later) \in Seq(Name) /\ Len(Answered(later)) = Len(later)
    BY AnsweredOf
  <2> DEFINE p == Answered(prior)
             l == Answered(later)
  <2> HIDE DEF p, l
  <2>2. /\ p \o l \in Seq(Name) /\ Len(p \o l) = Len(p) + Len(l)
        /\ \A i \in 1..Len(p) + Len(l) :
             (p \o l)[i] = IF i <= Len(p) THEN p[i] ELSE l[i - Len(p)]
    BY <2>1, ConcatProperties DEF p, l
  <2>3. Len(p) = Len(prior) /\ Len(l) = Len(later) /\ right = p \o l
    BY <2>1 DEF p, l
  <2> QED
    BY <2>2, <2>3 DEF p, l
<1> HIDE DEF cs, right
<1>3. /\ Answered(cs) \in Seq(Name) /\ Len(Answered(cs)) = Len(prior) + Len(later)
      /\ \A i \in 1..Len(prior) + Len(later) :
           Answered(cs)[i] = <<cs[i].req.sid, cs[i].req.seq>>
  BY <1>1, AnsweredOf
<1>4. \A i \in 1..Len(prior) + Len(later) : Answered(cs)[i] = right[i]
  <2> SUFFICES ASSUME NEW i \in 1..Len(prior) + Len(later)
               PROVE  Answered(cs)[i] = right[i]
    OBVIOUS
  <2>1. CASE i <= Len(prior)
    <3>1. i \in 1..Len(prior)
      BY <1>1, <2>1
    <3>2. Answered(prior)[i] = <<prior[i].req.sid, prior[i].req.seq>>
      BY <3>1, AnsweredOf
    <3> QED
      BY <1>1, <1>2, <1>3, <2>1, <3>2
  <2>2. CASE ~(i <= Len(prior))
    <3>1. i - Len(prior) \in 1..Len(later)
      BY <1>1, <2>2
    <3>2. Answered(later)[i - Len(prior)] =
            <<later[i - Len(prior)].req.sid, later[i - Len(prior)].req.seq>>
      BY <3>1, AnsweredOf
    <3>3. cs[i] = later[i - Len(prior)] /\ right[i] = Answered(later)[i - Len(prior)]
      BY <1>1, <1>2, <2>2
    <3> QED
      BY <1>3, <3>2, <3>3
  <2> QED
    BY <2>1, <2>2
<1>5. Answered(cs) = right
  BY <1>2, <1>3, <1>4, SeqEqual
<1> QED
  BY <1>5 DEF cs, right

LEMMA RequestsTyped ==
  ASSUME TypeOK
  PROVE  /\ Requests(applying) \in Seq(Asked) /\ Requests(pending) \in Seq(Asked)
         /\ Requests(pending) = Overtaken
<1>1. Requests(pending) = Overtaken
  BY DEF Requests, Overtaken
<1>2. Requests(applying) \in Seq(Asked)
  <2>1. CASE applying = None
    BY <2>1, EmptySeq DEF Requests
  <2>2. CASE applying # None
    <3>1. applying.coalesced \in Seq(Asked) /\ applying.req \in Asked
      BY <2>2 DEF TypeOK, Apply
    <3> QED
      BY <2>2, <3>1, AppendProperties DEF Requests
  <2> QED
    BY <2>1, <2>2
<1> QED
  BY <1>1, <1>2, OvertakenTyped

\* What the apply task answers is what it was given.
LEMMA OutcomesName ==
  ASSUME TypeOK, applying # None, NEW ok \in BOOLEAN
  PROVE  Answered(Outcomes(ok)) = Names(Requests(applying))
<1> DEFINE old == applying.coalesced
           out == Outcomes(ok)
           rs == Requests(applying)
<1>1. /\ out \in Seq(Answer) /\ old \in Seq(Asked) /\ applying.req \in Asked
      /\ Len(out) = Len(old) + 1
      /\ \A i \in 1..Len(old) : out[i] = [req |-> old[i], ok |-> ok, coalesced |-> TRUE]
      /\ out[Len(old) + 1] = [req |-> applying.req, ok |-> ok, coalesced |-> FALSE]
  BY OutcomesTyped DEF Answer
<1>2. rs = Append(old, applying.req)
  BY DEF Requests
<1> HIDE DEF old, out, rs
<1>3. /\ rs \in Seq(Asked) /\ Len(rs) = Len(old) + 1 /\ Len(old) \in Nat
      /\ \A i \in 1..Len(old) : rs[i] = old[i]
      /\ rs[Len(old) + 1] = applying.req
  BY <1>1, <1>2, AppendProperties, LenProperties
<1>4. \A i \in 1..Len(old) + 1 : out[i].req = rs[i]
  <2> SUFFICES ASSUME NEW i \in 1..Len(old) + 1 PROVE out[i].req = rs[i]
    OBVIOUS
  <2>1. CASE i \in 1..Len(old)
    <3>1. out[i] = [req |-> old[i], ok |-> ok, coalesced |-> TRUE]
      BY <1>1, <2>1
    <3> QED
      BY <1>3, <2>1, <3>1
  <2>2. CASE i = Len(old) + 1
    <3>1. out[i].req = applying.req
      BY <1>1, <2>2
    <3> QED
      BY <1>3, <2>2, <3>1
  <2> QED
    BY <1>3, <2>1, <2>2
<1>5. \A i \in 1..Len(old) + 1 : Answered(out)[i] = Names(rs)[i]
  <2>1. \A i \in 1..Len(old) + 1 : Answered(out)[i] = <<out[i].req.sid, out[i].req.seq>>
    BY <1>1, AnsweredOf
  <2>2. \A i \in 1..Len(old) + 1 : Names(rs)[i] = <<rs[i].sid, rs[i].seq>>
    BY <1>3, NamesOf
  <2> QED
    BY <1>4, <2>1, <2>2
<1>6. Answered(out) = Names(rs)
  <2>1. /\ Answered(out) \in Seq(Name) /\ Len(Answered(out)) = Len(old) + 1
        /\ Names(rs) \in Seq(Name) /\ Len(Names(rs)) = Len(old) + 1
    BY <1>1, <1>3, AnsweredOf, NamesOf
  <2> QED
    BY <1>5, <2>1, SeqEqual
<1> QED
  BY <1>6 DEF out, rs

LEMMA NoNames == Names(<<>>) = <<>> /\ Answered(<<>>) = <<>>
<1>1. <<>> \in Seq(Asked) /\ <<>> \in Seq(Answer) /\ Len(<<>>) = 0
  BY EmptySeq
<1>2. /\ Names(<<>>) \in Seq(Name) /\ Len(Names(<<>>)) = 0
      /\ Answered(<<>>) \in Seq(Name) /\ Len(Answered(<<>>)) = 0
  BY <1>1, NamesOf, AnsweredOf
<1> QED
  BY <1>2, EmptySeq

\* The parts of AnsweredOnceInOrder are sequences.
LEMMA PartsTyped ==
  ASSUME TypeOK
  PROVE  /\ Answered(answers) \in Seq(Name)
         /\ Names(Requests(applying)) \in Seq(Name)
         /\ Names(Requests(pending)) \in Seq(Name)
         /\ AnsweredOnceInOrder <=>
              accepted = Answered(answers) \o Names(Requests(applying))
                           \o Names(Requests(pending))
BY RequestsTyped, NamesOf, AnsweredOf DEF TypeOK, Answer, Answered, AnsweredOnceInOrder

\* Every answer is given by Concludes.
LEMMA ConcludesInOrder ==
  ASSUME TypeOK, AnsweredOnceInOrder, applying # None, NEW ok \in BOOLEAN, Concludes(ok)
  PROVE  AnsweredOnceInOrder'
<1> DEFINE A == Answered(answers)
           B == Names(Requests(applying))
           C == Names(Requests(pending))
<1>1. /\ A \in Seq(Name) /\ B \in Seq(Name) /\ C \in Seq(Name)
      /\ accepted = A \o B \o C
  BY PartsTyped
<1>2. Answered(answers') = A \o B
  BY OutcomesTyped, OutcomesName, AnsweredConcat DEF Concludes, TypeOK, Answer
<1>3. Names(Requests(applying'))= <<>> /\ Names(Requests(pending')) = C
  BY NoNames DEF Concludes, Requests
<1>4. accepted' = accepted
  BY DEF Concludes
<1>5. AnsweredOnceInOrder' <=>
        accepted' = Answered(answers') \o Names(Requests(applying'))
                      \o Names(Requests(pending'))
  BY DEF AnsweredOnceInOrder, Answered
<1> HIDE DEF A, B, C
<1>6. A \o B \in Seq(Name)
  BY <1>1, ConcatProperties
<1>7. (A \o B) \o <<>> = A \o B
  BY <1>6, ConcatEmptySeq
<1> QED
  BY <1>1, <1>2, <1>3, <1>4, <1>5, <1>7

\* A replace that is accepted is the last one to be answered.
LEMMA AcceptedInOrder ==
  ASSUME TypeOK, AnsweredOnceInOrder, NEW c \in Clients, OnTextReplace(c)
  PROVE  AnsweredOnceInOrder'
<1> DEFINE A == Answered(answers)
           B == Names(Requests(applying))
           C == Names(Requests(pending))
           n == <<active.sid, NextSeq(c)>>
<1>1. /\ A \in Seq(Name) /\ B \in Seq(Name) /\ C \in Seq(Name)
      /\ accepted = A \o B \o C
  BY PartsTyped
<1>2. PICK doc \in Longer(c) \cup {editor[c].doc} \cup Shorter(c) :
        pending' = [req |-> [sid |-> active.sid, seq |-> NextSeq(c), text |-> doc],
                    coalesced |-> Overtaken, quiet |-> FALSE]
  BY DEF OnTextReplace
<1> DEFINE req == [sid |-> active.sid, seq |-> NextSeq(c), text |-> doc]
<1>3. req \in Asked
  BY AskedTyped DEF OnTextReplace
<1>4. n \in Name /\ n = <<req.sid, req.seq>>
  BY <1>3 DEF Asked, Name
<1>5. pending' # None /\ Requests(pending') = Append(Overtaken, req)
  <2>1. pending' \in Pending
    BY <1>2, <1>3, OvertakenTyped DEF Pending
  <2> QED
    BY <1>2, <2>1, NothingAssumption DEF Requests
<1>6. Names(Requests(pending')) = Append(C, n)
  BY <1>3, <1>4, <1>5, RequestsTyped, OvertakenTyped, NamesAppend
<1>7. accepted' = Append(accepted, n) /\ UNCHANGED <<applying, answers>>
  BY DEF OnTextReplace
<1>8. AnsweredOnceInOrder' <=> accepted' = A \o B \o Names(Requests(pending'))
  BY <1>7 DEF AnsweredOnceInOrder, Answered
<1> HIDE DEF A, B, C, n
<1>9. A \o B \in Seq(Name) /\ A \o B \o C \in Seq(Name) /\ <<n>> \in Seq(Name)
  BY <1>1, <1>4, ConcatProperties
<1>10. /\ Append(A \o B \o C, n) = (A \o B \o C) \o <<n>>
       /\ Append(C, n) = C \o <<n>>
  BY <1>1, <1>4, <1>9, AppendIsConcat
<1>11. ((A \o B) \o C) \o <<n>> = (A \o B) \o (C \o <<n>>)
  BY <1>1, <1>9, ConcatAssociative
<1> QED
  BY <1>1, <1>6, <1>7, <1>8, <1>10, <1>11

\* The pending requests become those of the apply task.
LEMMA TimerInOrder ==
  ASSUME TypeOK, AnsweredOnceInOrder, TimerFires
  PROVE  AnsweredOnceInOrder'
<1> DEFINE A == Answered(answers)
           B == Names(Requests(applying))
           C == Names(Requests(pending))
<1>1. /\ A \in Seq(Name) /\ B \in Seq(Name) /\ C \in Seq(Name)
      /\ accepted = A \o B \o C
  BY PartsTyped
<1>2. UNCHANGED <<accepted, answers>>
  BY DEF TimerFires
<1>3. CASE UNCHANGED <<pending, applying>>
  BY <1>2, <1>3 DEF AnsweredOnceInOrder
<1>4. CASE /\ applying = None /\ pending # None /\ pending' = None
           /\ applying' = [req |-> pending.req, coalesced |-> pending.coalesced,
                           suffix |-> <<>>, stage |-> "created"]
  <2>1. B = <<>>
    BY <1>4, NoNames DEF Requests
  <2>2. Names(Requests(pending')) = <<>>
    BY <1>4, NoNames DEF Requests
  <2>3. Names(Requests(applying')) = C
    <3>1. pending.req \in Asked /\ pending.coalesced \in Seq(Asked) /\ <<>> \in Doc
      BY <1>4, EmptySeq DEF TypeOK, Pending, Doc
    <3>2. applying' \in Apply
      BY <1>4, <3>1 DEF Apply
    <3>3. applying' # None
      BY <3>2, NothingAssumption
    <3> QED
      BY <1>4, <3>3 DEF Requests
  <2>4. AnsweredOnceInOrder' <=>
          accepted = A \o Names(Requests(applying')) \o Names(Requests(pending'))
    BY <1>2 DEF AnsweredOnceInOrder, Answered
  <2> HIDE DEF A, B, C
  <2>5. A \o C \in Seq(Name)
    BY <1>1, ConcatProperties
  <2>6. A \o <<>> = A /\ (A \o C) \o <<>> = A \o C
    BY <1>1, <2>5, ConcatEmptySeq
  <2> QED
    BY <1>1, <2>1, <2>2, <2>3, <2>4, <2>6
<1> QED
  BY <1>3, <1>4 DEF TimerFires

LEMMA InOrderStays ==
  ASSUME AnsweredOnceInOrder, UNCHANGED <<accepted, answers>>,
         Requests(applying') = Requests(applying), Requests(pending') = Requests(pending)
  PROVE  AnsweredOnceInOrder'
BY DEF AnsweredOnceInOrder

LEMMA NextInOrder ==
  ASSUME TypesInv, AnsweredOnceInOrder, [Next]_vars
  PROVE  AnsweredOnceInOrder'
<1> USE DEF TypesInv
<1>1. ASSUME NEW c \in Clients, OnTextReplace(c)
      PROVE  AnsweredOnceInOrder'
  BY <1>1, AcceptedInOrder
<1>2. CASE TimerFires
  BY <1>2, TimerInOrder
<1>3. CASE RefuseApply \/ ApplyNothing
  BY <1>3, ConcludesInOrder DEF RefuseApply, ApplyNothing, Created
<1>4. CASE EndApply
  BY <1>4, EndApplyFinds, ConcludesInOrder DEF EndApply
<1>5. CASE QuietWindowEnds
  <2>1. pending \in Pending /\ pending # None /\ pending' \in Pending
    BY <1>5 DEF QuietWindowEnds, TypeOK, Pending
  <2>2. Requests(pending') = Requests(pending)
    BY <1>5, <2>1, NothingAssumption DEF QuietWindowEnds, Requests, Pending
  <2> QED
    BY <1>5, <2>2, InOrderStays DEF QuietWindowEnds
<1>6. CASE ApplySuffix
  <2>1. /\ applying \in Apply /\ applying # None
        /\ applying' = [applying EXCEPT !.stage = "typing", !.suffix = Suffix]
    BY <1>6 DEF ApplySuffix, Created, TypeOK
  <2>2. applying' \in Apply
    BY <1>6, <2>1, SuffixMeans DEF ApplySuffix, Created, Apply
  <2>3. Requests(applying') = Requests(applying)
    BY <2>1, <2>2, NothingAssumption DEF Requests, Apply
  <2> QED
    BY <1>6, <2>3, InOrderStays DEF ApplySuffix
<1>7. CASE RunWorker
  <2>1. Requests(applying') = Requests(applying)
    <3>1. CASE Head(worker) # None
      BY <1>7, <3>1, RunMeans
    <3>2. CASE Head(worker) = None
      <4>1. applying' \in Apply /\ \E stage : applying' = [applying EXCEPT !.stage = stage]
        BY <1>7, <3>2, RunMeans
      <4>2. applying \in Apply /\ applying # None
        BY <1>7, <3>2, RunMeans, WaiterFinds
      <4> QED
        BY <4>1, <4>2, NothingAssumption DEF Requests, Apply
    <3> QED
      BY <3>1, <3>2
  <2> QED
    BY <1>7, <2>1, InOrderStays DEF RunWorker
<1>8. ASSUME NEW c \in Clients, OnAuth(c) \/ OnTextInsert(c) \/ Refuse(c) \/ EndInsert(c)
      PROVE  AnsweredOnceInOrder'
  BY <1>8, InOrderStays DEF OnAuth, OnTextInsert, Refuse, EndInsert, replaceVars
<1>9. CASE SessionTimesOut \/ UNCHANGED vars
  BY <1>9, InOrderStays DEF SessionTimesOut, replaceVars, vars
<1> QED
  BY <1>1, <1>2, <1>3, <1>4, <1>5, <1>6, <1>7, <1>8, <1>9 DEF Next, HostWorks

\* _on_text_replace, _try_start_replace_apply and _apply_replace_request: what
\* has been answered, then what the apply task will answer, then what is
\* pending, is what was accepted, in that order and each once.
THEOREM ReplacesAnsweredInOrder == Spec => []AnsweredOnceInOrder
<1>1. ReplaceInit => AnsweredOnceInOrder
  <2> SUFFICES ASSUME ReplaceInit PROVE AnsweredOnceInOrder
    OBVIOUS
  <2>1. Requests(applying) = <<>> /\ Requests(pending) = <<>> /\ answers = <<>>
    BY DEF ReplaceInit, Requests
  <2>2. Answered(answers) = <<>>
    BY <2>1, NoNames
  <2> QED
    BY <2>1, <2>2, NoNames DEF AnsweredOnceInOrder, Answered, ReplaceInit
<1>2. TypesInv /\ AnsweredOnceInOrder /\ [Next]_vars => AnsweredOnceInOrder'
  BY NextInOrder
<1> QED
  BY <1>1, <1>2, SpecTypes, PTL DEF Spec

-----------------------------------------------------------------------------
(* What the host believes to have shown.                                   *)

IsTyped(piece, sid, h) == \E i \in DOMAIN h : h[i][1] = sid /\ h[i][2] = piece
AllTyped(doc, sid, h)  == \A i \in DOMAIN doc : IsTyped(doc[i], sid, h)

SnapshotTyped == active # None => AllTyped(active.snapshot, active.sid, typed)

InsertsTyped ==
  \A c \in Clients :
    inserting[c] # None /\ inserting[c].stage = "typed" =>
      IsTyped(inserting[c].text, inserting[c].sid, typed)

\* While the worker is at it, the suffix is what the request still lacks.
SuffixRemains ==
  applying # None /\ applying.stage = "typing" =>
    \A i \in DOMAIN applying.req.text :
      \/ IsTyped(applying.req.text[i], applying.req.sid, typed)
      \/ \E j \in DOMAIN applying.suffix : applying.suffix[j] = applying.req.text[i]

RequestTyped ==
  applying # None /\ applying.stage = "typed" =>
    AllTyped(applying.req.text, applying.req.sid, typed)

AnswersTyped ==
  \A i \in DOMAIN answers :
    answers[i].ok /\ ~answers[i].coalesced =>
      AllTyped(answers[i].req.text, answers[i].req.sid, typed)

ShownInv == SnapshotTyped /\ InsertsTyped /\ SuffixRemains /\ RequestTyped /\ AnswersTyped

LEMMA ShownInvMeans == ShownInv => ShownIsTyped
<1> SUFFICES ASSUME ShownInv PROVE ShownIsTyped
  OBVIOUS
<1>1. ASSUME NEW doc, NEW sid, AllTyped(doc, sid, typed)
      PROVE  Range(doc) \subseteq TypedIn(sid)
  BY <1>1 DEF AllTyped, IsTyped, Range, TypedIn
<1>2. active # None => Range(active.snapshot) \subseteq TypedIn(active.sid)
  BY <1>1 DEF ShownInv, SnapshotTyped
<1>3. \A i \in DOMAIN answers :
        answers[i].ok /\ ~answers[i].coalesced =>
          Range(answers[i].req.text) \subseteq TypedIn(answers[i].req.sid)
  BY <1>1 DEF ShownInv, AnswersTyped
<1> QED
  BY <1>2, <1>3 DEF ShownIsTyped

\* Steps by which the host comes to believe nothing new.
LEMMA ShownStays ==
  ASSUME ShownInv, UNCHANGED <<typed, answers>>,
         active' # None =>
           \/ active'.snapshot = <<>>
           \/ /\ active # None /\ active'.sid = active.sid
              /\ active'.snapshot = active.snapshot,
         \A c \in Clients :
           \/ inserting'[c] = inserting[c] \/ inserting'[c] = None
           \/ inserting'[c].stage # "typed",
         \/ applying' = applying \/ applying' = None
         \/ applying'.stage \notin {"typing", "typed"}
  PROVE  ShownInv'
<1> USE DEF ShownInv
<1>1. DOMAIN <<>> = {}
  OBVIOUS
<1>2. SnapshotTyped'
  BY <1>1 DEF SnapshotTyped, AllTyped
<1>3. InsertsTyped'
  BY DEF InsertsTyped
<1>4. SuffixRemains' /\ RequestTyped'
  BY DEF SuffixRemains, RequestTyped
<1>5. AnswersTyped'
  BY DEF AnswersTyped
<1> QED
  BY <1>2, <1>3, <1>4, <1>5

\* Of the answers given at once, only the last one says that its own text has
\* been typed.
LEMMA ConcludesTruly ==
  ASSUME TypeOK, AnswersTyped, applying # None, NEW ok \in BOOLEAN, Concludes(ok),
         ok => AllTyped(applying.req.text, applying.req.sid, typed), typed' = typed
  PROVE  AnswersTyped'
<1> DEFINE out == Outcomes(ok)
           old == applying.coalesced
           last == [req |-> applying.req, ok |-> ok, coalesced |-> FALSE]
<1>1. /\ out \in Seq(Answer) /\ old \in Seq(Asked) /\ Len(out) = Len(old) + 1
      /\ \A i \in 1..Len(old) : out[i] = [req |-> old[i], ok |-> ok, coalesced |-> TRUE]
      /\ out[Len(old) + 1] = last
  BY OutcomesTyped DEF Answer
<1>2. answers \in Seq(Answer) /\ answers' = answers \o out
  BY DEF TypeOK, Answer, Concludes
<1> HIDE DEF out, old
<1>3. \A i \in DOMAIN out : out[i].coalesced \/ out[i] = last
  <2>1. DOMAIN out = 1..Len(old) + 1 /\ Len(old) \in Nat
    BY <1>1, LenProperties
  <2>2. \A i \in DOMAIN out : i \in 1..Len(old) \/ i = Len(old) + 1
    BY <2>1
  <2>3. \A i \in 1..Len(old) : out[i].coalesced
    <3> SUFFICES ASSUME NEW i \in 1..Len(old) PROVE out[i].coalesced
      OBVIOUS
    <3>1. out[i] = [req |-> old[i], ok |-> ok, coalesced |-> TRUE]
      BY <1>1
    <3>2. [req |-> old[i], ok |-> ok, coalesced |-> TRUE].coalesced
      OBVIOUS
    <3> QED
      BY <3>1, <3>2, Zenon
  <2> QED
    BY <1>1, <2>2, <2>3
<1>4. \A i \in DOMAIN answers' :
        \/ i \in DOMAIN answers /\ answers'[i] = answers[i]
        \/ \E j \in DOMAIN out : answers'[i] = out[j]
  BY <1>1, <1>2, Joining
<1>5. last.ok = ok /\ last.req = applying.req
  OBVIOUS
<1> HIDE DEF last
<1> QED
  BY <1>3, <1>4, <1>5 DEF AnswersTyped

LEMMA AtOnceShown ==
  ASSUME TypesInv, ShownInv, RefuseApply \/ ApplyNothing
  PROVE  ShownInv'
<1> USE DEF TypesInv, ShownInv
<1>1. applying # None /\ UNCHANGED <<sessionVars, inserting, workVars>>
  BY DEF RefuseApply, ApplyNothing, Created
<1>2. AnswersTyped' /\ applying' = None
  <2>1. CASE RefuseApply
    BY <1>1, <2>1, ConcludesTruly DEF RefuseApply, workVars, Concludes
  <2>2. CASE ApplyNothing
    <3>1. AllTyped(applying.req.text, applying.req.sid, typed)
      <4>1. Appends /\ Suffix = <<>>
        BY <2>2 DEF ApplyNothing
      <4>2. \A i \in DOMAIN applying.req.text :
              i \in DOMAIN active.snapshot /\ applying.req.text[i] = active.snapshot[i]
        BY <1>1, <4>1, SuffixMeans
      <4> QED
        BY <1>1, <4>1, <4>2, SuffixMeans DEF SnapshotTyped, AllTyped
    <3> QED
      BY <1>1, <2>2, <3>1, ConcludesTruly DEF ApplyNothing, workVars, Concludes
  <2> QED
    BY <2>1, <2>2
<1> QED
  BY <1>1, <1>2
     DEF sessionVars, workVars, SnapshotTyped, InsertsTyped, SuffixRemains, RequestTyped

LEMMA ApplySuffixShown ==
  ASSUME TypesInv, ShownInv, ApplySuffix
  PROVE  ShownInv'
<1> USE DEF TypesInv, ShownInv
<1>1. /\ applying # None /\ applying \in Apply /\ Appends
      /\ applying' = [applying EXCEPT !.stage = "typing", !.suffix = Suffix]
      /\ UNCHANGED <<sessionVars, inserting, typed, answers>>
  BY DEF ApplySuffix, Created, TypeOK
<1>2. /\ applying'.req = applying.req /\ applying'.suffix = Suffix
      /\ applying'.stage = "typing"
  BY <1>1 DEF Apply
<1>3. SuffixRemains'
  <2> SUFFICES ASSUME NEW i \in DOMAIN applying.req.text
               PROVE  \/ IsTyped(applying.req.text[i], applying.req.sid, typed)
                      \/ \E j \in DOMAIN Suffix : Suffix[j] = applying.req.text[i]
    BY <1>1, <1>2 DEF SuffixRemains
  <2>1. CASE i \in DOMAIN active.snapshot
    BY <1>1, <2>1, SuffixMeans DEF SnapshotTyped, AllTyped
  <2>2. CASE \E j \in DOMAIN Suffix : i = Len(active.snapshot) + j
    BY <1>1, <2>2, SuffixMeans
  <2> QED
    BY <1>1, <2>1, <2>2, SuffixMeans
<1> QED
  BY <1>1, <1>2, <1>3
     DEF sessionVars, SnapshotTyped, InsertsTyped, RequestTyped, AnswersTyped

LEMMA RunShown ==
  ASSUME TypesInv, ShownInv, RunWorker
  PROVE  ShownInv'
<1> USE DEF TypesInv, ShownInv
<1> DEFINE w == Head(worker)
           new == Entries(w)
<1>1. /\ w \in Waiter /\ Stage[w] = "typing" /\ Stage'[w] \in {"typed", "failed"}
      /\ typed' = IF Stage'[w] = "failed" THEN typed ELSE typed \o new
      /\ w = None => /\ applying' = [applying EXCEPT !.stage = Stage'[w]]
                     /\ inserting' = inserting
      /\ w # None => /\ inserting' = [inserting EXCEPT ![w].stage = Stage'[w]]
                     /\ applying' = applying
  BY RunMeans
<1>2. /\ w = None => applying # None /\ applying \in Apply /\ Stage[w] = applying.stage
      /\ w # None => w \in Clients /\ inserting[w] # None /\ inserting[w] \in Insert
  BY <1>1, WaiterFinds
<1>3. /\ new \in Seq(SessionIds \X Texts \X Waiter)
      /\ DOMAIN new = DOMAIN Job(w).text
      /\ \A i \in DOMAIN Job(w).text : new[i] = <<Job(w).sid, Job(w).text[i], w>>
  BY <1>1, EntriesTyped
<1>4. UNCHANGED <<active, answers>>
  BY DEF RunWorker, sessionVars
<1> HIDE DEF w, new
<1>5. \A i \in DOMAIN typed : i \in DOMAIN typed' /\ typed'[i] = typed[i]
  BY <1>1, <1>3, Joining DEF TypeOK
<1>6. \A piece, sid : IsTyped(piece, sid, typed) => IsTyped(piece, sid, typed')
  BY <1>5 DEF IsTyped
<1>7. Stage'[w] = "typed" =>
        \A i \in DOMAIN Job(w).text : IsTyped(Job(w).text[i], Job(w).sid, typed')
  <2> SUFFICES ASSUME Stage'[w] = "typed", NEW i \in DOMAIN Job(w).text
               PROVE  IsTyped(Job(w).text[i], Job(w).sid, typed')
    OBVIOUS
  <2>1. typed' = typed \o new
    BY <1>1
  <2>2. Len(typed) + i \in DOMAIN typed' /\ typed'[Len(typed) + i] = new[i]
    BY <1>3, <2>1, Joining DEF TypeOK
  <2>3. new[i][1] = Job(w).sid /\ new[i][2] = Job(w).text[i]
    BY <1>3
  <2> QED
    BY <2>2, <2>3 DEF IsTyped
<1>8. SnapshotTyped' /\ AnswersTyped'
  BY <1>4, <1>6 DEF SnapshotTyped, AnswersTyped, AllTyped
<1>9. CASE w = None
  <2>1. /\ applying'.req = applying.req /\ applying'.stage = Stage'[w]
        /\ applying.stage = "typing"
        /\ Job(w).sid = applying.req.sid /\ Job(w).text = applying.suffix
    BY <1>1, <1>2, <1>9 DEF Apply, Job
  <2>2. SuffixRemains'
    BY <1>1, <2>1 DEF SuffixRemains
  <2>3. RequestTyped'
    BY <1>2, <1>6, <1>7, <1>9, <2>1 DEF RequestTyped, SuffixRemains, AllTyped
  <2>4. InsertsTyped'
    BY <1>1, <1>6, <1>9 DEF InsertsTyped
  <2> QED
    BY <1>8, <2>2, <2>3, <2>4
<1>10. CASE w # None
  <2>1. SuffixRemains' /\ RequestTyped'
    BY <1>1, <1>6, <1>10 DEF SuffixRemains, RequestTyped, AllTyped
  <2>2. InsertsTyped'
    <3> SUFFICES ASSUME NEW c \in Clients, inserting'[c] # None,
                        inserting'[c].stage = "typed"
                 PROVE  IsTyped(inserting'[c].text, inserting'[c].sid, typed')
      BY DEF InsertsTyped
    <3>1. CASE c # w
      <4>1. inserting'[c] = inserting[c]
        BY <1>1, <1>10, <3>1 DEF TypeOK
      <4> QED
        BY <1>6, <4>1 DEF InsertsTyped
    <3>2. CASE c = w
      <4>1. /\ inserting'[w].text = inserting[w].text
            /\ inserting'[w].sid = inserting[w].sid
            /\ inserting'[w].stage = Stage'[w]
        BY <1>1, <1>2, <1>10 DEF TypeOK, Insert
      <4>2. /\ Job(w).sid = inserting[w].sid /\ Job(w).text = <<inserting[w].text>>
        BY <1>10 DEF Job
      <4>3. 1 \in DOMAIN Job(w).text /\ Job(w).text[1] = inserting[w].text
        BY <4>2
      <4> QED
        BY <1>7, <3>2, <4>1, <4>2, <4>3
    <3> QED
      BY <3>1, <3>2
  <2> QED
    BY <1>8, <2>1, <2>2
<1> QED
  BY <1>9, <1>10

LEMMA EndInsertShown ==
  ASSUME TypesInv, ShownInv, NEW c \in Clients, EndInsert(c)
  PROVE  ShownInv'
<1> USE DEF TypesInv, ShownInv
<1>1. /\ UNCHANGED <<typed, answers, applying>>
      /\ inserting' = [inserting EXCEPT ![c] = None]
  BY DEF EndInsert, replaceVars
<1>2. inserting[c] # None /\ inserting[c] \in Insert
  <2>1. done # <<>> /\ Head(done) = c
    BY DEF EndInsert, Resumes
  <2>2. c \in Waiter /\ c # None /\ Stage[c] \in {"typed", "failed"}
    BY <2>1, WaiterTypes, TailOf, NoneAssumption DEF WorkInv, Waiter
  <2> QED
    BY <2>2, WaiterFinds
<1>3. SnapshotTyped'
  <2>1. CASE ~(inserting[c].stage = "typed" /\ Valid(inserting[c].sid))
    BY <1>1, <2>1 DEF EndInsert, SnapshotTyped
  <2>2. CASE inserting[c].stage = "typed" /\ Valid(inserting[c].sid)
    <3>1. /\ active # None /\ active.sid = inserting[c].sid /\ active \in Session
          /\ active' = Grown(active, inserting[c].text) /\ inserting[c].text \in Texts
      BY <1>2, <2>2, SessionFields DEF EndInsert, Valid, Insert
    <3>2. /\ active'.sid = active.sid
          /\ active'.snapshot = Append(active.snapshot, inserting[c].text)
      BY <3>1, GrownTyped
    <3>3. IsTyped(inserting[c].text, active.sid, typed)
      BY <1>2, <2>2, <3>1 DEF InsertsTyped
    <3>4. \A i \in DOMAIN active'.snapshot :
            \/ i \in DOMAIN active.snapshot /\ active'.snapshot[i] = active.snapshot[i]
            \/ active'.snapshot[i] = inserting[c].text
      BY <3>1, <3>2, SessionFields, Appending DEF Doc
    <3> QED
      BY <1>1, <3>1, <3>2, <3>3, <3>4 DEF SnapshotTyped, AllTyped
  <2> QED
    BY <2>1, <2>2
<1>4. InsertsTyped'
  BY <1>1 DEF InsertsTyped, TypeOK
<1> QED
  BY <1>1, <1>3, <1>4 DEF SuffixRemains, RequestTyped, AnswersTyped

LEMMA EndApplyShown ==
  ASSUME TypesInv, ShownInv, EndApply
  PROVE  ShownInv'
<1> USE DEF TypesInv, ShownInv
<1>1. /\ applying # None /\ applying' = None /\ UNCHANGED <<typed, inserting>>
      /\ applying.stage = "typed" => AllTyped(applying.req.text, applying.req.sid, typed)
  BY EndApplyFinds DEF EndApply, Concludes, RequestTyped
<1>2. AnswersTyped'
  BY <1>1, ConcludesTruly DEF EndApply
<1>3. SnapshotTyped'
  <2>1. CASE ~(applying.stage = "typed" /\ Valid(applying.req.sid))
    BY <1>1, <2>1 DEF EndApply, SnapshotTyped
  <2>2. CASE applying.stage = "typed" /\ Valid(applying.req.sid)
    <3>1. /\ active' = [active EXCEPT !.snapshot = applying.req.text]
          /\ active \in Session /\ active.sid = applying.req.sid
      BY <2>2, SessionFields DEF EndApply, Valid
    <3>2. active'.snapshot = applying.req.text /\ active'.sid = applying.req.sid
      BY <3>1 DEF Session
    <3> QED
      BY <1>1, <2>2, <3>2 DEF SnapshotTyped
  <2> QED
    BY <2>1, <2>2
<1> QED
  BY <1>1, <1>2, <1>3 DEF InsertsTyped, SuffixRemains, RequestTyped

LEMMA NextShown ==
  ASSUME TypesInv, ShownInv, [Next]_vars
  PROVE  ShownInv'
<1> USE DEF TypesInv
<1>1. ASSUME NEW c \in Clients, OnAuth(c)
      PROVE  ShownInv'
  <2>1. active'.snapshot = <<>>
    BY <1>1, NewSessionTyped DEF OnAuth, Authenticate
  <2> QED
    BY <1>1, <2>1, ShownStays DEF OnAuth, replaceVars, workVars
<1>2. ASSUME NEW c \in Clients, OnTextReplace(c) \/ OnTextInsert(c)
      PROVE  ShownInv'
  <2>1. /\ active # None /\ active' = Advanced(active, NextSeq(c))
        /\ NextSeq(c) \in Seqs /\ active \in Session
    BY <1>2, SessionFields DEF OnTextReplace, OnTextInsert, Valid, CanSend
  <2>2. active'.sid = active.sid /\ active'.snapshot = active.snapshot
    BY <2>1, AdvancedTyped
  <2>3. \A d \in Clients : \/ inserting'[d] = inserting[d]
                           \/ inserting'[d].stage # "typed"
    <3>1. CASE OnTextReplace(c)
      BY <3>1 DEF OnTextReplace
    <3>2. CASE OnTextInsert(c)
      <4>1. PICK text : inserting' = [inserting EXCEPT ![c] =
                          [sid |-> active.sid, text |-> text, stage |-> "typing"]]
        BY <3>2 DEF OnTextInsert
      <4>2. inserting'[c].stage = "typing" /\ \A d \in Clients \ {c} : inserting'[d] = inserting[d]
        BY <4>1 DEF TypeOK
      <4> QED
        BY <4>2
    <3> QED
      BY <1>2, <3>1, <3>2
  <2> QED
    BY <1>2, <2>1, <2>2, <2>3, ShownStays
       DEF OnTextReplace, OnTextInsert, replaceVars, workVars
<1>3. ASSUME NEW c \in Clients, Refuse(c)
      PROVE  ShownInv'
  BY <1>3, ShownStays DEF Refuse, sessionVars, replaceVars, workVars
<1>4. CASE QuietWindowEnds
  BY <1>4, ShownStays DEF QuietWindowEnds, sessionVars, workVars
<1>5. CASE TimerFires
  <2>1. applying' = applying \/ applying'.stage \notin {"typing", "typed"}
    BY <1>5 DEF TimerFires
  <2> QED
    BY <1>5, <2>1, ShownStays DEF TimerFires, sessionVars, workVars
<1>6. CASE SessionTimesOut
  <2>1. active' # None => /\ active # None /\ active'.sid = active.sid
                          /\ active'.snapshot = active.snapshot
    BY <1>6, SessionFields DEF SessionTimesOut, Quieten, DropQuietSession, Session
  <2> QED
    BY <1>6, <2>1, ShownStays DEF SessionTimesOut, replaceVars, workVars
<1>7. CASE UNCHANGED vars
  BY <1>7, ShownStays DEF vars, sessionVars, replaceVars, workVars
<1>8. CASE HostWorks
  BY <1>4, <1>5, <1>8, AtOnceShown, ApplySuffixShown, EndApplyShown, RunShown,
     EndInsertShown DEF HostWorks
<1> QED
  BY <1>1, <1>2, <1>3, <1>6, <1>7, <1>8 DEF Next

\* _apply_replace_request and _on_text_insert: neither the session's
\* applied_snapshot nor a successful answer to the request that was applied
\* ever holds a piece that the injector has not typed in that session.
THEOREM SnapshotIsTyped == Spec => []ShownIsTyped
<1>1. ReplaceInit => ShownInv
  <2>1. DOMAIN <<>> = {}
    OBVIOUS
  <2> QED
    BY <2>1 DEF ReplaceInit, SessionInit, ShownInv, SnapshotTyped, InsertsTyped,
                SuffixRemains, RequestTyped, AnswersTyped
<1>2. TypesInv /\ ShownInv /\ [Next]_vars => ShownInv'
  BY NextShown
<1> QED
  BY <1>1, <1>2, SpecTypes, ShownInvMeans, PTL DEF Spec

-----------------------------------------------------------------------------
(* No snapshot is typed twice.                                             *)

\* A session that has typed anything has been issued before.
Issued ==
  /\ active # None => active.sid < nextSession
  /\ pending # None => pending.req.sid < nextSession
  /\ applying # None => applying.req.sid < nextSession
  /\ \A c \in Clients : inserting[c] # None => inserting[c].sid < nextSession
  /\ \A i \in DOMAIN typed : typed[i][1] < nextSession

\* A client types each piece once, so no document holds one twice.
DocsDistinct ==
  /\ \A c \in Clients :
       /\ Distinct(editor[c].doc)
       /\ \A i \in DOMAIN editor[c].doc :
            editor[c].doc[i][1] = c /\ editor[c].doc[i][2] <= editor[c].pieces
  /\ pending # None => Distinct(pending.req.text)
  /\ applying # None => Distinct(applying.req.text)

In(piece, doc) == \E i \in DOMAIN doc : doc[i] = piece

\* The document has whatever a replace typed in the session.
Covers(doc, sid, h) ==
  \A i \in DOMAIN h : h[i][1] = sid /\ h[i][3] = None => In(h[i][2], doc)

\* The suffix has been typed, and the snapshot not been set.
Behind ==
  applying # None /\ applying.stage = "typed" /\ applying.req.sid = active.sid

SnapshotCovers ==
  active # None /\ ~Behind => Covers(active.snapshot, active.sid, typed)

RequestCovers ==
  applying # None /\ applying.stage \in {"typing", "typed"} =>
    Covers(applying.req.text, applying.req.sid, typed)

SuffixIsNew ==
  applying # None /\ applying.stage = "typing" =>
    /\ Distinct(applying.suffix)
    /\ \A j \in DOMAIN applying.suffix :
         /\ In(applying.suffix[j], applying.req.text)
         /\ \A i \in DOMAIN typed :
              typed[i][1] = applying.req.sid /\ typed[i][3] = None =>
                typed[i][2] # applying.suffix[j]

OnceInv ==
  /\ Issued /\ DocsDistinct /\ SnapshotCovers /\ RequestCovers /\ SuffixIsNew
  /\ ReplaceNeverRetypes

LEMMA SidNumbers ==
  ASSUME TypeOK
  PROVE  /\ nextSession \in Nat
         /\ active # None => active.sid \in Nat
         /\ pending # None => pending.req.sid \in Nat
         /\ applying # None => applying.req.sid \in Nat
         /\ \A c \in Clients : inserting[c] # None => inserting[c].sid \in Nat
         /\ \A i \in DOMAIN typed : typed[i][1] \in Nat
<1>1. \A n \in SessionIds : n \in Nat
  BY BoundsAssumption DEF SessionIds
<1>2. nextSession \in Nat
  BY BoundsAssumption DEF TypeOK, SessionTypeOK
<1>3. active # None => active.sid \in Nat
  BY <1>1, SessionFields
<1>4. /\ pending # None => pending.req.sid \in Nat
      /\ applying # None => applying.req.sid \in Nat
  BY <1>1 DEF TypeOK, Pending, Apply, Asked
<1>5. \A c \in Clients : inserting[c] # None => inserting[c].sid \in Nat
  BY <1>1 DEF TypeOK, Insert
<1>6. \A i \in DOMAIN typed : typed[i][1] \in Nat
  <2>1. \A i \in DOMAIN typed : typed[i] \in SessionIds \X Texts \X Waiter
    BY ElementOfSeq, LenProperties DEF TypeOK
  <2> QED
    BY <1>1, <2>1
<1> QED
  BY <1>2, <1>3, <1>4, <1>5, <1>6

\* Steps that neither type nor touch the apply task.
LEMMA OnceStays ==
  ASSUME OnceInv, UNCHANGED <<typed, applying>>, Issued', DocsDistinct',
         active' # None =>
           \/ \A i \in DOMAIN typed : typed[i][1] # active'.sid
           \/ /\ active # None /\ active'.sid = active.sid
              /\ \A i \in DOMAIN active.snapshot :
                   In(active.snapshot[i], active'.snapshot)
  PROVE  OnceInv'
<1> USE DEF OnceInv
<1>1. SnapshotCovers'
  <2> SUFFICES ASSUME active' # None, ~Behind', NEW i \in DOMAIN typed,
                      typed[i][1] = active'.sid, typed[i][3] = None
               PROVE  In(typed[i][2], active'.snapshot)
    BY DEF SnapshotCovers, Covers
  <2>1. /\ active # None /\ active'.sid = active.sid
        /\ \A j \in DOMAIN active.snapshot : In(active.snapshot[j], active'.snapshot)
    OBVIOUS
  <2>2. ~Behind
    BY <2>1 DEF Behind
  <2>3. In(typed[i][2], active.snapshot)
    BY <2>1, <2>2 DEF SnapshotCovers, Covers
  <2> QED
    BY <2>1, <2>3 DEF In
<1>2. RequestCovers' /\ SuffixIsNew' /\ ReplaceNeverRetypes'
  BY DEF RequestCovers, SuffixIsNew, ReplaceNeverRetypes
<1> QED
  BY <1>1, <1>2

\* Steps that give the apply task's place up, or take it.
LEMMA OnceRests ==
  ASSUME OnceInv, UNCHANGED <<typed, active>>, Issued', DocsDistinct', ~Behind,
         applying' = None \/ applying'.stage = "created"
  PROVE  OnceInv'
BY DEF OnceInv, Behind, SnapshotCovers, RequestCovers, SuffixIsNew, ReplaceNeverRetypes

LEMMA OnAuthOnce ==
  ASSUME TypesInv, OnceInv, NEW c \in Clients, OnAuth(c)
  PROVE  OnceInv'
<1> USE DEF TypesInv
<1>1. PICK mode \in Modes : Authenticate(c, mode)
  BY DEF OnAuth
<1>2. /\ nextSession \in SessionIds /\ nextSession' = nextSession + 1
      /\ active'.sid = nextSession
      /\ UNCHANGED <<typed, applying, pending, inserting>>
  BY <1>1, NewSessionTyped DEF Authenticate, OnAuth, replaceVars, workVars
<1>3. Issued'
  BY <1>2, SidNumbers DEF OnceInv, Issued
<1>4. DocsDistinct'
  <2>1. editor \in [Clients -> Editor]
    BY DEF TypeOK
  <2>2. /\ editor'[c].doc = <<>>
        /\ \A d \in Clients \ {c} : editor'[d] = editor[d]
    BY <2>1 DEF OnAuth, Editor
  <2>3. DOMAIN <<>> = {}
    OBVIOUS
  <2> QED
    BY <1>2, <2>2, <2>3 DEF OnceInv, DocsDistinct, Distinct
<1>5. \A i \in DOMAIN typed : typed[i][1] # active'.sid
  BY <1>2, SidNumbers DEF OnceInv, Issued
<1> QED
  BY <1>2, <1>3, <1>4, <1>5, OnceStays

\* The documents that a client may send hold no piece twice.
LEMMA SentDistinct ==
  ASSUME TypeOK, DocsDistinct, NEW c \in Clients, CanSend(c),
         NEW doc \in Longer(c) \cup {editor[c].doc} \cup Shorter(c), Sent(c, doc)
  PROVE  /\ Distinct(doc)
         /\ \A d \in Clients :
              /\ Distinct(editor'[d].doc)
              /\ \A i \in DOMAIN editor'[d].doc :
                   /\ editor'[d].doc[i][1] = d
                   /\ editor'[d].doc[i][2] <= editor'[d].pieces
<1> DEFINE prior == editor[c].doc
           n == editor[c].pieces
<1>1. prior \in Seq(Texts) /\ n \in Nat
  BY BoundsAssumption DEF TypeOK, Editor, Doc
<1>2. /\ Distinct(prior)
      /\ \A i \in DOMAIN prior : prior[i][1] = c /\ prior[i][2] <= n
  BY DEF DocsDistinct
<1>3. \A i \in DOMAIN prior : prior[i][2] \in Nat
  <2>1. \A t \in Texts : t[2] \in Nat
    BY BoundsAssumption DEF Texts, OpId
  <2> HIDE DEF prior
  <2> QED
    BY <1>1, <2>1, ElementOfSeq, LenProperties
<1>4. /\ editor'[c].doc = doc
      /\ editor'[c].pieces = IF doc \in Longer(c) THEN n + 1 ELSE n
      /\ \A d \in Clients \ {c} : editor'[d] = editor[d]
  BY SentTyped
<1>5. Distinct(doc) /\ \A i \in DOMAIN doc : doc[i][1] = c /\ doc[i][2] <= editor'[c].pieces
  <2>1. CASE doc \in Longer(c)
    <3> DEFINE piece == <<c, n + 1>>
    <3>1. piece \in Texts /\ doc = Append(prior, piece)
      BY <2>1, DocsTyped
    <3>2. piece[1] = c /\ piece[2] = n + 1
      OBVIOUS
    <3> HIDE DEF prior, n, piece
    <3>3. \A i \in DOMAIN prior : prior[i] # piece
      BY <1>1, <1>2, <1>3, <3>2
    <3>4. Distinct(doc)
      BY <1>1, <1>2, <3>1, <3>3, AppendDistinct
    <3>5. \A i \in DOMAIN doc : (i \in DOMAIN prior /\ doc[i] = prior[i]) \/ doc[i] = piece
      BY <1>1, <3>1, Appending
    <3>6. n <= n + 1 /\ \A i \in DOMAIN prior : prior[i][2] <= n + 1
      BY <1>1, <1>2, <1>3
    <3> QED
      BY <1>1, <1>2, <1>4, <2>1, <3>2, <3>4, <3>5, <3>6
  <2>2. CASE doc = prior /\ doc \notin Longer(c)
    BY <1>2, <1>4, <2>2
  <2>3. CASE doc = SubSeq(prior, 1, Len(prior) - 1) /\ doc \notin Longer(c)
    <3> HIDE DEF prior, n
    <3>1. DOMAIN prior = 1..Len(prior) /\ Len(prior) \in Nat /\ Len(prior) - 1 \in Int
      BY <1>1, LenProperties
    <3>2. \A i \in 1..Len(prior) - 1 : prior[i] \in Texts
      BY <1>1, <3>1, ElementOfSeq
    <3>3. /\ doc \in Seq(Texts)
          /\ Len(doc) = IF 1 <= Len(prior) - 1 THEN (Len(prior) - 1) - 1 + 1 ELSE 0
          /\ \A i \in 1..(Len(prior) - 1) - 1 + 1 : doc[i] = prior[1 + i - 1]
      BY <2>3, <3>1, <3>2, SubSeqProperties
    <3>4. DOMAIN doc = 1..Len(doc)
      BY <3>3, LenProperties
    <3>5. \A i \in DOMAIN doc : i \in DOMAIN prior /\ doc[i] = prior[i]
      <4> SUFFICES ASSUME NEW i \in DOMAIN doc
                   PROVE  i \in DOMAIN prior /\ doc[i] = prior[i]
        OBVIOUS
      <4>1. \A m \in Nat : \A k \in 1..(IF 1 <= m - 1 THEN (m - 1) - 1 + 1 ELSE 0) :
              k \in 1..(m - 1) - 1 + 1 /\ k \in 1..m /\ 1 + k - 1 = k
        OBVIOUS
      <4>2. i \in 1..(IF 1 <= Len(prior) - 1 THEN (Len(prior) - 1) - 1 + 1 ELSE 0)
        BY <3>3, <3>4, Zenon
      <4>3. i \in 1..(Len(prior) - 1) - 1 + 1 /\ i \in 1..Len(prior) /\ 1 + i - 1 = i
        BY <3>1, <4>1, <4>2, Zenon
      <4> QED
        BY <3>1, <3>3, <4>3
    <3> QED
      BY <1>2, <1>4, <2>3, <3>5 DEF Distinct
  <2> QED
    BY <2>1, <2>2, <2>3, DocsTyped
<1> QED
  BY <1>4, <1>5 DEF DocsDistinct

LEMMA SendingOnce ==
  ASSUME TypesInv, OnceInv, NEW c \in Clients, OnTextReplace(c) \/ OnTextInsert(c)
  PROVE  OnceInv'
<1> USE DEF TypesInv
<1>1. /\ active # None /\ active' = Advanced(active, NextSeq(c)) /\ CanSend(c)
      /\ NextSeq(c) \in Seqs /\ active \in Session
      /\ UNCHANGED <<typed, applying, nextSession>>
  BY SessionFields DEF OnTextReplace, OnTextInsert, Valid, CanSend, workVars, replaceVars
<1>2. active'.sid = active.sid /\ active'.snapshot = active.snapshot
  BY <1>1, AdvancedTyped
<1>3. Issued' /\ DocsDistinct'
  <2>1. CASE OnTextReplace(c)
    <3>1. PICK doc \in Longer(c) \cup {editor[c].doc} \cup Shorter(c) :
            /\ pending' =
                 [req |-> [sid |-> active.sid, seq |-> NextSeq(c), text |-> doc],
                  coalesced |-> Overtaken, quiet |-> FALSE]
            /\ Sent(c, doc)
      BY <2>1 DEF OnTextReplace
    <3>2. pending'.req.sid = active.sid /\ pending'.req.text = doc
      BY <3>1
    <3>3. DocsDistinct'
      BY <1>1, <3>1, <3>2, SentDistinct DEF OnceInv, DocsDistinct
    <3>4. Issued'
      BY <1>1, <1>2, <2>1, <3>2 DEF OnceInv, Issued, OnTextReplace
    <3> QED
      BY <3>3, <3>4
  <2>2. CASE OnTextInsert(c)
    <3>1. PICK doc \in Longer(c) :
            /\ inserting' = [inserting EXCEPT ![c] =
                              [sid |-> active.sid, text |-> Last(doc), stage |-> "typing"]]
            /\ Sent(c, doc)
      BY <2>2 DEF OnTextInsert
    <3>2. pending' = pending
      BY <2>2 DEF OnTextInsert, replaceVars
    <3>3. DocsDistinct'
      BY <1>1, <3>1, <3>2, SentDistinct DEF OnceInv, DocsDistinct
    <3>4. \A d \in Clients : inserting'[d] = inserting[d] \/ inserting'[d].sid = active.sid
      BY <3>1 DEF TypeOK
    <3>5. Issued'
      BY <1>1, <1>2, <3>2, <3>4 DEF OnceInv, Issued
    <3> QED
      BY <3>3, <3>5
  <2> QED
    BY <2>1, <2>2
<1>4. \A i \in DOMAIN active.snapshot : In(active.snapshot[i], active'.snapshot)
  BY <1>2 DEF In
<1> QED
  BY <1>1, <1>2, <1>3, <1>4, OnceStays

LEMMA QuietOnce ==
  ASSUME TypesInv, OnceInv,
         (\E c \in Clients : Refuse(c)) \/ QuietWindowEnds \/ SessionTimesOut \/ UNCHANGED vars
  PROVE  OnceInv'
<1> USE DEF TypesInv
<1>1. /\ UNCHANGED <<typed, applying, inserting, nextSession>>
      /\ active' # None => /\ active # None /\ active'.sid = active.sid
                           /\ active'.snapshot = active.snapshot
  <2>1. CASE SessionTimesOut
    BY <2>1, SessionFields
       DEF SessionTimesOut, Quieten, DropQuietSession, Session, replaceVars, workVars
  <2>2. CASE (\E c \in Clients : Refuse(c)) \/ QuietWindowEnds \/ UNCHANGED vars
    BY <2>2 DEF Refuse, QuietWindowEnds, vars, sessionVars, replaceVars, workVars
  <2> QED
    BY <2>1, <2>2
<1>2. /\ pending' = pending \/ pending # None
      /\ pending'.req = pending.req
  <2>1. CASE QuietWindowEnds
    BY <2>1 DEF QuietWindowEnds, TypeOK, Pending
  <2>2. CASE (\E c \in Clients : Refuse(c)) \/ SessionTimesOut \/ UNCHANGED vars
    BY <2>2 DEF Refuse, SessionTimesOut, vars, replaceVars
  <2> QED
    BY <2>1, <2>2
<1>3. \A c \in Clients : /\ editor'[c].doc = editor[c].doc
                         /\ editor'[c].pieces = editor[c].pieces
  <2>1. CASE \E c \in Clients : Refuse(c)
    BY <2>1 DEF Refuse, TypeOK, Editor
  <2>2. CASE QuietWindowEnds \/ SessionTimesOut \/ UNCHANGED vars
    BY <2>2 DEF QuietWindowEnds, SessionTimesOut, vars
  <2> QED
    BY <2>1, <2>2
<1>4. Issued' /\ DocsDistinct'
  BY <1>1, <1>2, <1>3 DEF OnceInv, Issued, DocsDistinct
<1>5. active' # None =>
        \A i \in DOMAIN active.snapshot : In(active.snapshot[i], active'.snapshot)
  BY <1>1 DEF In
<1> QED
  BY <1>1, <1>4, <1>5, OnceStays

LEMMA RestingOnce ==
  ASSUME TypesInv, OnceInv, TimerFires \/ RefuseApply \/ ApplyNothing
  PROVE  OnceInv'
<1> USE DEF TypesInv
<1>1. CASE TimerFires
  <2>1. /\ UNCHANGED <<sessionVars, editor, inserting, typed>>
        /\ \/ UNCHANGED <<pending, applying>>
           \/ /\ applying = None /\ pending # None /\ pending' = None
              /\ applying'.req = pending.req /\ applying'.stage = "created"
    BY <1>1 DEF TimerFires, workVars
  <2>2. Issued' /\ DocsDistinct'
    BY <2>1 DEF OnceInv, Issued, DocsDistinct, sessionVars
  <2>3. CASE UNCHANGED <<pending, applying>>
    BY <2>1, <2>2, <2>3, OnceStays DEF sessionVars, In
  <2>4. CASE applying = None /\ applying'.stage = "created"
    BY <2>1, <2>2, <2>4, OnceRests DEF sessionVars, Behind
  <2> QED
    BY <2>1, <2>3, <2>4
<1>2. CASE RefuseApply \/ ApplyNothing
  <2>1. /\ applying # None /\ applying.stage = "created" /\ applying' = None
        /\ UNCHANGED <<sessionVars, editor, inserting, typed, pending>>
    BY <1>2 DEF RefuseApply, ApplyNothing, Created, Concludes, workVars
  <2>2. Issued' /\ DocsDistinct'
    BY <2>1 DEF OnceInv, Issued, DocsDistinct, sessionVars
  <2> QED
    BY <2>1, <2>2, OnceRests DEF sessionVars, Behind
<1> QED
  BY <1>1, <1>2

LEMMA ApplySuffixOnce ==
  ASSUME TypesInv, OnceInv, ApplySuffix
  PROVE  OnceInv'
<1> USE DEF TypesInv, OnceInv
<1> DEFINE shown == active.snapshot
           text == applying.req.text
           sid == applying.req.sid
<1>1. /\ applying # None /\ applying \in Apply /\ applying.stage = "created" /\ Appends
      /\ applying' = [applying EXCEPT !.stage = "typing", !.suffix = Suffix]
      /\ UNCHANGED <<sessionVars, editor, inserting, pending, typed>>
  BY DEF ApplySuffix, Created, TypeOK
<1>2. /\ applying'.req = applying.req /\ applying'.suffix = Suffix
      /\ applying'.stage = "typing"
  BY <1>1 DEF Apply
<1>3. /\ active # None /\ active.sid = sid
      /\ \A i \in DOMAIN shown : i \in DOMAIN text /\ text[i] = shown[i]
      /\ \A j \in DOMAIN Suffix :
           /\ j \in Nat /\ Len(shown) + j \in DOMAIN text
           /\ Suffix[j] = text[Len(shown) + j] /\ Len(shown) + j \notin DOMAIN shown
      /\ Len(shown) \in Nat
  BY <1>1, SuffixMeans, LenProperties DEF Doc
<1>4. Covers(shown, sid, typed) /\ Distinct(text)
  BY <1>1, <1>3 DEF Behind, SnapshotCovers, DocsDistinct
<1> HIDE DEF shown, text, sid
<1>5. Covers(text, sid, typed)
  BY <1>3, <1>4 DEF Covers, In
<1>6. Distinct(Suffix)
  <2> SUFFICES ASSUME NEW j \in DOMAIN Suffix, NEW k \in DOMAIN Suffix,
                      Suffix[j] = Suffix[k]
               PROVE  j = k
    BY DEF Distinct
  <2>1. Len(shown) + j = Len(shown) + k
    BY <1>3, <1>4 DEF Distinct
  <2> QED
    BY <1>3, <2>1
<1>7. \A j \in DOMAIN Suffix : In(Suffix[j], text)
  BY <1>3 DEF In
<1>8. \A j \in DOMAIN Suffix : ~In(Suffix[j], shown)
  BY <1>3, <1>4 DEF In, Distinct
<1>9. \A j \in DOMAIN Suffix : \A i \in DOMAIN typed :
        typed[i][1] = sid /\ typed[i][3] = None => typed[i][2] # Suffix[j]
  BY <1>4, <1>8 DEF Covers
<1>10. Issued' /\ DocsDistinct'
  BY <1>1, <1>2 DEF Issued, DocsDistinct, sessionVars
<1>11. SnapshotCovers' /\ ReplaceNeverRetypes'
  BY <1>1 DEF Behind, SnapshotCovers, ReplaceNeverRetypes, sessionVars
<1>12. RequestCovers'
  BY <1>1, <1>2, <1>5 DEF RequestCovers, text, sid
<1>13. SuffixIsNew'
  BY <1>1, <1>2, <1>6, <1>7, <1>9 DEF SuffixIsNew, text, sid
<1> QED
  BY <1>10, <1>11, <1>12, <1>13

LEMMA EndInsertOnce ==
  ASSUME TypesInv, OnceInv, NEW c \in Clients, EndInsert(c)
  PROVE  OnceInv'
<1> USE DEF TypesInv
<1>1. /\ UNCHANGED <<typed, applying, pending, editor, nextSession>>
      /\ inserting' = [inserting EXCEPT ![c] = None]
      /\ done # <<>> /\ Head(done) = c
  BY DEF EndInsert, Resumes, replaceVars
<1>2. inserting[c] # None /\ inserting[c] \in Insert
  <2>1. c \in Waiter /\ c # None /\ Stage[c] \in {"typed", "failed"}
    BY <1>1, WaiterTypes, TailOf, NoneAssumption DEF WorkInv, Waiter
  <2> QED
    BY <2>1, WaiterFinds
<1>3. active' # None => /\ active # None /\ active'.sid = active.sid
                        /\ \A i \in DOMAIN active.snapshot :
                             In(active.snapshot[i], active'.snapshot)
  <2>1. CASE ~(inserting[c].stage = "typed" /\ Valid(inserting[c].sid))
    BY <2>1 DEF EndInsert, In
  <2>2. CASE inserting[c].stage = "typed" /\ Valid(inserting[c].sid)
    <3>1. /\ active # None /\ active \in Session /\ inserting[c].text \in Texts
          /\ active' = Grown(active, inserting[c].text)
      BY <1>2, <2>2, SessionFields DEF EndInsert, Valid, Insert
    <3>2. /\ active'.sid = active.sid
          /\ active'.snapshot = Append(active.snapshot, inserting[c].text)
      BY <3>1, GrownTyped
    <3> DEFINE grown == Append(active.snapshot, inserting[c].text)
    <3>3. \A i \in DOMAIN active.snapshot :
            i \in DOMAIN grown /\ grown[i] = active.snapshot[i]
      BY <3>1, SessionFields, Appending DEF Doc
    <3> QED
      BY <3>1, <3>2, <3>3 DEF In
  <2> QED
    BY <2>1, <2>2
<1>4. \A d \in Clients : inserting'[d] = inserting[d] \/ inserting'[d] = None
  BY <1>1 DEF TypeOK
<1>5. Issued' /\ DocsDistinct'
  BY <1>1, <1>3, <1>4 DEF OnceInv, Issued, DocsDistinct
<1> QED
  BY <1>1, <1>3, <1>5, OnceStays

\* What the worker adds to the history.
LEMMA RunAdds ==
  ASSUME TypesInv, RunWorker
  PROVE  LET w == Head(worker)
         IN /\ \A i \in DOMAIN typed' :
                 \/ i \in DOMAIN typed /\ typed'[i] = typed[i]
                 \/ /\ Stage'[w] = "typed"
                    /\ \E j \in DOMAIN Job(w).text :
                         /\ i = Len(typed) + j
                         /\ typed'[i] = <<Job(w).sid, Job(w).text[j], w>>
            /\ Stage'[w] = "failed" => typed' = typed
<1> USE DEF TypesInv
<1> DEFINE w == Head(worker)
           new == Entries(w)
<1>1. /\ w \in Waiter /\ Stage[w] = "typing" /\ Stage'[w] \in {"typed", "failed"}
      /\ typed' = IF Stage'[w] = "failed" THEN typed ELSE typed \o new
  BY RunMeans
<1>2. /\ new \in Seq(SessionIds \X Texts \X Waiter)
      /\ DOMAIN new = DOMAIN Job(w).text
      /\ \A i \in DOMAIN Job(w).text : new[i] = <<Job(w).sid, Job(w).text[i], w>>
  BY <1>1, EntriesTyped
<1>3. typed \in Seq(SessionIds \X Texts \X Waiter)
  BY DEF TypeOK
<1> HIDE DEF w, new
<1>4. CASE Stage'[w] = "failed"
  BY <1>1, <1>4 DEF w
<1>5. CASE Stage'[w] = "typed"
  <2>1. \A i \in DOMAIN (typed \o new) :
          \/ i \in DOMAIN typed /\ (typed \o new)[i] = typed[i]
          \/ \E j \in DOMAIN new : i = Len(typed) + j /\ (typed \o new)[i] = new[j]
    BY <1>2, <1>3, Joining
  <2>2. typed' = typed \o new
    BY <1>1, <1>5
  <2> QED
    BY <1>2, <1>5, <2>1, <2>2 DEF w
<1> QED
  BY <1>1, <1>4, <1>5

\* The worker has typed a client's insert, or nothing.
LEMMA RunInsertOnce ==
  ASSUME TypesInv, OnceInv, UNCHANGED <<active, editor, pending, nextSession>>, Issued',
         NEW w \in Clients,
         \A i \in DOMAIN typed' :
           \/ i \in DOMAIN typed /\ typed'[i] = typed[i]
           \/ \E j, sid, piece : i = Len(typed) + j /\ typed'[i] = <<sid, piece, w>>,
         applying' = applying
  PROVE  OnceInv'
<1> USE DEF OnceInv
<1>1. w # None
  BY NoneAssumption
<1>2. \A i \in DOMAIN typed' :
        typed'[i][3] = None => i \in DOMAIN typed /\ typed'[i] = typed[i]
  BY <1>1
<1>3. DocsDistinct' /\ SnapshotCovers' /\ RequestCovers' /\ SuffixIsNew'
  BY <1>2 DEF DocsDistinct, Behind, SnapshotCovers, RequestCovers, SuffixIsNew, Covers
<1>4. ReplaceNeverRetypes'
  BY <1>2 DEF ReplaceNeverRetypes
<1> QED
  BY <1>3, <1>4

\* The worker has typed what the request appends.
LEMMA RunApplyOnce ==
  ASSUME TypesInv, OnceInv, UNCHANGED <<active, editor, pending, nextSession>>, Issued',
         applying # None, applying \in Apply, applying.stage = "typing",
         applying' = [applying EXCEPT !.stage = "typed"],
         \A i \in DOMAIN typed' :
           \/ i \in DOMAIN typed /\ typed'[i] = typed[i]
           \/ \E j \in DOMAIN applying.suffix :
                /\ i = Len(typed) + j
                /\ typed'[i] = <<applying.req.sid, applying.suffix[j], None>>
  PROVE  OnceInv'
<1> USE DEF OnceInv
<1> DEFINE sid == applying.req.sid
           text == applying.req.text
           suffix == applying.suffix
<1>1. applying'.req = applying.req /\ applying'.stage = "typed" /\ applying' # None
  BY NothingAssumption DEF Apply
<1>2. /\ Distinct(suffix) /\ Covers(text, sid, typed)
      /\ \A j \in DOMAIN suffix :
           /\ In(suffix[j], text)
           /\ \A i \in DOMAIN typed :
                typed[i][1] = sid /\ typed[i][3] = None => typed[i][2] # suffix[j]
  BY DEF SuffixIsNew, RequestCovers
<1>3. active # None /\ ~Behind' =>
        active.sid # sid /\ Covers(active.snapshot, active.sid, typed)
  BY <1>1 DEF Behind, SnapshotCovers, Apply
<1>4. DocsDistinct'
  BY <1>1 DEF DocsDistinct
<1> HIDE DEF sid, text, suffix
<1>5. \A i \in DOMAIN typed' :
        \/ i \in DOMAIN typed /\ typed'[i] = typed[i]
        \/ \E j \in DOMAIN suffix :
             i = Len(typed) + j /\ typed'[i] = <<sid, suffix[j], None>>
  BY DEF sid, suffix
<1>6. SnapshotCovers'
  <2> SUFFICES ASSUME active # None, ~Behind', NEW i \in DOMAIN typed',
                      typed'[i][1] = active.sid, typed'[i][3] = None
               PROVE  In(typed'[i][2], active.snapshot)
    BY DEF SnapshotCovers, Covers
  <2>1. i \in DOMAIN typed /\ typed'[i] = typed[i]
    BY <1>3, <1>5
  <2> QED
    BY <1>3, <2>1 DEF Covers
<1>7. Covers(text, sid, typed')
  BY <1>2, <1>5 DEF Covers
<1>8. RequestCovers'
  BY <1>1, <1>7 DEF RequestCovers, text, sid
<1>9. SuffixIsNew'
  BY <1>1 DEF SuffixIsNew
<1>10. ReplaceNeverRetypes'
  <2> SUFFICES ASSUME NEW i \in DOMAIN typed', NEW k \in DOMAIN typed',
                      typed'[i] = typed'[k], typed'[i][3] = None
               PROVE  i = k
    BY DEF ReplaceNeverRetypes
  <2>1. CASE i \in DOMAIN typed /\ typed'[i] = typed[i]
    <3>1. ASSUME NEW m \in DOMAIN suffix, typed'[k] = <<sid, suffix[m], None>>
          PROVE  FALSE
      <4>1. typed[i] = <<sid, suffix[m], None>>
        BY <2>1, <3>1, Zenon
      <4>2. typed[i][1] = sid /\ typed[i][3] = None /\ typed[i][2] = suffix[m]
        BY ONLY <4>1
      <4> QED
        BY <1>2, <2>1, <4>2
    <3>2. k \in DOMAIN typed /\ typed'[k] = typed[k]
      BY <1>5, <3>1
    <3> QED
      BY <2>1, <3>2 DEF ReplaceNeverRetypes
  <2>2. CASE \E j \in DOMAIN suffix :
               i = Len(typed) + j /\ typed'[i] = <<sid, suffix[j], None>>
    <3>1. PICK j \in DOMAIN suffix :
            i = Len(typed) + j /\ typed'[i] = <<sid, suffix[j], None>>
      BY <2>2
    <3>2. PICK m \in DOMAIN suffix :
            k = Len(typed) + m /\ typed'[k] = <<sid, suffix[m], None>>
      BY <1>2, <1>5, <3>1
    <3>3. j = m
      BY <1>2, <3>1, <3>2 DEF Distinct
    <3> QED
      BY <3>1, <3>2, <3>3
  <2> QED
    BY <1>5, <2>1, <2>2
<1> QED
  BY <1>4, <1>6, <1>8, <1>9, <1>10

LEMMA RunOnce ==
  ASSUME TypesInv, OnceInv, RunWorker
  PROVE  OnceInv'
<1> USE DEF TypesInv
<1> DEFINE w == Head(worker)
<1>1. /\ w \in Waiter /\ Stage[w] = "typing" /\ Stage'[w] \in {"typed", "failed"}
      /\ w = None => /\ applying' = [applying EXCEPT !.stage = Stage'[w]]
                     /\ inserting' = inserting
      /\ w # None => /\ inserting' = [inserting EXCEPT ![w].stage = Stage'[w]]
                     /\ applying' = applying
  BY RunMeans
<1>2. /\ \A i \in DOMAIN typed' :
           \/ i \in DOMAIN typed /\ typed'[i] = typed[i]
           \/ /\ Stage'[w] = "typed"
              /\ \E j \in DOMAIN Job(w).text :
                   i = Len(typed) + j /\ typed'[i] = <<Job(w).sid, Job(w).text[j], w>>
      /\ Stage'[w] = "failed" => typed' = typed
  BY RunAdds
<1>3. UNCHANGED <<active, editor, pending, nextSession>>
  BY DEF RunWorker, sessionVars
<1> HIDE DEF w
<1>4. /\ w = None => applying # None /\ applying \in Apply /\ Stage[w] = applying.stage
      /\ w # None => w \in Clients /\ inserting[w] # None /\ inserting[w] \in Insert
  BY <1>1, WaiterFinds
<1>5. Job(w).sid < nextSession
  BY <1>4 DEF Job, OnceInv, Issued
<1>6. applying' # None => applying # None /\ applying'.req = applying.req
  BY <1>1, <1>4 DEF Apply
<1>7. \A c \in Clients : inserting'[c] # None =>
        inserting[c] # None /\ inserting'[c].sid = inserting[c].sid
  <2> SUFFICES ASSUME NEW c \in Clients, inserting'[c] # None
               PROVE  inserting[c] # None /\ inserting'[c].sid = inserting[c].sid
    OBVIOUS
  <2>1. CASE w = None \/ c # w
    BY <1>1, <2>1 DEF TypeOK
  <2>2. CASE w # None /\ c = w
    BY <1>1, <1>4, <2>2 DEF TypeOK, Insert
  <2> QED
    BY <2>1, <2>2
<1>8. Issued'
  <2>1. \A i \in DOMAIN typed' : typed'[i][1] < nextSession
    BY <1>2, <1>5 DEF OnceInv, Issued
  <2> QED
    BY <1>3, <1>6, <1>7, <2>1 DEF OnceInv, Issued
<1>9. CASE w # None
  BY <1>1, <1>2, <1>3, <1>4, <1>8, <1>9, RunInsertOnce
<1>10. CASE w = None /\ Stage'[w] = "typed"
  <2>1. Job(w).sid = applying.req.sid /\ Job(w).text = applying.suffix
    BY <1>10 DEF Job
  <2> QED
    BY <1>1, <1>2, <1>3, <1>4, <1>8, <1>10, <2>1, RunApplyOnce
<1>11. CASE w = None /\ Stage'[w] = "failed"
  <2>1. /\ applying.stage = "typing" /\ applying'.stage = "failed"
        /\ applying'.req = applying.req /\ typed' = typed
    BY <1>1, <1>2, <1>4, <1>11 DEF Apply
  <2>2. DocsDistinct'
    BY <1>3, <1>6 DEF OnceInv, DocsDistinct
  <2> QED
    BY <1>3, <1>8, <2>1, <2>2
       DEF OnceInv, Behind, SnapshotCovers, RequestCovers, SuffixIsNew, ReplaceNeverRetypes
<1> QED
  BY <1>1, <1>9, <1>10, <1>11

LEMMA EndApplyOnce ==
  ASSUME TypesInv, OnceInv, EndApply
  PROVE  OnceInv'
<1> USE DEF TypesInv, OnceInv
<1>1. /\ applying # None /\ applying' = None /\ applying.stage \in {"typed", "failed"}
      /\ UNCHANGED <<typed, inserting, editor, pending, nextSession>>
  BY EndApplyFinds DEF EndApply, Concludes
<1>2. CASE ~(applying.stage = "typed" /\ Valid(applying.req.sid))
  <2>1. active' = active /\ (active = None \/ ~Behind)
    BY <1>2 DEF EndApply, Valid, Behind
  <2>2. SnapshotCovers'
    BY <1>1, <2>1 DEF SnapshotCovers
  <2> QED
    BY <1>1, <2>1, <2>2
       DEF Issued, DocsDistinct, RequestCovers, SuffixIsNew, ReplaceNeverRetypes
<1>3. CASE applying.stage = "typed" /\ Valid(applying.req.sid)
  <2>1. /\ active' = [active EXCEPT !.snapshot = applying.req.text]
        /\ active \in Session /\ active.sid = applying.req.sid /\ active # None
    BY <1>3, SessionFields DEF EndApply, Valid
  <2>2. active'.snapshot = applying.req.text /\ active'.sid = applying.req.sid
    BY <2>1 DEF Session
  <2>3. SnapshotCovers'
    BY <1>1, <1>3, <2>2 DEF SnapshotCovers, RequestCovers
  <2> QED
    BY <1>1, <2>1, <2>2, <2>3
       DEF Issued, DocsDistinct, RequestCovers, SuffixIsNew, ReplaceNeverRetypes
<1> QED
  BY <1>2, <1>3

LEMMA NextOnce == TypesInv /\ OnceInv /\ [Next]_vars => OnceInv'
BY OnAuthOnce, SendingOnce, QuietOnce, RestingOnce, ApplySuffixOnce, EndInsertOnce,
   RunOnce, EndApplyOnce DEF Next, HostWorks

\* _apply_replace_request: a request that is compared with applied_snapshot
\* never types again what an earlier one of the same session has typed, though
\* injections fail, documents lose their ends and grow again, inserts are
\* typed in between and the snapshot is overwritten.
THEOREM NoSnapshotTwice == Spec => []ReplaceNeverRetypes
<1>1. ReplaceInit => OnceInv
  <2>1. DOMAIN <<>> = {}
    OBVIOUS
  <2> QED
    BY <2>1 DEF ReplaceInit, SessionInit, OnceInv, Issued, DocsDistinct, Distinct,
                SnapshotCovers, Covers, RequestCovers, SuffixIsNew, ReplaceNeverRetypes
<1>2. TypesInv /\ OnceInv /\ [Next]_vars => OnceInv'
  BY NextOnce
<1>3. OnceInv => ReplaceNeverRetypes
  BY DEF OnceInv
<1> QED
  BY <1>1, <1>2, <1>3, SpecTypes, PTL DEF Spec
=============================================================================
