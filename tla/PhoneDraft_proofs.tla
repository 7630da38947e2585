-------------------------- MODULE PhoneDraft_proofs --------------------------
(***************************************************************************)
(* What is typed is queued once, in order and without a gap, and a killed  *)
(* process loses none of it: for any number of characters, edits, kills,   *)
(* recreations and clearings.                                              *)
(***************************************************************************)
EXTENDS PhoneDraft, SequenceTheorems, TLAPS

-----------------------------------------------------------------------------
(* The operators on texts.                                                 *)

LEMMA CleanedChar ==
  ASSUME NEW c \in Char
  PROVE  /\ [c EXCEPT !.ctl = FALSE] \in Clean
         /\ [c EXCEPT !.ctl = FALSE].id = c.id
         /\ c \in Clean => [c EXCEPT !.ctl = FALSE] = c
BY DEF Char, Clean

LEMMA NormalText ==
  ASSUME NEW text \in Seq(Char)
  PROVE  /\ Normal(text) \in Seq(Clean) /\ Len(Normal(text)) = Len(text)
         /\ \A i \in 1..Len(text) :
              /\ Normal(text)[i] = [text[i] EXCEPT !.ctl = FALSE]
              /\ Normal(text)[i].id = text[i].id
<1>1. \A i \in 1..Len(text) :
        /\ [text[i] EXCEPT !.ctl = FALSE] \in Clean
        /\ [text[i] EXCEPT !.ctl = FALSE].id = text[i].id
  BY ElementOfSeq, CleanedChar
<1>2. Normal(text) = [i \in 1..Len(text) |-> [text[i] EXCEPT !.ctl = FALSE]]
  BY LenProperties DEF Normal
<1>3. Normal(text) \in Seq(Clean)
  BY <1>1, <1>2, LenProperties, IsASeq
<1>4. DOMAIN Normal(text) = 1..Len(text) /\ Len(text) \in Nat
  BY <1>2, LenProperties
<1>5. Len(Normal(text)) = Len(text)
  BY <1>3, <1>4, LenProperties
<1> QED
  BY <1>1, <1>2, <1>3, <1>5

LEMMA CleanIsChar == Clean \subseteq Char /\ Seq(Clean) \subseteq Seq(Char)
<1>1. Clean \subseteq Char
  BY DEF Clean, Char
<1> QED
  BY <1>1, SeqMonotonic

LEMMA NormalOfClean ==
  ASSUME NEW text \in Seq(Clean)
  PROVE  Normal(text) = text
<1>1. text = [i \in 1..Len(text) |-> text[i]] /\ DOMAIN text = 1..Len(text)
  BY LenProperties
<1>2. \A i \in 1..Len(text) : [text[i] EXCEPT !.ctl = FALSE] = text[i]
  BY ElementOfSeq, CleanedChar, CleanIsChar
<1> QED
  BY <1>1, <1>2 DEF Normal

LEMMA PrefixMeans ==
  ASSUME NEW s \in Seq(Clean), NEW t \in Seq(Clean), IsPrefix(s, t)
  PROVE  Len(s) <= Len(t) /\ \A i \in 1..Len(s) : s[i] = t[i]
<1>1. Len(s) \in Nat /\ Len(t) \in Nat /\ Len(s) <= Len(t)
  BY LenProperties DEF IsPrefix
<1>2. SubSeq(s, 1, Len(s)) = SubSeq(t, 1, Len(s))
  BY DEF IsPrefix
<1>3. \A i \in 1..Len(s) : SubSeq(s, 1, Len(s))[i] = s[i]
  BY <1>1, SubSeqFull
<1>4. \A i \in 1..Len(s) : SubSeq(t, 1, Len(s))[i] = t[i]
  BY <1>1, ElementOfSeq, SubSeqProperties
<1> QED
  BY <1>1, <1>2, <1>3, <1>4

LEMMA PrefixIf ==
  ASSUME NEW s \in Seq(Clean), NEW t \in Seq(Clean),
         Len(s) <= Len(t), \A i \in 1..Len(s) : s[i] = t[i]
  PROVE  IsPrefix(s, t)
<1>1. Len(s) \in Nat /\ Len(t) \in Nat
  BY LenProperties
<1>2. /\ SubSeq(t, 1, Len(s)) \in Seq(Clean) /\ Len(SubSeq(t, 1, Len(s))) = Len(s)
      /\ \A i \in 1..Len(s) : SubSeq(t, 1, Len(s))[i] = t[i]
  <2>1. \A i \in 1..Len(s) : t[i] \in Clean
    BY <1>1, ElementOfSeq
  <2> QED
    BY <1>1, <2>1, SubSeqProperties
<1>3. s = SubSeq(t, 1, Len(s))
  BY <1>2, SeqEqual
<1> QED
  BY <1>3, SubSeqFull DEF IsPrefix

LEMMA AppendedText ==
  ASSUME NEW base \in Seq(Clean), NEW text \in Seq(Clean)
  PROVE  /\ Appended(base, text) \in Seq(Clean)
         /\ IsPrefix(base, text) =>
              /\ Len(Appended(base, text)) = Len(text) - Len(base)
              /\ \A i \in 1..Len(text) - Len(base) :
                   Appended(base, text)[i] = text[Len(base) + i]
         /\ ~IsPrefix(base, text) => Appended(base, text) = <<>>
<1>1. Len(base) \in Nat /\ Len(text) \in Nat
  BY LenProperties
<1>2. CASE IsPrefix(base, text)
  <2>1. Len(base) <= Len(text)
    BY <1>2 DEF IsPrefix
  <2>2. \A i \in Len(base) + 1..Len(text) : text[i] \in Clean
    BY <1>1, ElementOfSeq
  <2>3. Appended(base, text) = SubSeq(text, Len(base) + 1, Len(text))
    BY <1>2 DEF Appended
  <2>4. /\ SubSeq(text, Len(base) + 1, Len(text)) \in Seq(Clean)
        /\ Len(SubSeq(text, Len(base) + 1, Len(text))) =
             IF Len(base) + 1 <= Len(text) THEN Len(text) - (Len(base) + 1) + 1 ELSE 0
        /\ \A i \in 1..Len(text) - (Len(base) + 1) + 1 :
             SubSeq(text, Len(base) + 1, Len(text))[i] = text[Len(base) + 1 + i - 1]
    BY <1>1, <2>2, SubSeqProperties
  <2> QED
    BY <1>1, <1>2, <2>1, <2>3, <2>4
<1>3. CASE ~IsPrefix(base, text)
  BY <1>3, EmptySeq DEF Appended
<1> QED
  BY <1>2, <1>3

LEMMA NothingAppended ==
  ASSUME NEW text \in Seq(Clean)
  PROVE  Appended(text, text) = <<>>
<1>1. Len(text) \in Nat /\ IsPrefix(text, text)
  BY LenProperties DEF IsPrefix
<1>2. Len(Appended(text, text)) = 0 /\ Appended(text, text) \in Seq(Clean)
  BY <1>1, AppendedText
<1> QED
  BY <1>2, EmptySeq

LEMMA WithOpQueue ==
  ASSUME NEW queue \in Seq(Seq(Clean)), NEW text \in Seq(Clean)
  PROVE  WithOp(queue, text) \in Seq(Seq(Clean))
BY AppendProperties DEF WithOp

\* What Created counts as queued is what it restored the queue with.
LEMMA QueuedByCreated ==
  ASSUME NEW d \in Disk, Created(d), queued \in Seq(Clean)
  PROVE  queued' = queued \o Appended(d.baseline, Normal(d.draft))
<1> DEFINE text == Appended(d.baseline, Normal(d.draft))
           queue == Restored(d).queue
<1>1. d.queue \in Seq(Seq(Clean)) /\ text \in Seq(Clean)
  BY NormalText, AppendedText DEF Disk
<1>2. queue = WithOp(d.queue, text)
  BY DEF Restored
<1>3. queued' = IF Len(queue) > Len(d.queue) THEN queued \o Last(queue) ELSE queued
  BY DEF Created
<1> HIDE DEF text, queue
<1>4. Len(d.queue) \in Nat
  BY <1>1, LenProperties
<1>5. queued' = queued \o text
  <2>1. CASE text = <<>>
    <3>1. queue = d.queue
      BY <1>2, <2>1 DEF WithOp
    <3> QED
      BY <1>3, <1>4, <2>1, <3>1, ConcatEmptySeq
  <2>2. CASE text # <<>>
    <3>1. queue = Append(d.queue, text)
      BY <1>2, <2>2 DEF WithOp
    <3>2. Len(queue) = Len(d.queue) + 1 /\ queue[Len(d.queue) + 1] = text
      BY <1>1, <3>1, AppendProperties
    <3> QED
      BY <1>3, <1>4, <3>2 DEF Last
  <2> QED
    BY <2>1, <2>2
<1> QED
  BY <1>5 DEF text

-----------------------------------------------------------------------------
(* The types.                                                              *)

LEMMA RestoredTyped ==
  ASSUME NEW d \in Disk
  PROVE  Restored(d) \in Activity
<1>1. /\ d.draft \in Seq(Char) /\ d.baseline \in Seq(Clean)
      /\ d.queue \in Seq(Seq(Clean))
  BY DEF Disk
<1>2. Normal(d.draft) \in Seq(Clean) /\ Normal(d.draft) \in Seq(Char)
  BY <1>1, NormalText, CleanIsChar
<1>3. WithOp(d.queue, Appended(d.baseline, Normal(d.draft))) \in Seq(Seq(Clean))
  BY <1>1, <1>2, AppendedText, WithOpQueue
<1> QED
  BY <1>2, <1>3 DEF Restored, Activity

LEMMA SavedTyped ==
  ASSUME NEW a \in Activity
  PROVE  Saved(a) \in Disk
BY DEF Saved, Activity, Disk

LEMMA UnsentTyped ==
  ASSUME NEW a \in Activity
  PROVE  /\ Normal(a.text) \in Seq(Clean) /\ Normal(a.text) \in Seq(Char)
         /\ Unsent(a) \in Seq(Clean)
<1>1. a.text \in Seq(Char) /\ a.baseline \in Seq(Clean)
  BY DEF Activity
<1> QED
  BY <1>1, NormalText, CleanIsChar, AppendedText DEF Unsent

LEMMA ProcessedTyped ==
  ASSUME NEW a \in Activity, disk \in Disk
  PROVE  Processed(a) \in Activity /\ SavedByProcessing(a) \in Disk
<1>1. WithOp(a.queue, Unsent(a)) \in Seq(Seq(Clean))
  BY UnsentTyped, WithOpQueue DEF Activity
<1>2. Processed(a) \in Activity
  BY <1>1, UnsentTyped DEF Processed, Activity
<1>3. [disk EXCEPT !.draft = a.baseline] \in Disk
  <2>1. a.baseline \in Seq(Char)
    BY CleanIsChar DEF Activity
  <2> QED
    BY <2>1 DEF Disk
<1> QED
  BY <1>2, <1>3, SavedTyped DEF SavedByProcessing

LEMMA CreatedTyped ==
  ASSUME NEW d \in Disk, Created(d), queued \in Seq(Clean)
  PROVE  activity' \in Activity /\ disk' \in Disk /\ queued' \in Seq(Clean)
<1>1. activity' \in Activity /\ disk' \in Disk
  BY RestoredTyped, SavedTyped DEF Created
<1>2. Appended(d.baseline, Normal(d.draft)) \in Seq(Clean)
  BY NormalText, AppendedText DEF Disk
<1> QED
  BY <1>1, <1>2, QueuedByCreated, ConcatProperties

LEMMA ShownTyped ==
  ASSUME TypeOK, NEW text \in Seq(Char), NEW composing \in BOOLEAN,
         Shown(text, composing)
  PROVE  activity' \in Activity /\ disk' \in Disk
BY DEF Shown, TypeOK, Activity, Disk

LEMMA HappensTyped ==
  ASSUME TypeOK, NEW event \in Events, Happens(event)
  PROVE  left' \in [Events -> Nat]
BY DEF TypeOK, Happens

LEMMA TextRemoved ==
  ASSUME NEW text \in Seq(Char), NEW i \in DOMAIN text
  PROVE  /\ RemoveAt(text, i) \in Seq(Char)
         /\ Len(RemoveAt(text, i)) = Len(text) - 1
         /\ \A j \in 1..Len(text) - 1 :
              RemoveAt(text, i)[j] = IF j < i THEN text[j] ELSE text[j + 1]
<1>1. Len(text) \in Nat /\ i \in 1..Len(text)
  BY LenProperties
<1>2. \A j \in 1..Len(text) : text[j] \in Char
  BY ElementOfSeq
<1> DEFINE head == SubSeq(text, 1, i - 1)
           tail == SubSeq(text, i + 1, Len(text))
<1>3. /\ head \in Seq(Char) /\ Len(head) = i - 1
      /\ \A j \in 1..i - 1 : head[j] = text[j]
  <2>1. /\ head \in Seq(Char)
        /\ Len(head) = IF 1 <= i - 1 THEN (i - 1) - 1 + 1 ELSE 0
        /\ \A j \in 1..(i - 1) - 1 + 1 : head[j] = text[1 + j - 1]
    BY <1>1, <1>2, SubSeqProperties
  <2> QED
    BY <1>1, <2>1
<1>4. /\ tail \in Seq(Char) /\ Len(tail) = Len(text) - i
      /\ \A j \in 1..Len(text) - i : tail[j] = text[i + j]
  <2>1. /\ tail \in Seq(Char)
        /\ Len(tail) = IF i + 1 <= Len(text) THEN Len(text) - (i + 1) + 1 ELSE 0
        /\ \A j \in 1..Len(text) - (i + 1) + 1 : tail[j] = text[i + 1 + j - 1]
    BY <1>1, <1>2, SubSeqProperties
  <2> QED
    BY <1>1, <2>1
<1>5. RemoveAt(text, i) = head \o tail
  BY DEF RemoveAt
<1> HIDE DEF head, tail
<1>6. /\ head \o tail \in Seq(Char) /\ Len(head \o tail) = Len(head) + Len(tail)
      /\ \A j \in 1..Len(head) + Len(tail) :
           (head \o tail)[j] = IF j <= Len(head) THEN head[j] ELSE tail[j - Len(head)]
  BY <1>3, <1>4, ConcatProperties
<1>7. \A j \in 1..Len(text) - 1 :
        (head \o tail)[j] = IF j < i THEN text[j] ELSE text[j + 1]
  <2> SUFFICES ASSUME NEW j \in 1..Len(text) - 1
               PROVE  (head \o tail)[j] = IF j < i THEN text[j] ELSE text[j + 1]
    OBVIOUS
  <2>1. CASE j < i
    BY <1>1, <1>3, <1>4, <1>6, <2>1
  <2>2. CASE ~(j < i)
    <3>1. (head \o tail)[j] = tail[j - (i - 1)] /\ j - (i - 1) \in 1..Len(text) - i
      <4>1. /\ Len(head) = i - 1 /\ Len(tail) = Len(text) - i
            /\ j \in 1..Len(head) + Len(tail) /\ ~(j <= Len(head))
        BY <1>1, <1>3, <1>4, <2>2
      <4>2. (head \o tail)[j] = tail[j - Len(head)]
        BY <1>6, <4>1
      <4>3. j - (i - 1) \in 1..Len(text) - i /\ Len(head) = i - 1
        BY <1>1, <2>2, <4>1
      <4> QED
        BY <4>2, <4>3, Zenon
    <3>2. tail[j - (i - 1)] = text[i + (j - (i - 1))] /\ i + (j - (i - 1)) = j + 1
      BY <1>1, <1>4, <3>1
    <3> QED
      BY <2>2, <3>1, <3>2
  <2> QED
    BY <2>1, <2>2
<1> QED
  BY <1>1, <1>3, <1>4, <1>5, <1>6, <1>7

LEMMA TypedText ==
  ASSUME TypeOK, typed < MaxChars, NEW ctl \in BOOLEAN
  PROVE  /\ typed + 1 \in 1..MaxChars
         /\ [id |-> typed + 1, ctl |-> ctl] \in Char
         /\ Append(activity.text, [id |-> typed + 1, ctl |-> ctl]) \in Seq(Char)
<1>1. typed + 1 \in 1..MaxChars
  BY LimitsAssumption DEF TypeOK
<1>2. [id |-> typed + 1, ctl |-> ctl] \in Char
  BY <1>1 DEF Char
<1> QED
  BY <1>1, <1>2, AppendProperties DEF TypeOK, Activity

LEMMA TypeStep == TypeOK /\ [Next]_vars => TypeOK'
<1> SUFFICES ASSUME TypeOK, [Next]_vars
             PROVE  TypeOK'
  OBVIOUS
<1>0. /\ activity \in Activity /\ disk \in Disk /\ queued \in Seq(Clean)
      /\ typed \in 0..MaxChars /\ left \in [Events -> Nat]
      /\ {"kill", "recreate", "clear", "edit"} = Events
  BY DEF TypeOK, Events
<1>1. CASE Type
  <2>1. PICK ctl, composing \in BOOLEAN :
          Shown(Append(activity.text, [id |-> typed + 1, ctl |-> ctl]), composing)
    BY <1>1 DEF Type
  <2>2. typed' \in 0..MaxChars
    BY <1>0, <1>1, LimitsAssumption DEF Type
  <2>3. activity' \in Activity /\ disk' \in Disk
    BY <1>1, <2>1, TypedText, ShownTyped DEF Type
  <2> QED
    BY <1>1, <2>2, <2>3 DEF Type, TypeOK
<1>2. CASE Edit
  <2>1. PICK i \in DOMAIN activity.text : Shown(RemoveAt(activity.text, i), FALSE)
    BY <1>2 DEF Edit
  <2>2. activity' \in Activity /\ disk' \in Disk
    BY <1>0, <2>1, TextRemoved, ShownTyped DEF Activity
  <2> QED
    BY <1>0, <1>2, <2>2, HappensTyped DEF Edit, TypeOK
<1>3. CASE ComposingEnds
  BY <1>3 DEF ComposingEnds, TypeOK, Activity
<1>4. CASE ProcessInput
  <2>1. activity' \in Activity /\ disk' \in Disk /\ queued' \in Seq(Clean)
    BY <1>0, <1>4, ProcessedTyped, UnsentTyped, ConcatProperties DEF ProcessInput
  <2> QED
    BY <1>4, <2>1 DEF ProcessInput, TypeOK
<1>5. CASE Deliver
  <2>1. Tail(activity.queue) \in Seq(Seq(Clean))
    BY <1>0, <1>5, HeadTailProperties DEF Deliver, Activity
  <2>2. activity' \in Activity
    BY <1>0, <1>5, <2>1 DEF Deliver, Activity
  <2> QED
    BY <1>5, <2>2, SavedTyped DEF Deliver, TypeOK
<1>6. CASE ClearLocalInput
  <2>1. activity' \in Activity
    BY <1>0, <1>6, EmptySeq DEF ClearLocalInput, Activity
  <2> QED
    BY <1>0, <1>6, <2>1, SavedTyped, HappensTyped DEF ClearLocalInput, TypeOK
<1>7. CASE Pause
  BY <1>0, <1>7, SavedTyped DEF Pause, TypeOK
<1>8. CASE Kill
  BY <1>0, <1>8, CreatedTyped, HappensTyped DEF Kill, TypeOK
<1>9. CASE KilledWhileClearing
  <2>1. [disk EXCEPT !.draft = <<>>] \in Disk
    BY <1>0, EmptySeq DEF Disk
  <2>2. left' \in [Events -> Nat]
    BY <1>0, <1>9 DEF KilledWhileClearing
  <2> QED
    BY <1>0, <1>9, <2>1, <2>2, CreatedTyped DEF KilledWhileClearing, TypeOK
<1>10. CASE Recreate
  <2>1. old' \in Activity \cup {None}
    BY <1>0, <1>10 DEF Recreate
  <2> QED
    BY <1>0, <1>10, <2>1, SavedTyped, CreatedTyped, HappensTyped DEF Recreate, TypeOK
<1>11. CASE OldProcessesInput
  <2>1. old \in Activity
    BY <1>11 DEF OldProcessesInput, TypeOK
  <2>2. [old EXCEPT !.composing = FALSE] \in Activity
    BY <2>1 DEF Activity
  <2>3. [disk EXCEPT !.draft = old.text] \in Disk
    BY <1>0, <2>1 DEF Activity, Disk
  <2>4. SavedByProcessing(old) \in Disk
    BY <1>0, <2>1, ProcessedTyped
  <2> QED
    BY <1>11, <2>1, <2>2, <2>3, <2>4 DEF OldProcessesInput, TypeOK
<1>12. CASE UNCHANGED vars
  BY <1>12 DEF vars, TypeOK
<1> QED
  BY <1>1, <1>2, <1>3, <1>4, <1>5, <1>6, <1>7, <1>8, <1>9, <1>10, <1>11, <1>12
     DEF Next

-----------------------------------------------------------------------------
(* The order of the characters.                                            *)

\* text and what was sent are in the order of typing, up to the n-th
\* character; and a character of the text either has been processed, that is,
\* it is in the baseline, or is newer than everything sent.  Without the last
\* conjunct an edit might bring back, as an appended one, a character that is
\* older than one already sent.
Rising(text) == \A i, j \in DOMAIN text : i < j => text[i].id < text[j].id

OrderedOn(text, baseline, sent, n) ==
  /\ Rising(text) /\ Rising(sent)
  /\ \A i \in DOMAIN text : text[i].id <= n
  /\ \A i \in DOMAIN sent : sent[i].id <= n
  /\ \A i \in DOMAIN text :
       \/ \E j \in DOMAIN baseline : baseline[j].id = text[i].id
       \/ \A j \in DOMAIN sent : sent[j].id < text[i].id

\* Nothing was edited: the baseline is the part of the text that was sent.
CompleteOn(text, baseline, sent, n) ==
  /\ IsPrefix(baseline, Normal(text))
  /\ Len(text) = n /\ Len(sent) = Len(baseline)

\* Processing the text keeps both.
LEMMA ProcessingKeepsOrder ==
  ASSUME NEW text \in Seq(Char), NEW baseline \in Seq(Clean),
         NEW sent \in Seq(Clean), NEW n \in Nat,
         OrderedOn(text, baseline, sent, n)
  PROVE  OrderedOn(Normal(text), Normal(text),
                   sent \o Appended(baseline, Normal(text)), n)
<1> DEFINE t == Normal(text)
           new == Appended(baseline, t)
           all == sent \o new
<1>1. /\ t \in Seq(Clean) /\ Len(t) = Len(text)
      /\ \A i \in 1..Len(t) : t[i].id = text[i].id
  BY NormalText
<1>2. /\ DOMAIN t = 1..Len(t) /\ DOMAIN text = 1..Len(t) /\ Len(t) \in Nat
      /\ DOMAIN sent = 1..Len(sent) /\ Len(sent) \in Nat
      /\ DOMAIN baseline = 1..Len(baseline) /\ Len(baseline) \in Nat
      /\ \A i \in 1..Len(t) : t[i].id \in Nat
      /\ \A i \in 1..Len(sent) : sent[i].id \in Nat
  <2>1. \A c \in Clean : c.id \in Nat
    BY LimitsAssumption DEF Clean
  <2>2. /\ \A i \in 1..Len(t) : t[i] \in Clean
        /\ \A i \in 1..Len(sent) : sent[i] \in Clean
    BY <1>1, ElementOfSeq
  <2> HIDE DEF t
  <2>3. /\ DOMAIN t = 1..Len(t) /\ DOMAIN text = 1..Len(t) /\ Len(t) \in Nat
        /\ DOMAIN sent = 1..Len(sent) /\ Len(sent) \in Nat
        /\ DOMAIN baseline = 1..Len(baseline) /\ Len(baseline) \in Nat
    BY <1>1, LenProperties
  <2> QED
    BY <2>1, <2>2, <2>3
<1> HIDE DEF t
<1>3. /\ Rising(t)
      /\ \A i \in 1..Len(t) : t[i].id <= n
      /\ \A i \in 1..Len(t) :
           \/ \E j \in 1..Len(baseline) : baseline[j].id = t[i].id
           \/ \A j \in 1..Len(sent) : sent[j].id < t[i].id
  <2>1. /\ \A i, j \in 1..Len(t) : i < j => text[i].id < text[j].id
        /\ \A i \in 1..Len(t) : text[i].id <= n
        /\ \A i \in 1..Len(t) :
             \/ \E j \in 1..Len(baseline) : baseline[j].id = text[i].id
             \/ \A j \in 1..Len(sent) : sent[j].id < text[i].id
    BY <1>2 DEF OrderedOn, Rising
  <2>2. \A i, j \in 1..Len(t) : i < j => t[i].id < t[j].id
    BY <1>1, <2>1
  <2> QED
    BY <1>1, <1>2, <2>1, <2>2 DEF Rising
<1>4. new \in Seq(Clean) /\ Len(new) \in Nat /\ DOMAIN new = 1..Len(new)
  BY <1>1, AppendedText, LenProperties
<1>5. \A i \in 1..Len(new) :
        /\ Len(baseline) + i \in 1..Len(t) /\ new[i] = t[Len(baseline) + i]
        /\ \A j \in 1..Len(sent) : sent[j].id < new[i].id
  <2>1. CASE IsPrefix(baseline, t)
    <3>1. /\ Len(baseline) <= Len(t) /\ Len(new) = Len(t) - Len(baseline)
          /\ \A i \in 1..Len(baseline) : baseline[i] = t[i]
          /\ \A i \in 1..Len(t) - Len(baseline) : new[i] = t[Len(baseline) + i]
      BY <1>1, <2>1, PrefixMeans, AppendedText
    <3> SUFFICES ASSUME NEW i \in 1..Len(new)
                 PROVE  /\ Len(baseline) + i \in 1..Len(t)
                        /\ new[i] = t[Len(baseline) + i]
                        /\ \A j \in 1..Len(sent) : sent[j].id < new[i].id
      OBVIOUS
    <3>2. Len(baseline) + i \in 1..Len(t) /\ new[i] = t[Len(baseline) + i]
      BY <1>2, <3>1
    <3>3. \A j \in 1..Len(baseline) : baseline[j].id # t[Len(baseline) + i].id
      <4> SUFFICES ASSUME NEW j \in 1..Len(baseline)
                   PROVE  baseline[j].id # t[Len(baseline) + i].id
        OBVIOUS
      <4>1. j \in 1..Len(t) /\ j < Len(baseline) + i
        BY <1>2, <3>1
      <4>2. t[j].id < t[Len(baseline) + i].id
        BY <1>2, <1>3, <3>2, <4>1 DEF Rising
      <4>3. baseline[j].id = t[j].id
        BY <3>1
      <4> QED
        BY <1>2, <3>2, <4>1, <4>2, <4>3
    <3> QED
      BY <1>3, <3>2, <3>3
  <2>2. CASE ~IsPrefix(baseline, t)
    BY <1>1, <2>2, AppendedText, EmptySeq
  <2> QED
    BY <2>1, <2>2
<1>6. /\ all \in Seq(Clean) /\ Len(all) = Len(sent) + Len(new)
      /\ DOMAIN all = 1..Len(sent) + Len(new)
      /\ \A i \in 1..Len(sent) + Len(new) :
           all[i] = IF i <= Len(sent) THEN sent[i] ELSE new[i - Len(sent)]
  BY <1>4, ConcatProperties, LenProperties
<1>7. /\ Rising(sent) /\ \A i \in 1..Len(sent) : sent[i].id <= n
  BY <1>2 DEF OrderedOn
<1> HIDE DEF t, new, all
<1>8. \A i \in 1..Len(sent) + Len(new) :
        \/ i \in 1..Len(sent) /\ all[i] = sent[i]
        \/ /\ i - Len(sent) \in 1..Len(new) /\ i > Len(sent)
           /\ all[i] = new[i - Len(sent)]
  BY <1>2, <1>4, <1>6
<1>9. \A i \in DOMAIN all : all[i].id <= n
  BY <1>3, <1>5, <1>6, <1>7, <1>8
<1>10. Rising(all)
  <2> SUFFICES ASSUME NEW i \in 1..Len(sent) + Len(new),
                      NEW j \in 1..Len(sent) + Len(new), i < j
               PROVE  all[i].id < all[j].id
    BY <1>6 DEF Rising
  <2>1. CASE j \in 1..Len(sent)
    <3>1. i \in 1..Len(sent) /\ all[i] = sent[i] /\ all[j] = sent[j]
      BY <1>2, <1>8, <2>1
    <3> QED
      BY <1>2, <1>7, <2>1, <3>1 DEF Rising
  <2>2. CASE i \in 1..Len(sent) /\ j \notin 1..Len(sent)
    <3>1. all[i] = sent[i]
      BY <1>8, <2>2
    <3>2. j - Len(sent) \in 1..Len(new) /\ all[j] = new[j - Len(sent)]
      BY <1>8, <2>2
    <3> QED
      BY <1>5, <2>2, <3>1, <3>2
  <2>3. CASE i \notin 1..Len(sent) /\ j \notin 1..Len(sent)
    <3> DEFINE k == i - Len(sent)
               l == j - Len(sent)
    <3>1. /\ k \in 1..Len(new) /\ l \in 1..Len(new) /\ k < l
          /\ all[i] = new[k] /\ all[j] = new[l]
      BY <1>2, <1>4, <1>8, <2>3
    <3> HIDE DEF k, l
    <3>2. /\ Len(baseline) + k \in DOMAIN t /\ Len(baseline) + l \in DOMAIN t
          /\ Len(baseline) + k < Len(baseline) + l
          /\ new[k] = t[Len(baseline) + k] /\ new[l] = t[Len(baseline) + l]
      BY <1>2, <1>4, <1>5, <3>1
    <3> QED
      BY <1>3, <3>1, <3>2 DEF Rising
  <2> QED
    BY <1>2, <2>1, <2>2, <2>3
<1>11. \A i \in DOMAIN t : \E j \in DOMAIN t : t[j].id = t[i].id
  OBVIOUS
<1>12. OrderedOn(t, t, all, n)
  BY <1>2, <1>3, <1>9, <1>10, <1>11 DEF OrderedOn
<1> QED
  BY <1>12 DEF t, new, all

LEMMA ProcessingKeepsComplete ==
  ASSUME NEW text \in Seq(Char), NEW baseline \in Seq(Clean),
         NEW sent \in Seq(Clean), NEW n \in Nat,
         CompleteOn(text, baseline, sent, n)
  PROVE  CompleteOn(Normal(text), Normal(text),
                    sent \o Appended(baseline, Normal(text)), n)
<1> DEFINE t == Normal(text)
           new == Appended(baseline, t)
<1>1. t \in Seq(Clean) /\ Len(t) = n /\ Normal(t) = t
  BY NormalText, NormalOfClean DEF CompleteOn
<1>2. new \in Seq(Clean) /\ Len(new) = Len(t) - Len(baseline)
  BY <1>1, AppendedText DEF CompleteOn
<1>3. Len(sent \o new) = Len(sent) + Len(new)
  BY <1>2, ConcatProperties
<1>4. Len(sent) = Len(baseline) /\ Len(baseline) \in Nat /\ Len(t) \in Nat
  BY <1>1, LenProperties DEF CompleteOn
<1>5. IsPrefix(t, t)
  BY <1>4 DEF IsPrefix
<1> HIDE DEF t, new
<1>6. CompleteOn(t, t, sent \o new, n)
  BY <1>1, <1>2, <1>3, <1>4, <1>5 DEF CompleteOn
<1> QED
  BY <1>6 DEF t, new

\* So does typing the next character,
LEMMA TypingKeepsOrder ==
  ASSUME NEW text \in Seq(Char), NEW baseline, NEW sent, NEW n \in Nat,
         NEW c \in Char, c.id = n + 1, OrderedOn(text, baseline, sent, n),
         \A i \in DOMAIN sent : sent[i].id \in Nat
  PROVE  OrderedOn(Append(text, c), baseline, sent, n + 1)
<1>1. /\ Len(text) \in Nat /\ DOMAIN text = 1..Len(text)
      /\ DOMAIN Append(text, c) = 1..Len(text) + 1
      /\ \A i \in 1..Len(text) : Append(text, c)[i] = text[i]
      /\ Append(text, c)[Len(text) + 1] = c
  BY AppendProperties, LenProperties
<1>2. \A i \in 1..Len(text) + 1 :
        \/ i \in 1..Len(text) /\ Append(text, c)[i] = text[i]
        \/ i = Len(text) + 1 /\ Append(text, c)[i] = c
  BY <1>1
<1>3. \A i \in 1..Len(text) : text[i].id \in Nat
  <2>1. \A d \in Char : d.id \in Nat
    BY LimitsAssumption DEF Char
  <2> QED
    BY <2>1, ElementOfSeq
<1>4. Rising(Append(text, c))
  <2> SUFFICES ASSUME NEW i \in 1..Len(text) + 1, NEW j \in 1..Len(text) + 1, i < j
               PROVE  Append(text, c)[i].id < Append(text, c)[j].id
    BY <1>1 DEF Rising
  <2>1. i \in 1..Len(text) /\ Append(text, c)[i] = text[i]
    BY <1>1
  <2>2. text[i].id <= n
    BY <1>1, <2>1 DEF OrderedOn
  <2>3. CASE j \in 1..Len(text)
    <3>1. Append(text, c)[j] = text[j] /\ text[i].id < text[j].id
      BY <1>1, <2>1, <2>3 DEF OrderedOn, Rising
    <3> QED
      BY <2>1, <3>1
  <2>4. CASE j = Len(text) + 1
    BY <1>1, <1>3, <2>1, <2>2, <2>4
  <2> QED
    BY <1>2, <2>3, <2>4
<1>5. \A i \in 1..Len(text) + 1 : Append(text, c)[i].id <= n + 1
  BY <1>1, <1>2, <1>3 DEF OrderedOn
<1>6. \A i \in DOMAIN sent : sent[i].id < n + 1
  BY DEF OrderedOn
<1>7. \A i \in 1..Len(text) + 1 :
        \/ \E j \in DOMAIN baseline : baseline[j].id = Append(text, c)[i].id
        \/ \A j \in DOMAIN sent : sent[j].id < Append(text, c)[i].id
  BY <1>1, <1>2, <1>6 DEF OrderedOn
<1> QED
  BY <1>1, <1>4, <1>5, <1>6, <1>7 DEF OrderedOn

LEMMA TypingKeepsComplete ==
  ASSUME NEW text \in Seq(Char), NEW baseline \in Seq(Clean), NEW sent,
         NEW n \in Nat, NEW c \in Char, CompleteOn(text, baseline, sent, n)
  PROVE  CompleteOn(Append(text, c), baseline, sent, n + 1)
<1> DEFINE more == Append(text, c)
<1>1. /\ more \in Seq(Char) /\ Len(more) = Len(text) + 1 /\ Len(text) \in Nat
      /\ \A i \in 1..Len(text) : more[i] = text[i]
  BY AppendProperties, LenProperties
<1>2. /\ Len(baseline) <= Len(text) /\ Len(baseline) \in Nat
      /\ \A i \in 1..Len(baseline) : baseline[i] = Normal(text)[i]
  BY NormalText, PrefixMeans, LenProperties DEF CompleteOn
<1> HIDE DEF more
<1>3. \A i \in 1..Len(baseline) : baseline[i] = Normal(more)[i]
  <2> SUFFICES ASSUME NEW i \in 1..Len(baseline)
               PROVE  baseline[i] = Normal(more)[i]
    OBVIOUS
  <2>1. i \in 1..Len(text) /\ i \in 1..Len(more) /\ more[i] = text[i]
    BY <1>1, <1>2
  <2>2. /\ Normal(text)[i] = [text[i] EXCEPT !.ctl = FALSE]
        /\ Normal(more)[i] = [more[i] EXCEPT !.ctl = FALSE]
    BY <1>1, <2>1, NormalText
  <2> QED
    BY <1>2, <2>1, <2>2
<1>4. Normal(more) \in Seq(Clean) /\ Len(Normal(more)) = Len(text) + 1
  BY <1>1, NormalText
<1>5. IsPrefix(baseline, Normal(more))
  BY <1>1, <1>2, <1>3, <1>4, PrefixIf
<1> QED
  BY <1>1, <1>5 DEF CompleteOn, more

\* and deleting one keeps the order.
LEMMA EditingKeepsOrder ==
  ASSUME NEW text \in Seq(Char), NEW baseline, NEW sent, NEW n \in Nat,
         NEW i \in DOMAIN text, OrderedOn(text, baseline, sent, n)
  PROVE  OrderedOn(RemoveAt(text, i), baseline, sent, n)
<1> DEFINE less == RemoveAt(text, i)
           from(j) == IF j < i THEN j ELSE j + 1
<1>1. /\ Len(text) \in Nat /\ DOMAIN text = 1..Len(text)
      /\ less \in Seq(Char) /\ DOMAIN less = 1..Len(text) - 1
      /\ \A j \in 1..Len(text) - 1 : less[j] = IF j < i THEN text[j] ELSE text[j + 1]
  BY TextRemoved, LenProperties
<1>2. \A j \in DOMAIN less : from(j) \in DOMAIN text /\ less[j] = text[from(j)]
  BY <1>1
<1>3. \A j, k \in DOMAIN less : j < k => from(j) < from(k)
  BY <1>1
<1> HIDE DEF less, from
<1>4. Rising(less)
  BY <1>2, <1>3 DEF OrderedOn, Rising
<1>5. OrderedOn(less, baseline, sent, n)
  BY <1>2, <1>4 DEF OrderedOn
<1> QED
  BY <1>5 DEF less

-----------------------------------------------------------------------------
(* The invariant.                                                          *)

\* The file is the Activity's state, as far as a restart can tell.
Mirrors ==
  ~outlived =>
    /\ disk.baseline = activity.baseline /\ disk.queue = activity.queue
    /\ Normal(disk.draft) = Normal(activity.text)

Ordered ==
  ~outlived => OrderedOn(activity.text, activity.baseline, queued, typed)

\* Neither edited nor cleared so far.
Untouched == \A event \in {"edit", "clear"} : left[event] = Limits[event]

Complete ==
  ~outlived /\ Untouched =>
    CompleteOn(activity.text, activity.baseline, queued, typed)

Spent == \A event \in Events : left[event] <= Limits[event]

DraftInv ==
  TypeOK /\ UnprocessedIsScheduled /\ Mirrors /\ Ordered /\ Complete /\ Spent

LEMMA InitDraft == Init => DraftInv
<1> SUFFICES ASSUME Init PROVE DraftInv
  OBVIOUS
<1>1. /\ activity.text = <<>> /\ activity.baseline = <<>> /\ activity.queue = <<>>
      /\ disk.draft = <<>> /\ disk.baseline = <<>> /\ disk.queue = <<>>
      /\ queued = <<>> /\ typed = 0 /\ left = Limits /\ Normal(<<>>) = <<>>
  BY EmptySeq, NormalOfClean DEF Init
<1>2. TypeOK
  <2>1. \A S : <<>> \in Seq(S)
    BY EmptySeq
  <2>2. activity \in Activity /\ disk \in Disk
    BY <2>1 DEF Init, Activity, Disk
  <2>3. queued \in Seq(Clean)
    BY <1>1, <2>1
  <2>4. typed \in 0..MaxChars /\ left \in [Events -> Nat]
    BY <1>1, LimitsAssumption
  <2>5. old \in Activity \cup {None} /\ outlived \in BOOLEAN
    BY DEF Init
  <2> QED
    BY <2>2, <2>3, <2>4, <2>5 DEF TypeOK
<1>3. UnprocessedIsScheduled /\ Mirrors /\ Spent
  BY <1>1, LimitsAssumption DEF UnprocessedIsScheduled, Mirrors, Spent
<1>4. DOMAIN <<>> = {} /\ Len(<<>>) = 0
  OBVIOUS
<1>5. OrderedOn(<<>>, <<>>, <<>>, 0)
  BY <1>4 DEF OrderedOn, Rising
<1>6. CompleteOn(<<>>, <<>>, <<>>, 0)
  BY <1>1, <1>4 DEF CompleteOn, IsPrefix
<1> QED
  BY <1>1, <1>2, <1>3, <1>5, <1>6 DEF DraftInv, Ordered, Complete

\* What the order lemmas ask of the state.
LEMMA DraftTypes ==
  ASSUME TypeOK
  PROVE  /\ activity \in Activity /\ disk \in Disk /\ typed \in Nat
         /\ activity.text \in Seq(Char) /\ activity.baseline \in Seq(Clean)
         /\ activity.queue \in Seq(Seq(Clean))
         /\ disk.draft \in Seq(Char) /\ disk.baseline \in Seq(Clean)
         /\ queued \in Seq(Clean)
         /\ \A i \in DOMAIN queued : queued[i].id \in Nat
<1>1. /\ activity \in Activity /\ disk \in Disk /\ typed \in Nat
      /\ queued \in Seq(Clean)
  BY LimitsAssumption DEF TypeOK
<1>2. \A i \in DOMAIN queued : queued[i].id \in Nat
  <2>1. \A c \in Clean : c.id \in Nat
    BY LimitsAssumption DEF Clean
  <2> QED
    BY <1>1, <2>1, ElementOfSeq, LenProperties
<1> QED
  BY <1>1, <1>2 DEF Activity, Disk

LEMMA StaysUntouched ==
  ASSUME TypeOK, Spent,
         \A event \in Events : left'[event] = left[event] \/ left'[event] = left[event] - 1
  PROVE  /\ Spent'
         /\ Untouched' => Untouched
         /\ \A event \in {"edit", "clear"} :
              Untouched' => left'[event] = left[event]
BY LimitsAssumption DEF TypeOK, Spent, Untouched, Events

LEMMA HappensSpends ==
  ASSUME TypeOK, NEW event \in Events, Happens(event)
  PROVE  /\ \A e \in Events : left'[e] = left[e] \/ left'[e] = left[e] - 1
         /\ left'[event] # left[event]
BY DEF TypeOK, Happens

LEMMA SavedMirrors ==
  ASSUME disk' = Saved(activity')
  PROVE  Mirrors'
BY DEF Mirrors, Saved

\* The text is processed by the Activity, or by the next one that restores it.
LEMMA SettledKeeps ==
  ASSUME TypeOK, Ordered, Complete, Spent, outlived' = outlived, typed' = typed,
         \A event \in Events : left'[event] = left[event] \/ left'[event] = left[event] - 1,
         ~outlived =>
           /\ activity'.text = Normal(activity.text)
           /\ activity'.baseline = Normal(activity.text)
           /\ queued' = queued \o Unsent(activity)
  PROVE  Ordered' /\ Complete' /\ Spent'
<1>1. CASE outlived
  BY <1>1, StaysUntouched DEF Ordered, Complete
<1>2. CASE ~outlived
  <2>1. Ordered'
    BY <1>2, DraftTypes, ProcessingKeepsOrder DEF Ordered, Unsent
  <2>2. Complete'
    BY <1>2, DraftTypes, StaysUntouched, ProcessingKeepsComplete DEF Complete, Unsent
  <2> QED
    BY <2>1, <2>2, StaysUntouched
<1> QED
  BY <1>1, <1>2

\* A new Activity has nothing unprocessed, and the file says the same.
LEMMA CreatedSettles ==
  ASSUME NEW d \in Disk, Created(d), queued \in Seq(Clean)
  PROVE  /\ activity'.text = Normal(d.draft) /\ activity'.baseline = Normal(d.draft)
         /\ queued' = queued \o Appended(d.baseline, Normal(d.draft))
         /\ UnprocessedIsScheduled' /\ Mirrors'
<1>1. activity' = Restored(d) /\ disk' = Saved(activity')
  BY DEF Created
<1>2. activity'.text = Normal(d.draft) /\ activity'.baseline = Normal(d.draft)
  BY <1>1 DEF Restored
<1>3. Normal(Normal(d.draft)) = Normal(d.draft)
  BY NormalText, NormalOfClean DEF Disk
<1> QED
  BY <1>1, <1>2, <1>3, SavedMirrors, QueuedByCreated DEF UnprocessedIsScheduled

LEMMA RestartInv ==
  ASSUME DraftInv, Kill \/ Recreate
  PROVE  DraftInv'
<1> USE DEF DraftInv
<1>1. PICK d \in {disk, Saved(activity)} :
        /\ Created(d) /\ UNCHANGED <<typed, outlived>>
        /\ \A event \in Events : left'[event] = left[event] \/ left'[event] = left[event] - 1
  BY HappensSpends DEF Kill, Recreate, Events
<1>2. d \in Disk /\ queued \in Seq(Clean)
  BY DraftTypes, SavedTyped
<1>3. /\ activity'.text = Normal(d.draft) /\ activity'.baseline = Normal(d.draft)
      /\ queued' = queued \o Appended(d.baseline, Normal(d.draft))
      /\ UnprocessedIsScheduled' /\ Mirrors'
  BY <1>1, <1>2, CreatedSettles
<1>4. ~outlived => /\ d.baseline = activity.baseline
                   /\ Normal(d.draft) = Normal(activity.text)
  BY DEF Mirrors, Saved
<1>5. Ordered' /\ Complete' /\ Spent'
  BY <1>1, <1>3, <1>4, SettledKeeps DEF Unsent
<1>6. TypeOK'
  BY TypeStep DEF Next
<1> QED
  BY <1>3, <1>5, <1>6

LEMMA ProcessInv ==
  ASSUME DraftInv, ProcessInput
  PROVE  DraftInv'
<1> USE DEF DraftInv
<1>1. /\ activity'.text = Normal(activity.text)
      /\ activity'.baseline = Normal(activity.text)
      /\ activity'.queue = WithOp(activity.queue, Unsent(activity))
      /\ queued' = queued \o Unsent(activity)
      /\ UNCHANGED <<typed, outlived, left>>
  BY DraftTypes DEF ProcessInput, Processed, Activity
<1>2. Normal(Normal(activity.text)) = Normal(activity.text)
  BY DraftTypes, NormalText, NormalOfClean
<1>3. UnprocessedIsScheduled'
  BY <1>1, <1>2 DEF UnprocessedIsScheduled
<1>4. Mirrors'
  <2>1. CASE Normal(activity.text) = activity.baseline
    <3>1. Unsent(activity) = <<>>
      BY <2>1, DraftTypes, NothingAppended DEF Unsent
    <3>2. disk' = [disk EXCEPT !.draft = activity.baseline]
      BY <2>1 DEF ProcessInput, SavedByProcessing
    <3>3. /\ disk'.draft = activity.baseline /\ disk'.baseline = disk.baseline
          /\ disk'.queue = disk.queue
      BY <3>2, DraftTypes DEF Disk
    <3>4. activity'.queue = activity.queue
      BY <1>1, <3>1 DEF WithOp
    <3> QED
      BY <1>1, <1>2, <2>1, <3>3, <3>4 DEF Mirrors
  <2>2. CASE Normal(activity.text) # activity.baseline
    BY <2>2, SavedMirrors DEF ProcessInput, SavedByProcessing
  <2> QED
    BY <2>1, <2>2
<1>5. Ordered' /\ Complete' /\ Spent'
  BY <1>1, SettledKeeps
<1>6. TypeOK'
  BY TypeStep DEF Next
<1> QED
  BY <1>3, <1>4, <1>5, <1>6

\* The text is shown again, with one character more or one less.
LEMMA ShownKeeps ==
  ASSUME TypeOK, Mirrors, NEW text \in Seq(Char), NEW composing \in BOOLEAN,
         Shown(text, composing), outlived' = outlived
  PROVE  /\ activity'.text = text /\ activity'.baseline = activity.baseline
         /\ UnprocessedIsScheduled' /\ Mirrors'
<1>1. /\ activity'.text = text /\ activity'.baseline = activity.baseline
      /\ activity'.queue = activity.queue /\ activity'.armed
  BY DraftTypes DEF Shown, Activity
<1>2. /\ disk'.draft = text /\ disk'.baseline = disk.baseline
      /\ disk'.queue = disk.queue
  BY DraftTypes DEF Shown, Disk
<1> QED
  BY <1>1, <1>2 DEF UnprocessedIsScheduled, Mirrors

LEMMA TypingInv ==
  ASSUME DraftInv, Type
  PROVE  DraftInv'
<1> USE DEF DraftInv
<1>1. PICK ctl, composing \in BOOLEAN :
        Shown(Append(activity.text, [id |-> typed + 1, ctl |-> ctl]), composing)
  BY DEF Type
<1> DEFINE c == [id |-> typed + 1, ctl |-> ctl]
<1>2. c \in Char /\ Append(activity.text, c) \in Seq(Char) /\ c.id = typed + 1
  BY TypedText DEF Type
<1>3. typed' = typed + 1 /\ UNCHANGED <<queued, outlived, left>>
  BY DEF Type
<1> HIDE DEF c
<1>4. Shown(Append(activity.text, c), composing)
  BY <1>1 DEF c
<1>5. /\ activity'.text = Append(activity.text, c)
      /\ activity'.baseline = activity.baseline
      /\ UnprocessedIsScheduled' /\ Mirrors'
  BY <1>2, <1>3, <1>4, ShownKeeps
<1>6. Ordered'
  BY <1>2, <1>3, <1>5, DraftTypes, TypingKeepsOrder DEF Ordered
<1>7. Complete' /\ Spent'
  BY <1>2, <1>3, <1>5, DraftTypes, TypingKeepsComplete
     DEF Complete, Spent, Untouched
<1>8. TypeOK'
  BY TypeStep DEF Next
<1> QED
  BY <1>5, <1>6, <1>7, <1>8

LEMMA EditingInv ==
  ASSUME DraftInv, Edit
  PROVE  DraftInv'
<1> USE DEF DraftInv
<1>1. PICK i \in DOMAIN activity.text : Shown(RemoveAt(activity.text, i), FALSE)
  BY DEF Edit
<1>2. UNCHANGED <<queued, typed, outlived>> /\ Happens("edit") /\ "edit" \in Events
  BY DEF Edit, Events
<1>3. RemoveAt(activity.text, i) \in Seq(Char)
  BY DraftTypes, TextRemoved
<1>4. /\ activity'.text = RemoveAt(activity.text, i)
      /\ activity'.baseline = activity.baseline
      /\ UnprocessedIsScheduled' /\ Mirrors'
  BY <1>1, <1>2, <1>3, ShownKeeps
<1>5. Ordered'
  BY <1>2, <1>4, DraftTypes, EditingKeepsOrder DEF Ordered
<1>6. Complete' /\ Spent'
  BY <1>2, HappensSpends, StaysUntouched DEF Complete
<1>7. TypeOK'
  BY TypeStep DEF Next
<1> QED
  BY <1>4, <1>5, <1>6, <1>7

\* Steps that leave text, baseline, history and limits alone.
LEMMA QuietInv ==
  ASSUME DraftInv, ComposingEnds \/ Deliver \/ Pause
  PROVE  DraftInv'
<1> USE DEF DraftInv
<1>1. /\ activity'.text = activity.text /\ activity'.baseline = activity.baseline
      /\ activity'.armed = activity.armed
      /\ UNCHANGED <<typed, queued, outlived, left>>
  BY DraftTypes DEF ComposingEnds, Deliver, Pause, Activity
<1>2. Mirrors'
  <2>1. CASE ComposingEnds
    BY <2>1, DraftTypes DEF ComposingEnds, Mirrors, Activity
  <2>2. CASE Deliver \/ Pause
    BY <2>2, SavedMirrors DEF Deliver, Pause
  <2> QED
    BY <2>1, <2>2
<1>3. UnprocessedIsScheduled' /\ Ordered' /\ Complete' /\ Spent'
  BY <1>1 DEF UnprocessedIsScheduled, Ordered, Complete, Untouched, Spent
<1>4. TypeOK'
  BY TypeStep DEF Next
<1> QED
  BY <1>2, <1>3, <1>4

\* Clearing leaves nothing to queue; what was sent keeps its order.
LEMMA ClearedOrder ==
  ASSUME OrderedOn(activity.text, activity.baseline, queued, typed)
  PROVE  OrderedOn(<<>>, <<>>, queued, typed)
BY DEF OrderedOn, Rising

LEMMA ClearingInv ==
  ASSUME DraftInv, ClearLocalInput
  PROVE  DraftInv'
<1> USE DEF DraftInv
<1>1. /\ activity'.text = <<>> /\ activity'.baseline = <<>>
      /\ disk' = Saved(activity')
      /\ UNCHANGED <<typed, queued, outlived>>
      /\ Happens("clear") /\ "clear" \in Events
  BY DraftTypes DEF ClearLocalInput, Activity, Events
<1>2. UnprocessedIsScheduled'
  BY <1>1, EmptySeq, NormalOfClean DEF UnprocessedIsScheduled
<1>3. Ordered'
  BY <1>1, ClearedOrder DEF Ordered
<1>4. Complete' /\ Spent'
  BY <1>1, HappensSpends, StaysUntouched DEF Complete
<1>5. TypeOK' /\ Mirrors'
  BY <1>1, TypeStep, SavedMirrors DEF Next
<1> QED
  BY <1>2, <1>3, <1>4, <1>5

LEMMA KilledClearingInv ==
  ASSUME DraftInv, KilledWhileClearing
  PROVE  DraftInv'
<1> USE DEF DraftInv
<1> DEFINE d == [disk EXCEPT !.draft = <<>>]
<1>1. /\ Created(d) /\ UNCHANGED <<typed, outlived>>
      /\ \A event \in Events : left'[event] = left[event] \/ left'[event] = left[event] - 1
      /\ left'["clear"] # left["clear"] /\ "clear" \in Events
  BY DEF KilledWhileClearing, TypeOK, Events
<1>2. d \in Disk /\ queued \in Seq(Clean) /\ d.draft = <<>> /\ d.baseline \in Seq(Clean)
  BY DraftTypes, EmptySeq DEF Disk
<1> HIDE DEF d
<1>3. /\ activity'.text = Normal(d.draft) /\ activity'.baseline = Normal(d.draft)
      /\ queued' = queued \o Appended(d.baseline, Normal(d.draft))
      /\ UnprocessedIsScheduled' /\ Mirrors'
  BY <1>1, <1>2, CreatedSettles
<1>4. <<>> \in Seq(Clean) /\ Len(<<>>) = 0 /\ Normal(<<>>) = <<>>
  BY EmptySeq, NormalOfClean
<1>5. Appended(d.baseline, <<>>) = <<>>
  <2>1. CASE IsPrefix(d.baseline, <<>>)
    <3>1. Len(d.baseline) = 0
      BY <1>2, <1>4, <2>1, LenProperties DEF IsPrefix
    <3>2. d.baseline = <<>>
      BY <1>2, <3>1, EmptySeq
    <3> QED
      BY <1>4, <3>2, NothingAppended
  <2>2. CASE ~IsPrefix(d.baseline, <<>>)
    BY <2>2 DEF Appended
  <2> QED
    BY <2>1, <2>2
<1>6. activity'.text = <<>> /\ activity'.baseline = <<>> /\ queued' = queued
  BY <1>2, <1>3, <1>4, <1>5, ConcatEmptySeq
<1>7. Ordered'
  BY <1>1, <1>6, ClearedOrder DEF Ordered
<1>8. Complete' /\ Spent'
  BY <1>1, StaysUntouched DEF Complete
<1>9. TypeOK'
  BY TypeStep DEF Next
<1> QED
  BY <1>3, <1>7, <1>8, <1>9

LEMMA NextDraft == DraftInv /\ [Next]_vars => DraftInv'
<1> SUFFICES ASSUME DraftInv, [Next]_vars
             PROVE  DraftInv'
  OBVIOUS
<1>1. CASE Kill \/ Recreate
  BY <1>1, RestartInv
<1>2. CASE ProcessInput
  BY <1>2, ProcessInv
<1>3. CASE Type
  BY <1>3, TypingInv
<1>4. CASE Edit
  BY <1>4, EditingInv
<1>5. CASE ComposingEnds \/ Deliver \/ Pause
  BY <1>5, QuietInv
<1>6. CASE ClearLocalInput
  BY <1>6, ClearingInv
<1>7. CASE KilledWhileClearing
  BY <1>7, KilledClearingInv
<1>8. CASE OldProcessesInput
  <2>1. outlived' = TRUE /\ UNCHANGED <<activity, left>>
    BY <1>8 DEF OldProcessesInput
  <2>2. TypeOK'
    BY <1>8, TypeStep DEF DraftInv
  <2> QED
    BY <2>1, <2>2 DEF DraftInv, UnprocessedIsScheduled, Mirrors, Ordered, Complete, Spent
<1>9. CASE UNCHANGED vars
  <2>1. TypeOK'
    BY <1>9, TypeStep DEF DraftInv
  <2> QED
    BY <1>9, <2>1
       DEF vars, DraftInv, UnprocessedIsScheduled, Mirrors, Ordered, Complete,
           Untouched, Spent
<1> QED
  BY <1>1, <1>2, <1>3, <1>4, <1>5, <1>6, <1>7, <1>8, <1>9 DEF Next

LEMMA SpecDraft == Spec => []DraftInv
BY InitDraft, NextDraft, PTL DEF Spec

-----------------------------------------------------------------------------
(* The theorems.                                                           *)

\* The saved draft, baseline and queue are texts of the kinds MainActivity
\* writes: a baseline and a queue without control characters, a draft that may
\* have some.
THEOREM DraftTypesHold == Spec => []TypeOK
<1>1. DraftInv => TypeOK
  BY DEF DraftInv
<1> QED
  BY <1>1, SpecDraft, PTL

\* persistDraft, persistDeliveryState and restorePersistentInputState: however
\* the process is killed, the next Activity restores the text and the queue
\* that processing now would have given.
THEOREM KillCostsNothing == Spec => []KillIsHarmless
<1>1. DraftInv => KillIsHarmless
  <2> SUFFICES ASSUME DraftInv, ~outlived
               PROVE  /\ Restored(disk).text = Processed(activity).text
                      /\ Restored(disk).queue = Processed(activity).queue
    BY DEF KillIsHarmless
  <2>1. /\ disk.baseline = activity.baseline /\ disk.queue = activity.queue
        /\ Normal(disk.draft) = Normal(activity.text)
    BY DEF DraftInv, Mirrors
  <2>2. /\ Processed(activity).text = Normal(activity.text)
        /\ Processed(activity).queue = WithOp(activity.queue, Unsent(activity))
    BY DraftTypes DEF DraftInv, Processed, Activity
  <2> QED
    BY <2>1, <2>2 DEF Restored, Unsent
<1> QED
  BY <1>1, SpecDraft, PTL

\* onTextChanged, maybeProcessInputText and restorePersistentInputState: the
\* posted runnable is never missing while there is text it has to process.
THEOREM DifferenceIsScheduled == Spec => []UnprocessedIsScheduled
<1>1. DraftInv => UnprocessedIsScheduled
  BY DEF DraftInv
<1> QED
  BY <1>1, SpecDraft, PTL

\* maybeProcessInputText and restorePersistentInputState: each character typed
\* is queued once and in the order of typing, through edits, kills and
\* recreations; and none is missing as long as the user only appends.
THEOREM TypedIsQueuedOnce == Spec => []TypedIsQueued
<1>1. DraftInv => TypedIsQueued
  <2> SUFFICES ASSUME DraftInv
               PROVE  TypedIsQueued
    OBVIOUS
  <2> DEFINE all == queued \o Unsent(activity)
  <2>1. ~outlived => Rising(all)
    BY DraftTypes, ProcessingKeepsOrder DEF DraftInv, Ordered, OrderedOn, Unsent
  <2>2. all \in Seq(Clean)
    BY DraftTypes, UnsentTyped, ConcatProperties DEF DraftInv
  <2>3. QueuedOnceInOrder
    <3>1. /\ DOMAIN Ids(all) = DOMAIN all
          /\ \A i \in DOMAIN all : Ids(all)[i] = all[i].id
      BY DEF Ids
    <3> HIDE DEF all
    <3>2. ~outlived => \A i, j \in DOMAIN Ids(all) : i < j => Ids(all)[i] < Ids(all)[j]
      BY <2>1, <3>1 DEF Rising
    <3> QED
      BY <3>2 DEF QueuedOnceInOrder, all
  <2>4. NothingDropped
    <3> SUFFICES ASSUME ~outlived, left["edit"] = Limits["edit"],
                        left["clear"] = Limits["clear"]
                 PROVE  Len(all) = typed
      BY DEF NothingDropped
    <3>1. CompleteOn(activity.text, activity.baseline, queued, typed)
      BY DEF DraftInv, Complete, Untouched
    <3>2. CompleteOn(Normal(activity.text), Normal(activity.text), all, typed)
      BY <3>1, DraftTypes, ProcessingKeepsComplete DEF DraftInv, Unsent
    <3>3. Len(Normal(activity.text)) = typed
      BY <3>2 DEF CompleteOn
    <3> QED
      BY <3>2, <3>3 DEF CompleteOn
  <2> QED
    BY <2>3, <2>4 DEF TypedIsQueued
<1> QED
  BY <1>1, SpecDraft, PTL
=============================================================================
