----------------------------- MODULE PhoneDraft -----------------------------
(***************************************************************************)
(* MainActivity.kt: how the text in the input box becomes delivery         *)
(* operations, and how draft, baseline and queue are restored after the    *)
(* process was killed or the Activity was recreated.                       *)
(*                                                                         *)
(* A text is a sequence of characters.  Each is typed once and numbered in *)
(* the order of typing; ctl tells the control characters that              *)
(* InputSanitizer turns into spaces.  The box grows at its end and shrinks *)
(* anywhere.  What the connection does with the queue is PhoneDelivery;    *)
(* here its head is delivered at any time.                                 *)
(*                                                                         *)
(* SharedPreferences.commit returns when the file is written.  A process   *)
(* killed between the two commits of maybeProcessInputText has saved what  *)
(* onTextChanged had saved before, so only clearLocalInput shows a moment  *)
(* of its own (KilledWhileClearing).                                       *)
(***************************************************************************)
EXTENDS Naturals, SequencesExt

CONSTANTS
  None,      \* no destroyed Activity
  MaxChars,  \* bound: characters typed
  Limits     \* bound: how often each of the Events happens

Events == {"kill", "recreate", "clear", "edit"}

ASSUME LimitsAssumption == MaxChars \in Nat /\ Limits \in [Events -> Nat]

VARIABLES
  activity,  \* the Activity on the screen
  old,       \* a destroyed one whose processInputRunnable is still posted
  disk,      \* the saved draft, baseline and queue
  typed,     \* history: characters typed
  queued,    \* history: the texts of all operations ever queued, one after the other
  outlived,  \* history: the runnable of a destroyed Activity has run
  left       \* the events that may still happen

vars == <<activity, old, disk, typed, queued, outlived, left>>

Char  == [id : 1..MaxChars, ctl : BOOLEAN]
Clean == [id : 1..MaxChars, ctl : {FALSE}]

\* text: inputEditText; baseline: lastInputSnapshot; queue: the texts of
\* deliveryQueue; armed: processInputRunnable is posted.
Activity ==
  [text : Seq(Char), baseline : Seq(Clean), queue : Seq(Seq(Clean)),
   composing : BOOLEAN, armed : BOOLEAN]
Disk == [draft : Seq(Char), baseline : Seq(Clean), queue : Seq(Seq(Clean))]

TypeOK ==
  /\ activity \in Activity
  /\ old \in Activity \cup {None}
  /\ disk \in Disk
  /\ typed \in 0..MaxChars
  /\ queued \in Seq(Clean)
  /\ outlived \in BOOLEAN
  /\ left \in [Events -> Nat]

Init ==
  /\ activity = [text |-> <<>>, baseline |-> <<>>, queue |-> <<>>,
                 composing |-> FALSE, armed |-> FALSE]
  /\ old = None
  /\ disk = [draft |-> <<>>, baseline |-> <<>>, queue |-> <<>>]
  /\ typed = 0 /\ queued = <<>> /\ outlived = FALSE
  /\ left = Limits

Happens(event) ==
  /\ left[event] > 0
  /\ left' = [left EXCEPT ![event] = @ - 1]

-----------------------------------------------------------------------------
\* InputSanitizer.normalizeControlChars.
Normal(text) == [i \in DOMAIN text |-> [text[i] EXCEPT !.ctl = FALSE]]

\* What text appends to baseline; nothing after any other edit.
Appended(baseline, text) ==
  IF IsPrefix(baseline, text)
  THEN SubSeq(text, Len(baseline) + 1, Len(text)) ELSE <<>>

Unsent(a) == Appended(a.baseline, Normal(a.text))

\* DeliveryOps are not empty.
WithOp(queue, text) == IF text = <<>> THEN queue ELSE Append(queue, text)

\* persistDeliveryState.
Saved(a) == [draft |-> a.text, baseline |-> a.baseline, queue |-> a.queue]

\* maybeProcessInputText, when nothing is being composed: the appended text is
\* queued, and whatever was edited is the new baseline.
Processed(a) ==
  [a EXCEPT !.text = Normal(a.text), !.baseline = Normal(a.text),
            !.queue = WithOp(a.queue, Unsent(a)), !.armed = FALSE]

\* It saves everything, or the draft alone when there was nothing to process.
SavedByProcessing(a) ==
  IF Normal(a.text) = a.baseline
  THEN [disk EXCEPT !.draft = a.baseline] ELSE Saved(Processed(a))

\* Faulty variants of restorePersistentInputState: the draft is taken as
\* processed; the baseline stays as it was saved.
RestoredWithoutTail(d) ==
  [text |-> Normal(d.draft), baseline |-> Normal(d.draft), queue |-> d.queue,
   composing |-> FALSE, armed |-> FALSE]
RestoredOnOldBaseline(d) ==
  [text |-> Normal(d.draft), baseline |-> d.baseline,
   queue |-> WithOp(d.queue, Appended(d.baseline, Normal(d.draft))),
   composing |-> FALSE, armed |-> FALSE]

\* restorePersistentInputState: the tail of the draft that had not been queued
\* is queued, and the draft is the baseline.
Restored(d) ==
  [text |-> Normal(d.draft), baseline |-> Normal(d.draft),
   queue |-> WithOp(d.queue, Appended(d.baseline, Normal(d.draft))),
   composing |-> FALSE, armed |-> FALSE]

\* onCreate, after the state d was left on disk.
Created(d) ==
  /\ activity' = Restored(d)
  /\ disk' = Saved(Restored(d))
  /\ LET queue == Restored(d).queue
     IN queued' = IF Len(queue) > Len(d.queue) THEN queued \o Last(queue) ELSE queued

-----------------------------------------------------------------------------
\* Faulty variant: nothing is scheduled while the user composes.
ShownUnlessComposing(text, composing) ==
  /\ activity' = [activity EXCEPT !.text = text, !.composing = composing,
                                  !.armed = ~composing]
  /\ disk' = [disk EXCEPT !.draft = text]

\* onTextChanged and afterTextChanged: the draft is saved, and processing is
\* scheduled.
Shown(text, composing) ==
  /\ activity' = [activity EXCEPT !.text = text, !.composing = composing,
                                  !.armed = TRUE]
  /\ disk' = [disk EXCEPT !.draft = text]

Type ==
  /\ typed < MaxChars
  /\ typed' = typed + 1
  /\ \E ctl, composing \in BOOLEAN :
       Shown(Append(activity.text, [id |-> typed + 1, ctl |-> ctl]), composing)
  /\ UNCHANGED <<old, queued, outlived, left>>

\* One character is deleted.
Edit ==
  /\ Happens("edit")
  /\ \E i \in DOMAIN activity.text : Shown(RemoveAt(activity.text, i), FALSE)
  /\ UNCHANGED <<old, typed, queued, outlived>>

ComposingEnds ==
  /\ activity.composing
  /\ activity' = [activity EXCEPT !.composing = FALSE]
  /\ UNCHANGED <<old, disk, typed, queued, outlived, left>>

\* While the user composes, the runnable saves the draft and posts itself
\* again, which changes nothing.
ProcessInput ==
  /\ activity.armed /\ ~activity.composing
  /\ activity' = Processed(activity)
  /\ disk' = SavedByProcessing(activity)
  /\ queued' = queued \o Unsent(activity)
  /\ UNCHANGED <<old, typed, outlived, left>>

\* The matching ACK: handleMessage removes the head.
Deliver ==
  /\ activity.queue # <<>>
  /\ activity' = [activity EXCEPT !.queue = Tail(@)]
  /\ disk' = Saved(activity')
  /\ UNCHANGED <<old, typed, queued, outlived, left>>

\* clearLocalInput, after the user has confirmed it.
ClearLocalInput ==
  /\ Happens("clear")
  /\ activity' = [activity EXCEPT !.text = <<>>, !.baseline = <<>>,
                                  !.composing = FALSE, !.armed = FALSE]
  /\ disk' = Saved(activity')
  /\ UNCHANGED <<old, typed, queued, outlived>>

\* The process is killed after setText("") has saved the empty draft, and
\* before the baseline is saved.
KilledWhileClearing ==
  /\ left["clear"] > 0 /\ left["kill"] > 0
  /\ left' = [left EXCEPT !["clear"] = @ - 1, !["kill"] = @ - 1]
  /\ Created([disk EXCEPT !.draft = <<>>])
  /\ old' = None
  /\ UNCHANGED <<typed, outlived>>

Pause ==
  /\ disk' = Saved(activity)
  /\ UNCHANGED <<activity, old, typed, queued, outlived, left>>

\* The process is killed, and the app is opened again.
Kill ==
  /\ Happens("kill")
  /\ Created(disk)
  /\ old' = None
  /\ UNCHANGED <<typed, outlived>>

\* onPause, onDestroy and onCreate, for instance when the phone is turned: the
\* posted runnable is not removed.  Bound: one destroyed Activity at a time.
Recreate ==
  /\ Happens("recreate")
  /\ old = None
  /\ old' = IF activity.armed THEN activity ELSE None
  /\ Created(Saved(activity))
  /\ UNCHANGED <<typed, outlived>>

\* The destroyed Activity processes its text with its own baseline and queue,
\* and saves them.
OldProcessesInput ==
  /\ old # None
  /\ outlived' = TRUE
  /\ IF old.composing
     THEN /\ disk' = [disk EXCEPT !.draft = old.text]
          /\ old' = [old EXCEPT !.composing = FALSE]
     ELSE /\ disk' = SavedByProcessing(old)
          /\ old' = None
  /\ UNCHANGED <<activity, typed, queued, left>>

Next ==
  \/ Type \/ Edit \/ ComposingEnds \/ ProcessInput \/ Deliver
  \/ ClearLocalInput \/ Pause
  \/ Kill \/ KilledWhileClearing \/ Recreate \/ OldProcessesInput

Spec == Init /\ [][Next]_vars

-----------------------------------------------------------------------------
Ids(text) == [i \in DOMAIN text |-> text[i].id]

\* Killing the process costs nothing: what the next Activity restores is what
\* this one would have come to by processing its text now.
KillIsHarmless ==
  ~outlived =>
    /\ Restored(disk).text = Processed(activity).text
    /\ Restored(disk).queue = Processed(activity).queue

\* Text that has not been processed is going to be: the runnable is posted
\* whenever the text and the baseline differ.
UnprocessedIsScheduled ==
  activity.armed \/ Normal(activity.text) = activity.baseline

\* No character is queued twice, and they are queued in the order of typing,
\* through edits, restarts and recreations.
QueuedOnceInOrder ==
  ~outlived =>
    LET ids == Ids(queued \o Unsent(activity))
    IN \A i, j \in DOMAIN ids : i < j => ids[i] < ids[j]

\* As long as the user only appends, every character typed has been queued or
\* is about to be, whenever the process is killed.
NothingDropped ==
  ~outlived /\ left["edit"] = Limits["edit"] /\ left["clear"] = Limits["clear"] =>
    Len(queued \o Unsent(activity)) = typed

\* What the user types is queued once, in order, and without a gap.
TypedIsQueued == QueuedOnceInOrder /\ NothingDropped
=============================================================================
