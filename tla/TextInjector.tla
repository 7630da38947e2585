---------------------------- MODULE TextInjector ----------------------------
(***************************************************************************)
(* host/injector.py: how one text after the other gets from the worker     *)
(* thread to the focused application.  On Linux a call tries the clipboard *)
(* and a paste shortcut, then AT-SPI, then key events for each character.  *)
(*                                                                         *)
(* Four threads of control meet here: the event loop sets the paste mode   *)
(* and queues texts, the worker types, the GTK thread owns the clipboard,  *)
(* and the application reads the clipboard when it gets round to it.       *)
(***************************************************************************)
EXTENDS KeyboardLayout, AtspiTarget, FiniteSets

CONSTANTS
  Texts,       \* the texts the host injects, as sequences of code points
  PasteModes,  \* the paste modes in use, of SUPPORTED_PASTE_MODES
  MaxCalls,    \* bound: texts ever injected
  Windows,     \* the application windows
  Terminals,   \* those whose class or name has one of the terminal markers
  NoWindow,    \* nothing has the input focus
  Injectors,   \* what create_default_injector may find (see InjectorType)
  Trees,       \* the accessible trees AT-SPI may show
  Possible,    \* the misfortunes that may happen, each once
  MaxTrouble   \* bound: how many of them happen

Misfortunes == {"focus", "foreign", "late", "key", "atspi", "sendinput"}

\* WindowsSendInputInjector, LinuxTextInjector with the backends that could be
\* created, or MockInjector where neither is possible.
InjectorType ==
  [kind : {"windows", "mock"}, clipboard : {FALSE}, atspi : {FALSE}]
    \cup [kind : {"linux"}, clipboard : BOOLEAN, atspi : BOOLEAN]

AllModes == {"auto", "ctrl_v", "ctrl_shift_v", "shift_insert"}

ASSUME InjectorAssumption ==
  /\ Texts \subseteq Seq(Nat) \ {<<>>}
  /\ PasteModes \subseteq AllModes
  /\ MaxCalls \in Nat
  /\ Terminals \subseteq Windows /\ NoWindow \notin Windows
  /\ Injectors \subseteq InjectorType
  /\ Possible \subseteq Misfortunes /\ MaxTrouble \in Nat

\* Each tree AT-SPI shows is one.
ASSUME TreesAssumption == \A t \in Trees : IsTree(t)

VARIABLES
  installed,     \* the injector create_default_injector returned
  submitted,     \* the texts of the executor's calls, in order
  pasteMode,     \* self.paste_mode, and the number of the call that set it
  call,          \* the call the worker runs, or Idle
  results,       \* how the finished calls ended
  chord,         \* the key combination being sent, or NoChord
  held,          \* the keys the X server believes are down
  clipboard,     \* the call whose text the clipboard holds, 0 for another's
  setQueue,      \* idle callbacks _set the GTK loop has yet to run
  notices,       \* owner-change signals the GTK loop has yet to deliver
  ownerChanged,  \* self._owner_change_event
  focus,         \* the window that has the input focus
  pastes,        \* paste shortcuts an application has yet to act upon
  screen,        \* history: what the applications received, in order
  badKeys,       \* history: the keys of which an event failed
  strayed,       \* history: AT-SPI typed into a window it should not have
  trouble        \* history: the misfortunes that have happened

hostVars == <<submitted, pasteMode>>
keyVars == <<chord, held, badKeys>>
gtkVars == <<clipboard, setQueue, notices, ownerChanged>>
desktopVars == <<focus, pastes, screen, strayed>>
vars == <<installed, hostVars, call, results, keyVars, gtkVars, desktopVars, trouble>>

Idle == [n |-> 0, stage |-> "idle", mode |-> "auto", by |-> 0, typed |-> 0]
NoChord == [mods |-> <<>>, key |-> 0, step |-> "none", i |-> 0, failed |-> FALSE]

Numbers == 0..MaxCalls
Names == Modifiers \cup {"shift", "altgr"}
Stages ==
  {"idle", "clipboard", "owner", "shortcut", "atspi", "x11", "typing",
   "windows", "units"}

TypeOK ==
  /\ installed \in Injectors
  /\ submitted \in Seq(Texts)
  /\ pasteMode \in [mode : AllModes, by : Numbers]
  /\ call \in [n : Numbers, stage : Stages, mode : AllModes, by : Numbers,
               typed : Nat]
  /\ results \in Seq({"ok", "failed"})
  /\ chord \in [mods : Seq(Names), key : Keycodes \cup {0},
                step : {"none", "press", "down", "up", "release"}, i : Nat,
                failed : BOOLEAN]
  /\ held \subseteq Keycodes /\ badKeys \subseteq Keycodes
  /\ clipboard \in Numbers
  /\ setQueue \in Seq(Numbers) /\ notices \in Nat /\ ownerChanged \in BOOLEAN
  /\ focus \in Windows \cup {NoWindow}
  /\ pastes \in Seq(Numbers)
  /\ screen \in Seq([call : Numbers, by : {"paste", "atspi", "keys"}, what : Nat])
  /\ strayed \in BOOLEAN
  /\ trouble \subseteq Possible

Init ==
  /\ installed \in Injectors
  /\ submitted = <<>>
  /\ pasteMode = [mode |-> "ctrl_v", by |-> 0]
  /\ call = Idle /\ results = <<>>
  /\ chord = NoChord /\ held = {} /\ badKeys = {}
  /\ clipboard = 0 /\ setQueue = <<>> /\ notices = 0 /\ ownerChanged = FALSE
  /\ focus \in Windows
  /\ pastes = <<>> /\ screen = <<>> /\ strayed = FALSE
  /\ trouble = {}

Happens(misfortune) ==
  /\ misfortune \in Possible \ trouble
  /\ Cardinality(trouble) < MaxTrouble
  /\ trouble' = trouble \cup {misfortune}

-----------------------------------------------------------------------------
\* Faulty variant: the mode of a message is not passed on.
SetPasteModeNever(mode, n) == UNCHANGED pasteMode

\* The event loop: set_paste_mode, then run_in_executor.  Only the clipboard
\* injector keeps the mode.
SetPasteMode(mode, n) ==
  pasteMode' = IF installed.clipboard THEN [mode |-> mode, by |-> n] ELSE pasteMode

Submit(text, mode) ==
  /\ Len(submitted) < MaxCalls
  /\ SetPasteMode(mode, Len(submitted) + 1)
  /\ submitted' = Append(submitted, text)
  /\ UNCHANGED <<installed, call, results, keyVars, gtkVars, desktopVars, trouble>>

-----------------------------------------------------------------------------
\* The worker: the path a call takes first, and those it falls back to.
At(stage) == call.stage = stage /\ chord = NoChord
Text == submitted[call.n]

AfterClipboard == IF installed.atspi THEN "atspi" ELSE "x11"
FirstStage ==
  CASE installed.kind = "windows" -> "windows"
    [] installed.kind = "linux" /\ installed.clipboard -> "clipboard"
    [] installed.kind = "linux" /\ ~installed.clipboard -> AfterClipboard

Goto(stage) == call' = [call EXCEPT !.stage = stage] /\ UNCHANGED results
Return(result) == call' = Idle /\ results' = Append(results, result)

\* MockInjector returns at once and types nothing.
TakeCall ==
  /\ At("idle") /\ Len(results) < Len(submitted)
  /\ IF installed.kind = "mock"
     THEN Return("ok")
     ELSE /\ call' = [Idle EXCEPT !.n = Len(results) + 1, !.stage = FirstStage]
          /\ UNCHANGED results
  /\ UNCHANGED <<installed, hostVars, keyVars, gtkVars, desktopVars, trouble>>

\* _resolve_paste_mode_from_info
ResolvedMode ==
  IF pasteMode.mode # "auto" THEN pasteMode.mode
  ELSE IF focus \in Terminals THEN "ctrl_shift_v" ELSE "ctrl_v"

\* Faulty variant: the event of an earlier set_text is not cleared.
OfferTextUncleared ==
  /\ setQueue' = Append(setQueue, call.n)
  /\ UNCHANGED <<clipboard, notices, ownerChanged>>

\* GtkClipboardProvider.set_text up to its wait.
OfferText ==
  /\ ownerChanged' = FALSE
  /\ setQueue' = Append(setQueue, call.n)
  /\ UNCHANGED <<clipboard, notices>>

\* LinuxClipboardPasteInjector.append_text up to the wait of set_text.
BeginPaste ==
  /\ At("clipboard")
  /\ \/ /\ focus = NoWindow
        /\ Goto(AfterClipboard)
        /\ UNCHANGED gtkVars
     \/ /\ focus # NoWindow
        /\ call' = [call EXCEPT !.stage = "owner", !.mode = ResolvedMode,
                                !.by = pasteMode.by]
        /\ OfferText
        /\ UNCHANGED results
  /\ UNCHANGED <<installed, hostVars, keyVars, desktopVars, trouble>>

\* The wait ends with any owner-change, or after 1.5 s; then the callback is
\* left in the GTK loop.
GiveUpClipboard ==
  /\ At("owner") /\ ~ownerChanged
  /\ Happens("late")
  /\ Goto(AfterClipboard)
  /\ UNCHANGED <<installed, hostVars, keyVars, gtkVars, desktopVars>>

Shortcut(mode) ==
  CASE mode = "ctrl_v" -> [mods |-> <<"Control_L">>, key |-> "v"]
    [] mode = "ctrl_shift_v" -> [mods |-> <<"Control_L", "Shift_L">>, key |-> "v"]
    [] mode = "shift_insert" -> [mods |-> <<"Shift_L">>, key |-> "Insert"]

StartChord(mods, key) ==
  chord' = [mods |-> mods, key |-> key, step |-> "press", i |-> 1,
            failed |-> FALSE]

\* _send_paste_shortcut begins.
SendShortcut ==
  /\ At("owner") /\ ownerChanged
  /\ LET s == Shortcut(call.mode) IN StartChord(s.mods, KeycodeForName(s.key))
  /\ Goto("shortcut")
  /\ UNCHANGED <<installed, hostVars, held, badKeys, gtkVars, desktopVars, trouble>>

-----------------------------------------------------------------------------
\* Key events.  A chord presses its modifiers in order, taps its key, and in a
\* finally block releases the modifiers in reverse order; an event that fails
\* ends the call, and only the finally block still runs.  The paste shortcuts
\* and tap_unicode_char all have this form.
Stepping(step) == chord.step = step
ModifierKey == KeycodeForName(chord.mods[chord.i])

KeyFails(key) ==
  \/ key = 0 /\ UNCHANGED <<badKeys, trouble>>
  \/ key # 0 /\ Happens("key") /\ badKeys' = badKeys \cup {key}

\* Faulty variant: the exception is swallowed and nobody is told.
AbandonSilently == chord' = NoChord /\ UNCHANGED <<call, results>>

Abandon == chord' = NoChord /\ Return("failed")

PressModifier ==
  /\ Stepping("press") /\ chord.i <= Len(chord.mods)
  /\ \/ /\ ModifierKey # 0
        /\ held' = held \cup {ModifierKey}
        /\ chord' = [chord EXCEPT !.i = @ + 1]
        /\ UNCHANGED <<badKeys, trouble, call, results>>
     \/ KeyFails(ModifierKey) /\ Abandon /\ UNCHANGED held
  /\ UNCHANGED <<installed, hostVars, gtkVars, desktopVars>>

\* Faulty variant: no finally, a failed tap leaves the modifiers down.
ReleaseUnlessFailed(failed) ==
  chord' = [chord EXCEPT !.step = "release",
                         !.i = IF failed THEN 0 ELSE Len(chord.mods),
                         !.failed = failed]

\* The finally block begins, with the exception of the tap if it had one.
ReleaseAll(failed) ==
  chord' = [chord EXCEPT !.step = "release", !.i = Len(chord.mods),
                         !.failed = failed]

\* What the focused application makes of a key that goes down.
IsPasteShortcut(key) ==
  \/ /\ key = KeycodeForName("v") /\ Down(held, "Control_L")
     /\ focus \in Terminals => Down(held, "Shift_L")
  \/ /\ key = KeycodeForName("Insert") /\ Down(held, "Shift_L")
     /\ ~Down(held, "Control_L")

Struck(key) ==
  LET char == IF focus = NoWindow \/ Down(held, "Control_L") THEN 0
              ELSE CharTyped(key, held)
  IN /\ pastes' = IF focus # NoWindow /\ IsPasteShortcut(key)
                  THEN Append(pastes, call.n) ELSE pastes
     /\ screen' = IF char = 0 THEN screen
                  ELSE Append(screen, [call |-> call.n, by |-> "keys", what |-> char])
     /\ UNCHANGED <<focus, strayed>>

KeyDown ==
  /\ Stepping("press") /\ chord.i > Len(chord.mods)
  /\ \/ /\ chord.key # 0
        /\ held' = held \cup {chord.key}
        /\ chord' = [chord EXCEPT !.step = "up"]
        /\ Struck(chord.key)
        /\ UNCHANGED <<badKeys, trouble>>
     \/ KeyFails(chord.key) /\ ReleaseAll(TRUE) /\ UNCHANGED <<held, desktopVars>>
  /\ UNCHANGED <<installed, hostVars, call, results, gtkVars>>

KeyUp ==
  /\ Stepping("up")
  /\ \/ /\ held' = held \ {chord.key}
        /\ ReleaseAll(FALSE)
        /\ UNCHANGED <<badKeys, trouble>>
     \/ KeyFails(chord.key) /\ ReleaseAll(TRUE) /\ UNCHANGED held
  /\ UNCHANGED <<installed, hostVars, call, results, gtkVars, desktopVars>>

ReleaseModifier ==
  /\ Stepping("release") /\ chord.i > 0
  /\ \/ /\ held' = held \ {ModifierKey}
        /\ chord' = [chord EXCEPT !.i = @ - 1]
        /\ UNCHANGED <<badKeys, trouble, call, results>>
     \/ KeyFails(ModifierKey) /\ Abandon /\ UNCHANGED held
  /\ UNCHANGED <<installed, hostVars, gtkVars, desktopVars>>

\* Faulty variant: a paste shortcut that failed is followed by the fallbacks.
EndChordAndFallBack ==
  /\ Stepping("release") /\ chord.i = 0
  /\ chord' = NoChord
  /\ IF call.stage = "shortcut" /\ chord.failed THEN Goto(AfterClipboard)
     ELSE IF chord.failed THEN Return("failed")
     ELSE IF call.stage = "shortcut" THEN Return("ok")
     ELSE call' = [call EXCEPT !.typed = @ + 1] /\ UNCHANGED results
  /\ UNCHANGED <<installed, hostVars, held, badKeys, gtkVars, desktopVars, trouble>>

EndChord ==
  /\ Stepping("release") /\ chord.i = 0
  /\ chord' = NoChord
  /\ IF chord.failed THEN Return("failed")
     ELSE IF call.stage = "shortcut" THEN Return("ok")
     ELSE call' = [call EXCEPT !.typed = @ + 1] /\ UNCHANGED results
  /\ UNCHANGED <<installed, hostVars, held, badKeys, gtkVars, desktopVars, trouble>>

-----------------------------------------------------------------------------
\* AtspiTextBackend.append_text.  What the trees lead to does not depend on
\* the state: whether there is a target, and whether it is a wrong one.
Aims == {[found |-> Target(t) # 0, strays |-> Strays(t)] : t \in Trees}

\* _verify_insert: the text is read back, or the caret is where setCaretOffset
\* put it, which it also is if nothing was inserted and there was text behind
\* it already.
Verified(landed, readBack, caretMoved) == (landed /\ readBack) \/ caretMoved

InsertByAtspi ==
  /\ At("atspi")
  /\ \E aim \in Aims, landed, readBack, caretMoved \in BOOLEAN :
       /\ aim.found
       /\ strayed' = (strayed \/ (landed /\ aim.strays))
       /\ screen' = IF landed
                    THEN Append(screen, [call |-> call.n, by |-> "atspi", what |-> 0])
                    ELSE screen
       /\ IF Verified(landed, readBack, caretMoved) THEN Return("ok") ELSE Goto("x11")
  /\ UNCHANGED <<installed, hostVars, keyVars, gtkVars, focus, pastes, trouble>>

\* No editable target, or no accessibility bus: on to the key events.  Any
\* other exception ends the call.
AtspiUnavailable ==
  /\ At("atspi")
  /\ \/ (\E aim \in Aims : ~aim.found) /\ Goto("x11") /\ UNCHANGED trouble
     \/ Happens("atspi") /\ (Goto("x11") \/ Return("failed"))
  /\ UNCHANGED <<installed, hostVars, keyVars, gtkVars, desktopVars>>

-----------------------------------------------------------------------------
\* LinuxX11Injector.inject_text
BeginTyping ==
  /\ At("x11")
  /\ IF focus = NoWindow THEN Return("failed") ELSE Goto("typing")
  /\ UNCHANGED <<installed, hostVars, keyVars, gtkVars, desktopVars, trouble>>

\* tap_unicode_char for the next character of the text.
TypeNext ==
  /\ At("typing")
  /\ IF call.typed = Len(Text) THEN Return("ok") /\ UNCHANGED chord
     ELSE LET char == Text[call.typed + 1]
          IN IF OnLayout(char)
             THEN /\ StartChord(LayoutPlace(char).mods, LayoutPlace(char).key)
                  /\ UNCHANGED <<call, results>>
             ELSE Return("failed") /\ UNCHANGED chord
  /\ UNCHANGED <<installed, hostVars, held, badKeys, gtkVars, desktopVars, trouble>>

-----------------------------------------------------------------------------
\* WindowsSendInputInjector.inject_text; wScan is a WORD.
CodeUnit(char) == char % 65536
Wide(char) == char > 65535

BeginUnits ==
  /\ At("windows")
  /\ IF focus = NoWindow THEN Return("failed") ELSE Goto("units")
  /\ UNCHANGED <<installed, hostVars, keyVars, gtkVars, desktopVars, trouble>>

\* The down event of a character types it, the up event may still fail.
SendUnit ==
  /\ At("units")
  /\ IF call.typed = Len(Text)
     THEN Return("ok") /\ UNCHANGED <<screen, trouble>>
     ELSE LET put == Append(screen, [call |-> call.n, by |-> "keys",
                                     what |-> CodeUnit(Text[call.typed + 1])])
          IN \/ /\ call' = [call EXCEPT !.typed = @ + 1]
                /\ screen' = IF focus = NoWindow THEN screen ELSE put
                /\ UNCHANGED <<results, trouble>>
             \/ /\ Return("failed") /\ Happens("sendinput")
                /\ screen' \in {screen, IF focus = NoWindow THEN screen ELSE put}
  /\ UNCHANGED <<installed, hostVars, keyVars, gtkVars, focus, pastes, strayed>>

-----------------------------------------------------------------------------
\* The GTK thread: an idle callback, and the owner-change it brings about.
RunSet ==
  /\ setQueue # <<>>
  /\ clipboard' = Head(setQueue) /\ setQueue' = Tail(setQueue)
  /\ notices' = notices + 1
  /\ UNCHANGED <<installed, hostVars, call, results, keyVars, ownerChanged,
                 desktopVars, trouble>>

\* Faulty variant: a signal nobody sent is delivered.
OnOwnerChangeUnasked ==
  /\ setQueue = <<>>
  /\ notices' = notices - 1 /\ ownerChanged' = TRUE
  /\ UNCHANGED <<installed, hostVars, call, results, keyVars, clipboard, setQueue,
                 desktopVars, trouble>>

OnOwnerChange ==
  /\ notices > 0
  /\ notices' = notices - 1 /\ ownerChanged' = TRUE
  /\ UNCHANGED <<installed, hostVars, call, results, keyVars, clipboard, setQueue,
                 desktopVars, trouble>>

\* The desktop: another application copies something, the user moves the
\* focus, an application acts upon a paste shortcut.
ForeignCopy ==
  /\ Happens("foreign")
  /\ clipboard' = 0 /\ notices' = notices + 1
  /\ UNCHANGED <<installed, hostVars, call, results, keyVars, setQueue, ownerChanged,
                 desktopVars>>

MoveFocus ==
  /\ Happens("focus")
  /\ focus' \in (Windows \cup {NoWindow}) \ {focus}
  /\ UNCHANGED <<installed, hostVars, call, results, keyVars, gtkVars, pastes,
                 screen, strayed>>

ReadClipboard ==
  /\ pastes # <<>>
  /\ screen' = Append(screen, [call |-> Head(pastes), by |-> "paste", what |-> clipboard])
  /\ pastes' = Tail(pastes)
  /\ UNCHANGED <<installed, hostVars, call, results, keyVars, gtkVars, focus, strayed,
                 trouble>>

-----------------------------------------------------------------------------
KeyStep == PressModifier \/ KeyDown \/ KeyUp \/ ReleaseModifier \/ EndChord

WorkerStep ==
  \/ TakeCall \/ BeginPaste \/ GiveUpClipboard \/ SendShortcut
  \/ KeyStep
  \/ InsertByAtspi \/ AtspiUnavailable
  \/ BeginTyping \/ TypeNext
  \/ BeginUnits \/ SendUnit

GtkStep == RunSet \/ OnOwnerChange

Next ==
  \/ \E text \in Texts, mode \in PasteModes : Submit(text, mode)
  \/ WorkerStep
  \/ GtkStep
  \/ ForeignCopy \/ MoveFocus \/ ReadClipboard

Spec == Init /\ [][Next]_vars

\* The worker and the GTK loop are threads of the process; users and other
\* applications are not obliged to do anything.
FairSpec == Spec /\ WF_vars(WorkerStep) /\ WF_vars(GtkStep)

-----------------------------------------------------------------------------
KeysOf(names) == {KeycodeForName(name) : name \in names}
AtRest == chord = NoChord

\* No event of a modifier has failed: one that did may leave Control down, and
\* then a v that is typed is a paste.
ModifiersWork == badKeys \cap KeysOf(Modifiers) = {}

\* Between two key combinations nothing is held down, unless a key event
\* failed; and no modifier is, unless an event of a modifier failed: a
\* character or a shortcut key that fails does not leave Control or Shift
\* down for what is typed next.  (The finally blocks of tap_unicode_char and
\* _send_paste_shortcut.)
KeysReleased ==
  AtRest =>
    /\ badKeys = {} => held = {}
    /\ ModifiersWork => held \cap KeysOf(Modifiers) = {}

Entries(n, by) == {i \in DOMAIN screen : screen[i].call = n /\ screen[i].by = by}
Pending(n) == {i \in DOMAIN pastes : pastes[i] = n}
Rank(i, S) == Cardinality({j \in S : j <= i})
AtMostOne(S) == \A i, j \in S : i = j

\* What is typed key by key for a call is a beginning of its text, character
\* by character, and all of it if the call succeeds; unless a key event
\* failed, the focus was lost on the way, or a character needs more than 16
\* bits on Windows.
TypedIsPrefix ==
  badKeys = {} /\ "focus" \notin trouble =>
    \A n \in DOMAIN submitted :
      LET typed == Entries(n, "keys")
          text  == submitted[n]
      IN /\ Cardinality(typed) <= Len(text)
         /\ n \in DOMAIN results /\ results[n] = "ok" /\ typed # {} =>
              Cardinality(typed) = Len(text)
         /\ \A i \in typed : \/ screen[i].what = text[Rank(i, typed)]
                             \/ Wide(text[Rank(i, typed)])

\* Of one call an application receives text along one path only, and along
\* the clipboard or AT-SPI at most once: falling back never types again what
\* was pasted.  The exception is a text AT-SPI inserted without being able to
\* verify it.
OnePathPerCall ==
  ModifiersWork =>
    \A n \in DOMAIN submitted :
      /\ Entries(n, "paste") # {} \/ Pending(n) # {} =>
           Entries(n, "atspi") = {} /\ Entries(n, "keys") = {}
      /\ Entries(n, "paste") = {} \/ Pending(n) = {}
      /\ AtMostOne(Entries(n, "paste")) /\ AtMostOne(Pending(n))
      /\ AtMostOne(Entries(n, "atspi"))

\* A text is typed once, along one path, and a failure leaves a beginning of
\* it.
TypedOnce == TypedIsPrefix /\ OnePathPerCall

\* A paste never shows an older text than its own call's: set_text returns
\* only once the clipboard holds the text, if no wait has timed out and no
\* other application has taken the clipboard.
PasteIsNotStale ==
  trouble \cap {"late", "foreign"} = {} /\ ModifiersWork =>
    \A i \in DOMAIN screen :
      screen[i].by = "paste" => screen[i].what >= screen[i].call

\* No call pastes with a mode older than the one its message chose: only the
\* modes of later messages can get ahead of it.
ModeNotOlder ==
  call.stage \in {"owner", "shortcut"} => call.by >= call.n

\* Neither the text nor the shortcut of a paste is left over from an earlier
\* call.
PasteIsCurrent == PasteIsNotStale /\ ModeNotOlder

\* AT-SPI does not type into a window that lacks the focus while the focused
\* one has an editable text.
StaysInWindow == ~strayed

\* The worker finishes every text it is given, one way or the other, and so
\* reaches the next one.
EveryCallEnds ==
  \A n \in 1..MaxCalls : (Len(submitted) >= n) ~> (Len(results) >= n)

\* A text whose characters the keyboard layout has is typed, if nothing goes
\* wrong meanwhile.
TypableIsTyped ==
  trouble = {} =>
    \A n \in DOMAIN results :
      results[n] = "failed" =>
        \E i \in DOMAIN submitted[n] : ~OnLayout(submitted[n][i])
=============================================================================
