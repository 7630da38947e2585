------------------------ MODULE TextInjector_proofs ------------------------
(***************************************************************************)
(* An injector types a text once, along one path, pastes no stale text and *)
(* leaves no key down.                                                     *)
(*                                                                         *)
(* The argument: a key that is down belongs to the key combination that is *)
(* being sent, or an event of it failed (HeldInv); set_text returns only   *)
(* when the GTK thread has taken the clipboard over for this very text, so *)
(* a shortcut that is sent finds it there (ClipInv); a call reaches a path *)
(* only when the paths before it have shown nothing to any application     *)
(* (PathInv); and the characters that were struck are those the call has   *)
(* counted (TypedInv).  AT-SPI aims at the focused window whatever tree it *)
(* is shown (NoTreeStrays).                                                *)
(***************************************************************************)
EXTENDS TextInjector, FiniteSetTheorems, SequenceTheorems, WellFoundedInduction, TLAPS

-----------------------------------------------------------------------------
(* The keyboard layout has a place for every character it has.             *)

\* A set of naturals has a least one.
LEMMA LeastNat ==
  ASSUME NEW T \in SUBSET Nat, T # {}
  PROVE  \E m \in T : \A n \in T : m <= n
<1> DEFINE R == {p \in Nat \X Nat : p[1] < p[2]}
<1>1. IsWellFoundedOn(R, Nat)
  BY NatLessThanWellFounded DEF OpToRel
<1>2. PICK m \in T : \A n \in T : ~(<<n, m>> \in R)
  <2> HIDE DEF R
  <2> QED
    BY <1>1, WFMin
<1>3. \A n \in T : ~(n < m)
  BY <1>2
<1> QED
  BY <1>3

LEMMA PlaceTypes ==
  ASSUME NEW char, NEW p \in Places(char)
  PROVE  /\ p.key \in Keycodes /\ p.key \in Nat \ {0} /\ p.slot \in Slots
         /\ p.mods = ModifiersForSlot(p.slot)
         /\ p.mods \in {<<>>, <<"shift">>, <<"altgr">>, <<"shift", "altgr">>}
         /\ p = [key |-> p.key, slot |-> p.slot, mods |-> p.mods]
         /\ KeysymToChar(Layout[p.key][p.slot]) = char
         /\ p.mods = <<>> => p.slot = 0
<1>1. /\ p \in [key : Keycodes, slot : Slots, mods : {ModifiersForSlot(s) : s \in Slots}]
      /\ p.mods = ModifiersForSlot(p.slot)
      /\ KeysymToChar(Layout[p.key][p.slot]) = char
  BY DEF Places
<1>2. p.key \in Keycodes /\ p.slot \in Slots
  BY <1>1
<1>3. p.key \in Nat \ {0}
  BY <1>2, LayoutAssumption
<1>4. /\ p.mods \in {<<>>, <<"shift">>, <<"altgr">>, <<"shift", "altgr">>}
      /\ p.mods = <<>> => p.slot = 0
  <2>1. p.slot = 0 \/ p.slot = 1 \/ p.slot = 2 \/ p.slot = 3
    BY <1>2 DEF Slots
  <2> QED
    BY <1>1, <2>1 DEF ModifiersForSlot
<1> QED
  BY <1>1, <1>2, <1>3, <1>4

LEMMA LayoutPlaceIsPlace ==
  ASSUME NEW char, OnLayout(char)
  PROVE  LayoutPlace(char) \in Places(char)
<1> DEFINE P == Places(char)
           Least(T, m) == m \in T /\ \A n \in T : m <= n
           P1(m) == {p \in P : Len(p.mods) = m}
           P2(m, k) == {p \in P1(m) : p.key = k}
<1>1. P # {} /\ \A p \in P : Len(p.mods) \in Nat /\ p.key \in Nat /\ p.slot \in Nat
  BY PlaceTypes DEF OnLayout, Slots
<1>2. PICK m \in Nat : Least({Len(p.mods) : p \in P}, m)
  <2>1. {Len(p.mods) : p \in P} \in SUBSET Nat /\ {Len(p.mods) : p \in P} # {}
    BY <1>1
  <2> QED
    BY <2>1, LeastNat
<1>3. P1(m) # {}
  BY <1>2
<1>4. PICK k \in Nat : Least({p.key : p \in P1(m)}, k)
  <2>1. {p.key : p \in P1(m)} \in SUBSET Nat /\ {p.key : p \in P1(m)} # {}
    BY <1>1, <1>3
  <2> QED
    BY <2>1, LeastNat
<1>5. P2(m, k) # {}
  BY <1>4
<1>6. PICK s \in Nat : Least({p.slot : p \in P2(m, k)}, s)
  <2>1. {p.slot : p \in P2(m, k)} \in SUBSET Nat /\ {p.slot : p \in P2(m, k)} # {}
    BY <1>1, <1>5
  <2> QED
    BY <2>1, LeastNat
<1>7. PICK p \in P2(m, k) : p.slot = s
  BY <1>6
<1>8. ASSUME NEW q \in P \ {p}
      PROVE  \/ Len(p.mods) < Len(q.mods)
             \/ /\ Len(p.mods) = Len(q.mods)
                /\ p.key < q.key \/ (p.key = q.key /\ p.slot < q.slot)
  <2>1. p \in P /\ Len(p.mods) = m /\ p.key = k /\ p.slot = s
    BY <1>7
  <2>2. m <= Len(q.mods)
    BY <1>2
  <2>3. Len(q.mods) = m => k <= q.key
    BY <1>4
  <2>4. Len(q.mods) = m /\ q.key = k => s <= q.slot
    BY <1>6
  <2>5. q.key = k => q.slot # s
    BY <2>1, PlaceTypes
  <2> HIDE DEF P
  <2> QED
    BY <1>1, <2>1, <2>2, <2>3, <2>4, <2>5
<1>9. \E x \in P : \A q \in P \ {x} :
        \/ Len(x.mods) < Len(q.mods)
        \/ /\ Len(x.mods) = Len(q.mods)
           /\ x.key < q.key \/ (x.key = q.key /\ x.slot < q.slot)
  BY <1>7, <1>8
<1> QED
  BY <1>9 DEF LayoutPlace

-----------------------------------------------------------------------------
(* What a call and its key combination look like while they last.          *)

\* The call under way is the first that has no result; what it may be doing
\* depends on the injector, and only the key by key stages count characters.
CallInv ==
  /\ Len(submitted) <= MaxCalls /\ Len(results) <= Len(submitted)
  /\ call.stage = "idle" => call = Idle
  /\ call.stage # "idle" =>
       /\ call.n = Len(results) + 1 /\ call.n <= Len(submitted)
       /\ installed.kind # "mock"
       /\ installed.kind = "windows" <=> call.stage \in {"windows", "units"}
       /\ call.typed <= Len(Text)
       /\ call.stage \notin {"typing", "units"} => call.typed = 0
  /\ call.stage \in {"clipboard", "owner", "shortcut"} => installed.clipboard
  /\ call.stage \in {"owner", "shortcut"} => call.mode # "auto"
  /\ call.stage = "shortcut" => chord # NoChord

\* A key combination is the paste shortcut or the next character's place on
\* the layout.  Its modifiers are pressed in order while nothing fails, and
\* those that were pressed are to be released; only a key that does not exist
\* or a failed event makes it fail.
PlaceOf(place) == chord.mods = place.mods /\ chord.key = place.key

ChordInv ==
  chord # NoChord =>
    /\ call.stage \in {"shortcut", "typing"}
    /\ call.stage = "shortcut" =>
         LET s == Shortcut(call.mode)
         IN chord.mods = s.mods /\ chord.key = KeycodeForName(s.key)
    /\ call.stage = "typing" =>
         /\ call.typed < Len(Text) /\ OnLayout(Text[call.typed + 1])
         /\ PlaceOf(LayoutPlace(Text[call.typed + 1]))
    /\ chord.step \in {"press", "up", "release"}
    /\ chord.step = "press" => chord.i \in 1..Len(chord.mods) + 1 /\ ~chord.failed
    /\ chord.step = "release" => chord.i \in 0..Len(chord.mods)
    /\ chord.step = "up" => chord.key # 0 /\ ~chord.failed
    /\ \A j \in DOMAIN chord.mods :
         chord.step # "press" \/ j < chord.i => KeycodeForName(chord.mods[j]) # 0
    /\ chord.failed /\ badKeys = {} => chord.key = 0

TypeInv == TypeOK /\ CallInv /\ ChordInv

LEMMA ShortcutTypes ==
  ASSUME NEW mode \in AllModes \ {"auto"}
  PROVE  LET s == Shortcut(mode)
         IN /\ s.mods \in {<<"Control_L">>, <<"Control_L", "Shift_L">>, <<"Shift_L">>}
            /\ s.key \in {"v", "Insert"}
            /\ s.key = "v" => s.mods[1] = "Control_L"
            /\ s.key = "Insert" => s.mods = <<"Shift_L">>
            /\ KeycodeForName(s.key) \in Keycodes \cup {0}
BY LayoutAssumption DEF AllModes, Shortcut, KeycodeForName

LEMMA ModsAreLists ==
  ASSUME NEW mods \in {<<"Control_L">>, <<"Control_L", "Shift_L">>, <<"Shift_L">>,
                       <<>>, <<"shift">>, <<"altgr">>, <<"shift", "altgr">>}
  PROVE  mods \in Seq(Names) /\ Len(mods) \in 0..2 /\ DOMAIN mods = 1..Len(mods)
<1>1. CASE mods = <<>>
  BY <1>1
<1>2. \A s \in Names : mods = <<s>> => mods \in Seq(Names) /\ Len(mods) = 1
  OBVIOUS
<1>3. \A s, t \in Names : mods = <<s, t>> => mods \in Seq(Names) /\ Len(mods) = 2
  OBVIOUS
<1>4. {"Control_L", "Shift_L", "shift", "altgr"} \subseteq Names
  BY DEF Names, Modifiers
<1>5. CASE mods \in {<<"Control_L">>, <<"Shift_L">>, <<"shift">>, <<"altgr">>}
  BY <1>2, <1>4, <1>5
<1>6. CASE mods \in {<<"Control_L", "Shift_L">>, <<"shift", "altgr">>}
  BY <1>3, <1>4, <1>6
<1> QED
  BY <1>1, <1>5, <1>6

\* What the modifiers of a chord are called.
LEMMA ChordMods ==
  ASSUME TypeInv, chord # NoChord
  PROVE  /\ call.stage = "shortcut" =>
              chord.mods \in {<<"Control_L">>, <<"Control_L", "Shift_L">>, <<"Shift_L">>}
         /\ call.stage = "typing" =>
              chord.mods \in {<<>>, <<"shift">>, <<"altgr">>, <<"shift", "altgr">>}
         /\ chord.mods \in Seq(Names) /\ Len(chord.mods) \in 0..2
         /\ DOMAIN chord.mods = 1..Len(chord.mods)
<1>0. call.stage \in {"shortcut", "typing"}
  BY DEF TypeInv, ChordInv
<1>1. call.stage = "shortcut" =>
        chord.mods \in {<<"Control_L">>, <<"Control_L", "Shift_L">>, <<"Shift_L">>}
  <2> SUFFICES ASSUME call.stage = "shortcut"
               PROVE  chord.mods \in {<<"Control_L">>, <<"Control_L", "Shift_L">>,
                                      <<"Shift_L">>}
    OBVIOUS
  <2>1. call.mode \in AllModes \ {"auto"}
    BY DEF TypeInv, TypeOK, CallInv
  <2>2. chord.mods = Shortcut(call.mode).mods
    BY DEF TypeInv, ChordInv
  <2> QED
    BY <2>1, <2>2, ShortcutTypes
<1>2. call.stage = "typing" =>
        chord.mods \in {<<>>, <<"shift">>, <<"altgr">>, <<"shift", "altgr">>}
  <2> SUFFICES ASSUME call.stage = "typing"
               PROVE  chord.mods \in {<<>>, <<"shift">>, <<"altgr">>, <<"shift", "altgr">>}
    OBVIOUS
  <2> DEFINE char == Text[call.typed + 1]
  <2>1. OnLayout(char) /\ chord.mods = LayoutPlace(char).mods
    BY DEF TypeInv, ChordInv, PlaceOf
  <2> HIDE DEF char
  <2> QED
    BY <2>1, LayoutPlaceIsPlace, PlaceTypes
<1>3. chord.mods \in {<<"Control_L">>, <<"Control_L", "Shift_L">>, <<"Shift_L">>,
                      <<>>, <<"shift">>, <<"altgr">>, <<"shift", "altgr">>}
  BY <1>0, <1>1, <1>2
<1> QED
  BY <1>1, <1>2, <1>3, ModsAreLists

LEMMA TypeInit == Init => TypeInv
<1> SUFFICES ASSUME Init PROVE TypeInv
  OBVIOUS
<1> USE DEF Init
<1>1. 0 \in Numbers /\ 0 <= MaxCalls
  BY InjectorAssumption DEF Numbers
<1>2. Idle \in [n : Numbers, stage : Stages, mode : AllModes, by : Numbers, typed : Nat]
  BY <1>1 DEF Idle, Stages, AllModes
<1>3. NoChord \in [mods : Seq(Names), key : Keycodes \cup {0},
                   step : {"none", "press", "down", "up", "release"}, i : Nat,
                   failed : BOOLEAN]
  BY ModsAreLists DEF NoChord
<1>4. TypeOK
  <2>1. /\ <<>> \in Seq(Texts) /\ <<>> \in Seq({"ok", "failed"}) /\ <<>> \in Seq(Numbers)
        /\ <<>> \in Seq([call : Numbers, by : {"paste", "atspi", "keys"}, what : Nat])
    OBVIOUS
  <2>2. [mode |-> "ctrl_v", by |-> 0] \in [mode : AllModes, by : Numbers]
    BY <1>1 DEF AllModes
  <2> QED
    BY <1>1, <1>2, <1>3, <2>1, <2>2 DEF TypeOK
<1>5. CallInv
  BY <1>1 DEF CallInv, Idle
<1>6. ChordInv
  BY DEF ChordInv
<1> QED
  BY <1>4, <1>5, <1>6 DEF TypeInv

-----------------------------------------------------------------------------
(* Every step keeps the types and the form of calls and key combinations.  *)

\* The ways a call goes on.
LEMMA Returns ==
  ASSUME TypeInv, call.stage # "idle", NEW r \in {"ok", "failed"}, Return(r),
         UNCHANGED <<installed, submitted>>, chord' = NoChord
  PROVE  /\ CallInv' /\ ChordInv' /\ results' \in Seq({"ok", "failed"})
         /\ call' \in [n : Numbers, stage : Stages, mode : AllModes, by : Numbers,
                       typed : Nat]
         /\ Len(results') = Len(results) + 1
<1>1. /\ Len(results) \in Nat /\ Len(submitted) \in Nat /\ MaxCalls \in Nat
      /\ call.n = Len(results) + 1 /\ call.n <= Len(submitted)
      /\ Len(submitted) <= MaxCalls
  BY InjectorAssumption DEF TypeInv, TypeOK, CallInv
<1>2. results' \in Seq({"ok", "failed"}) /\ Len(results') = Len(results) + 1
  BY DEF Return, TypeInv, TypeOK
<1>3. call' = Idle
  BY DEF Return
<1>4. 0 \in Numbers
  BY <1>1 DEF Numbers
<1>5. Idle \in [n : Numbers, stage : Stages, mode : AllModes, by : Numbers, typed : Nat]
  BY <1>4 DEF Idle, Stages, AllModes
<1>6. CallInv'
  BY <1>1, <1>2, <1>3 DEF CallInv, Idle
<1>7. ChordInv'
  BY DEF ChordInv
<1> QED
  BY <1>2, <1>3, <1>5, <1>6, <1>7

LEMMA Goes ==
  ASSUME TypeInv, call.stage # "idle", chord' = NoChord, chord = NoChord,
         NEW stage \in Stages \ {"idle", "clipboard", "owner", "shortcut"}, Goto(stage),
         stage \in {"windows", "units"} <=> call.stage \in {"windows", "units"},
         call.stage \notin {"typing", "units"},
         UNCHANGED <<installed, submitted>>
  PROVE  /\ CallInv' /\ ChordInv' /\ results' \in Seq({"ok", "failed"})
         /\ call' \in [n : Numbers, stage : Stages, mode : AllModes, by : Numbers,
                       typed : Nat]
<1>1. /\ call' = [call EXCEPT !.stage = stage] /\ results' = results
      /\ installed' = installed /\ submitted' = submitted
  BY DEF Goto
<1>2. call \in [n : Numbers, stage : Stages, mode : AllModes, by : Numbers, typed : Nat]
  BY DEF TypeInv, TypeOK
<1>3. /\ call'.stage = stage /\ call'.n = call.n /\ call'.typed = call.typed
      /\ call' \in [n : Numbers, stage : Stages, mode : AllModes, by : Numbers,
                    typed : Nat]
  BY <1>1, <1>2
<1>4. CallInv'
  BY <1>1, <1>3 DEF CallInv, TypeInv, Text
<1>5. ChordInv'
  BY DEF ChordInv
<1> QED
  BY <1>1, <1>3, <1>4, <1>5 DEF TypeInv, TypeOK

\* A step that touches neither a call nor a key.
LEMMA Waits ==
  ASSUME TypeInv, UNCHANGED <<installed, submitted, call, results, chord, badKeys>>
  PROVE  CallInv' /\ ChordInv'
BY DEF TypeInv, CallInv, ChordInv, Text, PlaceOf

LEMMA StagesAre ==
  /\ {"atspi", "x11", "typing", "windows", "units"}
       \subseteq Stages \ {"idle", "clipboard", "owner", "shortcut"}
  /\ AfterClipboard \in {"atspi", "x11"}
BY DEF Stages, AfterClipboard

LEMMA CallTypes ==
  ASSUME TypeInv, TakeCall \/ BeginPaste \/ GiveUpClipboard \/ SendShortcut
  PROVE  TypeInv'
<1> USE DEF hostVars, keyVars, gtkVars, desktopVars
<1>0. installed \in InjectorType /\ Numbers \subseteq Nat /\ MaxCalls \in Nat
  BY InjectorAssumption DEF TypeInv, TypeOK, Numbers
<1>1. ASSUME TakeCall
      PROVE  TypeInv'
  <2>1. Len(results) \in Nat /\ Len(submitted) \in Nat /\ Len(submitted) <= MaxCalls
        /\ chord = NoChord /\ call.stage = "idle" /\ Len(results) < Len(submitted)
        /\ chord' = chord
    BY <1>1 DEF TakeCall, At, TypeInv, TypeOK, CallInv
  <2>2. CASE installed.kind = "mock"
    <3>1. call' = Idle /\ results' = Append(results, "ok") /\ call = Idle
      BY <1>1, <2>1, <2>2 DEF TakeCall, Return, TypeInv, CallInv
    <3>2. results' \in Seq({"ok", "failed"}) /\ Len(results') = Len(results) + 1
      BY <3>1 DEF TypeInv, TypeOK
    <3>3. CallInv'
      BY <1>1, <2>1, <3>1, <3>2 DEF CallInv, TakeCall, Idle
    <3> QED
      BY <1>1, <2>1, <3>1, <3>2, <3>3 DEF TypeInv, TypeOK, ChordInv, TakeCall
  <2>3. CASE installed.kind # "mock"
    <3>1. call' = [Idle EXCEPT !.n = Len(results) + 1, !.stage = FirstStage]
          /\ results' = results
      BY <1>1, <2>3 DEF TakeCall
    <3>2. /\ FirstStage \in {"windows", "clipboard", "atspi", "x11"}
          /\ installed.kind = "windows" <=> FirstStage = "windows"
          /\ FirstStage = "clipboard" => installed.clipboard
      BY <1>0, <2>3 DEF FirstStage, InjectorType, AfterClipboard
    <3>3. /\ call'.n = Len(results) + 1 /\ call'.stage = FirstStage /\ call'.typed = 0
          /\ call'.mode = "auto" /\ call'.by = 0
          /\ call' = [n |-> Len(results) + 1, stage |-> FirstStage, mode |-> "auto",
                      by |-> 0, typed |-> 0]
      BY <3>1 DEF Idle
    <3>4. call' \in [n : Numbers, stage : Stages, mode : AllModes, by : Numbers,
                     typed : Nat]
      BY <1>0, <2>1, <3>2, <3>3 DEF Numbers, Stages, AllModes
    <3>5. Len(submitted[Len(results) + 1]) \in Nat
      BY <2>1, InjectorAssumption DEF TypeInv, TypeOK
    <3>6. CallInv'
      BY <1>1, <2>1, <2>3, <3>1, <3>2, <3>3, <3>5 DEF CallInv, TakeCall, Text
    <3> QED
      BY <1>1, <2>1, <3>1, <3>4, <3>6 DEF TypeInv, TypeOK, ChordInv, TakeCall
  <2> QED
    BY <2>2, <2>3
<1>2. ASSUME BeginPaste
      PROVE  TypeInv'
  <2>1. chord = NoChord /\ chord' = NoChord /\ call.stage = "clipboard"
    BY <1>2 DEF BeginPaste, At
  <2>2. CASE focus = NoWindow /\ Goto(AfterClipboard) /\ UNCHANGED gtkVars
    <3>1. CallInv' /\ ChordInv' /\ results' \in Seq({"ok", "failed"})
          /\ call' \in [n : Numbers, stage : Stages, mode : AllModes, by : Numbers,
                        typed : Nat]
      BY <1>2, <2>1, <2>2, StagesAre, Goes DEF BeginPaste
    <3> QED
      BY <1>2, <2>2, <3>1 DEF BeginPaste, TypeInv, TypeOK
  <2>3. CASE /\ call' = [call EXCEPT !.stage = "owner", !.mode = ResolvedMode,
                                     !.by = pasteMode.by]
             /\ OfferText /\ UNCHANGED results
    <3>1. ResolvedMode \in AllModes \ {"auto"} /\ pasteMode.by \in Numbers
      BY DEF ResolvedMode, TypeInv, TypeOK, AllModes
    <3>2. /\ call'.stage = "owner" /\ call'.n = call.n /\ call'.typed = call.typed
          /\ call'.mode = ResolvedMode
          /\ call' \in [n : Numbers, stage : Stages, mode : AllModes, by : Numbers,
                        typed : Nat]
      BY <2>3, <3>1 DEF TypeInv, TypeOK, Stages
    <3>3. CallInv'
      BY <1>2, <2>1, <2>3, <3>1, <3>2 DEF CallInv, TypeInv, BeginPaste, Text
    <3>4. /\ setQueue' \in Seq(Numbers) /\ ownerChanged' \in BOOLEAN
          /\ clipboard' = clipboard /\ notices' = notices
      <4>1. call.n \in Numbers /\ setQueue \in Seq(Numbers)
        BY DEF TypeInv, TypeOK
      <4>2. /\ setQueue' = Append(setQueue, call.n) /\ ownerChanged' = FALSE
            /\ clipboard' = clipboard /\ notices' = notices
        BY <2>3 DEF OfferText
      <4> QED
        BY <4>1, <4>2, AppendProperties
    <3> QED
      BY <1>2, <2>1, <2>3, <3>2, <3>3, <3>4 DEF BeginPaste, TypeInv, TypeOK, ChordInv
  <2> QED
    BY <1>2, <2>2, <2>3 DEF BeginPaste
<1>3. ASSUME GiveUpClipboard
      PROVE  TypeInv'
  <2>1. chord = NoChord /\ chord' = NoChord /\ call.stage = "owner" /\ Goto(AfterClipboard)
    BY <1>3 DEF GiveUpClipboard, At
  <2>2. CallInv' /\ ChordInv' /\ results' \in Seq({"ok", "failed"})
        /\ call' \in [n : Numbers, stage : Stages, mode : AllModes, by : Numbers,
                      typed : Nat]
    BY <1>3, <2>1, StagesAre, Goes DEF GiveUpClipboard
  <2> QED
    BY <1>3, <2>2 DEF GiveUpClipboard, TypeInv, TypeOK, Happens
<1>4. ASSUME SendShortcut
      PROVE  TypeInv'
  <2> DEFINE s == Shortcut(call.mode)
  <2>1. /\ call.stage = "owner" /\ installed.clipboard /\ call.mode \in AllModes \ {"auto"}
        /\ call' = [call EXCEPT !.stage = "shortcut"] /\ results' = results
        /\ chord' = [mods |-> s.mods, key |-> KeycodeForName(s.key), step |-> "press",
                     i |-> 1, failed |-> FALSE]
    BY <1>4 DEF SendShortcut, At, Goto, StartChord, TypeInv, TypeOK, CallInv
  <2>2. /\ call'.stage = "shortcut" /\ call'.n = call.n /\ call'.typed = call.typed
        /\ call'.mode = call.mode
        /\ call' \in [n : Numbers, stage : Stages, mode : AllModes, by : Numbers,
                      typed : Nat]
    BY <2>1 DEF TypeInv, TypeOK, Stages
  <2>3. /\ s.mods \in Seq(Names) /\ Len(s.mods) \in 0..2 /\ DOMAIN s.mods = 1..Len(s.mods)
        /\ KeycodeForName(s.key) \in Keycodes \cup {0}
    BY <2>1, ShortcutTypes, ModsAreLists
  <2> HIDE DEF s
  <2>4. chord' \in [mods : Seq(Names), key : Keycodes \cup {0},
                    step : {"none", "press", "down", "up", "release"}, i : Nat,
                    failed : BOOLEAN]
    BY <2>1, <2>3
  <2>5. chord' # NoChord
    BY <2>1 DEF NoChord
  <2>6. CallInv'
    BY <1>4, <2>1, <2>2, <2>5 DEF CallInv, TypeInv, SendShortcut, Text
  <2>7. ChordInv'
    BY <2>1, <2>2, <2>3 DEF ChordInv, s
  <2> QED
    BY <1>4, <2>1, <2>2, <2>4, <2>6, <2>7 DEF SendShortcut, TypeInv, TypeOK
<1> QED
  BY <1>1, <1>2, <1>3, <1>4

\* A step of the chord that the call is not told of.
LEMMA ChordGoesOn ==
  ASSUME TypeInv, chord # NoChord, UNCHANGED <<installed, submitted, call, results>>,
         NEW step \in {"press", "up", "release"}, NEW i \in 0..3, NEW failed \in BOOLEAN,
         chord' = [mods |-> chord.mods, key |-> chord.key, step |-> step, i |-> i,
                   failed |-> failed],
         step = "press" => i \in 1..Len(chord.mods) + 1 /\ ~failed,
         step = "release" => i \in 0..Len(chord.mods),
         step = "up" => chord.key # 0 /\ ~failed,
         \A j \in DOMAIN chord.mods :
           step # "press" \/ j < i => KeycodeForName(chord.mods[j]) # 0,
         failed /\ badKeys' = {} => chord.key = 0
  PROVE  /\ CallInv' /\ ChordInv' /\ chord' # NoChord
         /\ chord' \in [mods : Seq(Names), key : Keycodes \cup {0},
                        step : {"none", "press", "down", "up", "release"}, i : Nat,
                        failed : BOOLEAN]
<1>0. chord.mods \in Seq(Names) /\ chord.key \in Keycodes \cup {0}
  BY DEF TypeInv, TypeOK
<1>1. /\ chord'.mods = chord.mods /\ chord'.key = chord.key /\ chord'.step = step
      /\ chord'.i = i /\ chord'.failed = failed
      /\ chord' \in [mods : Seq(Names), key : Keycodes \cup {0},
                     step : {"none", "press", "down", "up", "release"}, i : Nat,
                     failed : BOOLEAN]
  BY <1>0
<1>2. chord' # NoChord
  BY <1>1 DEF NoChord
<1>3. CallInv'
  BY <1>2 DEF TypeInv, CallInv, Text
<1>4. ChordInv'
  BY <1>1 DEF TypeInv, ChordInv, Text, PlaceOf
<1> QED
  BY <1>1, <1>2, <1>3, <1>4

\* What a chord's fields are.
LEMMA ChordFields ==
  ASSUME TypeInv, chord # NoChord
  PROVE  /\ chord.i \in Nat /\ chord.key \in Keycodes \cup {0} /\ chord.failed \in BOOLEAN
         /\ chord = [mods |-> chord.mods, key |-> chord.key, step |-> chord.step,
                     i |-> chord.i, failed |-> chord.failed]
         /\ call.stage # "idle"
BY DEF TypeInv, TypeOK, ChordInv

LEMMA KeysMapped ==
  ASSUME NEW name, KeycodeForName(name) # 0
  PROVE  KeycodeForName(name) \in Keycodes
BY LayoutAssumption DEF KeycodeForName

LEMMA FailureTypes ==
  ASSUME TypeInv, NEW key \in Keycodes \cup {0}, KeyFails(key)
  PROVE  /\ badKeys' \subseteq Keycodes /\ badKeys \subseteq badKeys'
         /\ trouble' \subseteq Possible
         /\ key # 0 => key \in badKeys'
BY DEF KeyFails, Happens, TypeInv, TypeOK

LEMMA Abandons ==
  ASSUME TypeInv, chord # NoChord, NEW key \in Keycodes \cup {0}, KeyFails(key), Abandon,
         UNCHANGED <<installed, hostVars, gtkVars, desktopVars, held>>
  PROVE  TypeInv'
<1>1. CallInv' /\ ChordInv' /\ results' \in Seq({"ok", "failed"})
      /\ call' \in [n : Numbers, stage : Stages, mode : AllModes, by : Numbers,
                    typed : Nat]
  BY ChordFields, Returns DEF Abandon, hostVars
<1>2. badKeys' \subseteq Keycodes /\ trouble' \subseteq Possible
  BY FailureTypes
<1>3. NoChord \in [mods : Seq(Names), key : Keycodes \cup {0},
                   step : {"none", "press", "down", "up", "release"}, i : Nat,
                   failed : BOOLEAN]
  BY ModsAreLists DEF NoChord
<1> QED
  BY <1>1, <1>2, <1>3
     DEF TypeInv, TypeOK, Abandon, hostVars, gtkVars, desktopVars

LEMMA StruckTypes ==
  ASSUME TypeInv, call.stage # "idle", NEW key \in Keycodes, Struck(key)
  PROVE  /\ pastes' \in Seq(Numbers)
         /\ screen' \in Seq([call : Numbers, by : {"paste", "atspi", "keys"}, what : Nat])
         /\ focus' = focus /\ strayed' = strayed
<1>1. /\ call.n \in Numbers /\ pastes \in Seq(Numbers)
      /\ screen \in Seq([call : Numbers, by : {"paste", "atspi", "keys"}, what : Nat])
  BY DEF TypeInv, TypeOK
<1>2. CharTyped(key, held) \in Nat
  <2>1. \A keysym \in Nat : KeysymToChar(keysym) \in Nat
    BY DEF KeysymToChar
  <2>2. \A slot \in Slots : Layout[key][slot] \in Nat
    BY LayoutAssumption
  <2> QED
    BY <2>1, <2>2 DEF CharTyped, Slots
<1> DEFINE char == IF focus = NoWindow \/ Down(held, "Control_L") THEN 0
                   ELSE CharTyped(key, held)
<1>3. char \in Nat
  BY <1>2
<1>4. /\ pastes' \in {pastes, Append(pastes, call.n)}
      /\ screen' \in {screen, Append(screen, [call |-> call.n, by |-> "keys",
                                               what |-> char])}
      /\ focus' = focus /\ strayed' = strayed
  BY DEF Struck
<1> HIDE DEF char
<1>5. [call |-> call.n, by |-> "keys", what |-> char]
        \in [call : Numbers, by : {"paste", "atspi", "keys"}, what : Nat]
  BY <1>1, <1>3
<1> DEFINE Entry == [call : Numbers, by : {"paste", "atspi", "keys"}, what : Nat]
           e == [call |-> call.n, by |-> "keys", what |-> char]
<1>6. screen \in Seq(Entry) /\ e \in Entry /\ screen' \in {screen, Append(screen, e)}
  BY <1>1, <1>4, <1>5
<1>7. screen' \in Seq(Entry)
  <2> HIDE DEF Entry, e
  <2> QED
    BY <1>6, AppendProperties
<1>8. pastes' \in Seq(Numbers)
  BY <1>1, <1>4, AppendProperties
<1> QED
  BY <1>4, <1>7, <1>8

LEMMA KeyTypes ==
  ASSUME TypeInv, KeyStep
  PROVE  TypeInv'
<1> USE DEF hostVars, gtkVars, desktopVars
<1>0. chord # NoChord /\ chord.step \in {"press", "up", "release"}
  <2>1. chord.step # "none"
    BY DEF KeyStep, PressModifier, KeyDown, KeyUp, ReleaseModifier, EndChord, Stepping
  <2> QED
    BY <2>1 DEF NoChord, TypeInv, ChordInv
<1>1. /\ chord.mods \in Seq(Names) /\ Len(chord.mods) \in 0..2
      /\ DOMAIN chord.mods = 1..Len(chord.mods)
      /\ chord.i \in Nat /\ chord.key \in Keycodes \cup {0} /\ chord.failed \in BOOLEAN
      /\ call.stage # "idle"
      /\ chord = [mods |-> chord.mods, key |-> chord.key, step |-> chord.step,
                  i |-> chord.i, failed |-> chord.failed]
  BY <1>0, ChordMods, ChordFields
<1>2. ModifierKey \in Keycodes \cup {0}
  BY KeysMapped DEF ModifierKey
<1>3. ASSUME PressModifier
      PROVE  TypeInv'
  <2>1. chord.step = "press" /\ chord.i \in 1..Len(chord.mods) /\ ~chord.failed
        /\ \A j \in DOMAIN chord.mods : j < chord.i => KeycodeForName(chord.mods[j]) # 0
    BY <1>0, <1>1, <1>3 DEF PressModifier, Stepping, TypeInv, ChordInv
  <2>2. CASE KeyFails(ModifierKey) /\ Abandon /\ UNCHANGED held
    BY <1>0, <1>2, <1>3, <2>2, Abandons DEF PressModifier
  <2>3. CASE /\ ModifierKey # 0
             /\ held' = held \cup {ModifierKey}
             /\ chord' = [chord EXCEPT !.i = @ + 1]
             /\ UNCHANGED <<badKeys, trouble, call, results>>
    <3>1. chord' = [mods |-> chord.mods, key |-> chord.key, step |-> "press",
                    i |-> chord.i + 1, failed |-> FALSE]
      BY <1>1, <2>1, <2>3
    <3>2. /\ chord.i + 1 \in 0..3 /\ chord.i + 1 \in 1..Len(chord.mods) + 1
          /\ \A j \in DOMAIN chord.mods :
               j < chord.i + 1 => KeycodeForName(chord.mods[j]) # 0
      BY <1>1, <2>1, <2>3 DEF ModifierKey
    <3>3. CallInv' /\ ChordInv' /\ chord' \in [mods : Seq(Names), key : Keycodes \cup {0},
                        step : {"none", "press", "down", "up", "release"}, i : Nat,
                        failed : BOOLEAN]
      BY <1>0, <1>3, <2>3, <3>1, <3>2, ChordGoesOn DEF PressModifier
    <3> QED
      BY <1>2, <1>3, <2>3, <3>3 DEF PressModifier, TypeInv, TypeOK
  <2> QED
    BY <1>3, <2>2, <2>3 DEF PressModifier
<1>4. ASSUME KeyDown
      PROVE  TypeInv'
  <2>1. /\ chord.step = "press" /\ ~chord.failed
        /\ \A j \in DOMAIN chord.mods : KeycodeForName(chord.mods[j]) # 0
    BY <1>0, <1>1, <1>4 DEF KeyDown, Stepping, TypeInv, ChordInv
  <2>2. CASE /\ chord.key # 0
             /\ held' = held \cup {chord.key}
             /\ chord' = [chord EXCEPT !.step = "up"]
             /\ Struck(chord.key)
             /\ UNCHANGED <<badKeys, trouble>>
    <3>1. /\ chord' = [mods |-> chord.mods, key |-> chord.key, step |-> "up",
                       i |-> chord.i, failed |-> FALSE]
      BY <1>1, <2>1, <2>2
    <3>0. chord.i \in 0..3
      BY <1>0, <1>1, <2>1 DEF TypeInv, ChordInv
    <3>2. CallInv' /\ ChordInv' /\ chord' \in [mods : Seq(Names), key : Keycodes \cup {0},
                        step : {"none", "press", "down", "up", "release"}, i : Nat,
                        failed : BOOLEAN]
      BY <1>0, <1>4, <2>1, <2>2, <3>1, <3>0, ChordGoesOn DEF KeyDown
    <3>3. chord.key \in Keycodes
      BY <1>1, <2>2
    <3>4. /\ pastes' \in Seq(Numbers) /\ focus' = focus /\ strayed' = strayed
          /\ screen' \in Seq([call : Numbers, by : {"paste", "atspi", "keys"},
                              what : Nat])
      BY <1>1, <2>2, <3>3, StruckTypes
    <3> QED
      BY <1>4, <2>2, <3>2, <3>3, <3>4 DEF KeyDown, TypeInv, TypeOK
  <2>3. CASE KeyFails(chord.key) /\ ReleaseAll(TRUE) /\ UNCHANGED <<held, desktopVars>>
    <3>1. badKeys' \subseteq Keycodes /\ trouble' \subseteq Possible
          /\ (badKeys' = {} => chord.key = 0)
      BY <1>1, <2>3, FailureTypes
    <3>2. /\ chord' = [mods |-> chord.mods, key |-> chord.key, step |-> "release",
                       i |-> Len(chord.mods), failed |-> TRUE]
      BY <1>1, <2>3 DEF ReleaseAll
    <3>0. Len(chord.mods) \in 0..3 /\ Len(chord.mods) \in 0..Len(chord.mods)
      BY <1>1
    <3>3. CallInv' /\ ChordInv' /\ chord' \in [mods : Seq(Names), key : Keycodes \cup {0},
                        step : {"none", "press", "down", "up", "release"}, i : Nat,
                        failed : BOOLEAN]
      BY <1>0, <1>1, <1>4, <2>1, <3>1, <3>2, <3>0, ChordGoesOn DEF KeyDown
    <3> QED
      BY <1>4, <2>3, <3>1, <3>3 DEF KeyDown, TypeInv, TypeOK
  <2> QED
    BY <1>4, <2>2, <2>3 DEF KeyDown
<1>5. ASSUME KeyUp
      PROVE  TypeInv'
  <2>1. /\ chord.step = "up" /\ chord.key \in Keycodes /\ ~chord.failed
        /\ \A j \in DOMAIN chord.mods : KeycodeForName(chord.mods[j]) # 0
    BY <1>0, <1>1, <1>5 DEF KeyUp, Stepping, TypeInv, ChordInv
  <2>0. \/ ReleaseAll(FALSE) /\ UNCHANGED <<badKeys, trouble>>
        \/ ReleaseAll(TRUE) /\ KeyFails(chord.key)
    BY <1>5 DEF KeyUp
  <2>2. PICK failed \in BOOLEAN :
          /\ chord' = [mods |-> chord.mods, key |-> chord.key, step |-> "release",
                       i |-> Len(chord.mods), failed |-> failed]
          /\ \/ failed /\ KeyFails(chord.key)
             \/ ~failed /\ UNCHANGED <<badKeys, trouble>>
    BY <1>1, <2>0 DEF ReleaseAll
  <2>3. /\ badKeys' \subseteq Keycodes /\ trouble' \subseteq Possible
        /\ (failed /\ badKeys' = {} => chord.key = 0)
    BY <1>1, <2>1, <2>2, FailureTypes DEF TypeInv, TypeOK
  <2>4. Len(chord.mods) \in 0..3 /\ Len(chord.mods) \in 0..Len(chord.mods)
    BY <1>1
  <2>5. CallInv' /\ ChordInv' /\ chord' \in [mods : Seq(Names), key : Keycodes \cup {0},
                      step : {"none", "press", "down", "up", "release"}, i : Nat,
                      failed : BOOLEAN]
    BY <1>0, <1>5, <2>1, <2>2, <2>3, <2>4, ChordGoesOn DEF KeyUp
  <2>6. held' \subseteq Keycodes
    BY <1>5 DEF KeyUp, TypeInv, TypeOK
  <2> QED
    BY <1>5, <2>3, <2>5, <2>6 DEF KeyUp, TypeInv, TypeOK
<1>6. ASSUME ReleaseModifier
      PROVE  TypeInv'
  <2>1. /\ chord.step = "release" /\ chord.i \in 1..Len(chord.mods)
        /\ \A j \in DOMAIN chord.mods : KeycodeForName(chord.mods[j]) # 0
        /\ (chord.failed /\ badKeys = {} => chord.key = 0)
    BY <1>0, <1>1, <1>6 DEF ReleaseModifier, Stepping, TypeInv, ChordInv
  <2>2. CASE KeyFails(ModifierKey) /\ Abandon /\ UNCHANGED held
    BY <1>0, <1>2, <1>6, <2>2, Abandons DEF ReleaseModifier
  <2>3. CASE /\ held' = held \ {ModifierKey}
             /\ chord' = [chord EXCEPT !.i = @ - 1]
             /\ UNCHANGED <<badKeys, trouble, call, results>>
    <3>1. /\ chord' = [mods |-> chord.mods, key |-> chord.key, step |-> "release",
                       i |-> chord.i - 1, failed |-> chord.failed]
          /\ chord.i - 1 \in 0..3 /\ chord.i - 1 \in 0..Len(chord.mods)
      BY <1>1, <2>1, <2>3
    <3>2. CallInv' /\ ChordInv' /\ chord' \in [mods : Seq(Names), key : Keycodes \cup {0},
                        step : {"none", "press", "down", "up", "release"}, i : Nat,
                        failed : BOOLEAN]
      BY <1>0, <1>1, <1>6, <2>1, <2>3, <3>1, ChordGoesOn DEF ReleaseModifier
    <3> QED
      BY <1>6, <2>3, <3>2 DEF ReleaseModifier, TypeInv, TypeOK
  <2> QED
    BY <1>6, <2>2, <2>3 DEF ReleaseModifier
<1>7. ASSUME EndChord
      PROVE  TypeInv'
  <2>1. NoChord \in [mods : Seq(Names), key : Keycodes \cup {0},
                     step : {"none", "press", "down", "up", "release"}, i : Nat,
                     failed : BOOLEAN]
    BY ModsAreLists DEF NoChord
  <2>2. CASE \E r \in {"ok", "failed"} : Return(r)
    <3>1. CallInv' /\ ChordInv' /\ results' \in Seq({"ok", "failed"})
          /\ call' \in [n : Numbers, stage : Stages, mode : AllModes, by : Numbers,
                        typed : Nat]
      BY <1>1, <1>7, <2>2, Returns DEF EndChord
    <3> QED
      BY <1>7, <2>1, <3>1 DEF EndChord, TypeInv, TypeOK
  <2>3. CASE /\ call.stage = "typing" /\ call' = [call EXCEPT !.typed = @ + 1]
             /\ UNCHANGED results
    <3>1. /\ call'.n = call.n /\ call'.stage = "typing" /\ call'.typed = call.typed + 1
          /\ call' \in [n : Numbers, stage : Stages, mode : AllModes, by : Numbers,
                        typed : Nat]
      <4>1. call \in [n : Numbers, stage : Stages, mode : AllModes, by : Numbers,
                       typed : Nat]
        BY DEF TypeInv, TypeOK
      <4> QED
        BY <2>3, <4>1
    <3>2. call.typed < Len(Text) /\ call.typed \in Nat /\ Len(Text) \in Nat
      <4>1. call.n \in 1..Len(submitted)
        BY <1>1 DEF TypeInv, TypeOK, CallInv
      <4>2. Text \in Seq(Nat)
        BY <4>1, InjectorAssumption DEF Text, TypeInv, TypeOK
      <4> QED
        BY <1>0, <2>3, <4>2 DEF TypeInv, TypeOK, ChordInv
    <3>3. CallInv'
      BY <1>7, <2>3, <3>1, <3>2 DEF CallInv, TypeInv, EndChord, Text
    <3> QED
      BY <1>7, <2>1, <2>3, <3>1, <3>3 DEF EndChord, TypeInv, TypeOK, ChordInv
  <2> QED
    BY <1>0, <1>7, <2>2, <2>3 DEF EndChord, TypeInv, ChordInv
<1> QED
  BY <1>3, <1>4, <1>5, <1>6, <1>7 DEF KeyStep

\* An entry of the screen.
LEMMA ScreenGrows ==
  ASSUME TypeInv, NEW way \in {"paste", "atspi", "keys"}, NEW n \in Numbers, NEW w \in Nat,
         screen' \in {screen, Append(screen, [call |-> n, by |-> way, what |-> w])}
  PROVE  screen' \in Seq([call : Numbers, by : {"paste", "atspi", "keys"}, what : Nat])
<1> DEFINE Entry == [call : Numbers, by : {"paste", "atspi", "keys"}, what : Nat]
           e == [call |-> n, by |-> way, what |-> w]
<1>1. screen \in Seq(Entry) /\ e \in Entry /\ screen' \in {screen, Append(screen, e)}
  BY DEF TypeInv, TypeOK
<1> HIDE DEF Entry, e
<1>2. screen' \in Seq(Entry)
  BY <1>1, AppendProperties
<1> QED
  BY <1>2 DEF Entry

LEMMA TextTypes ==
  ASSUME TypeInv, call.stage # "idle"
  PROVE  /\ Text \in Seq(Nat) /\ Len(Text) \in Nat /\ call.typed \in Nat
         /\ call.n \in Numbers /\ call.n \in Nat /\ call.n \in 1..Len(submitted)
         /\ Text = submitted[call.n]
<1>1. call.n \in Numbers /\ call.typed \in Nat /\ submitted \in Seq(Texts)
  BY DEF TypeInv, TypeOK
<1>2. call.n \in 1..Len(submitted)
  BY DEF TypeInv, TypeOK, CallInv
<1>3. submitted[call.n] \in Texts
  BY <1>1, <1>2
<1>4. submitted[call.n] \in Seq(Nat)
  BY <1>3, InjectorAssumption
<1>5. Len(submitted[call.n]) \in Nat
  BY <1>4
<1> QED
  BY <1>1, <1>2, <1>4, <1>5 DEF Text

LEMMA BackendTypes ==
  ASSUME TypeInv,
         InsertByAtspi \/ AtspiUnavailable \/ BeginTyping \/ BeginUnits
  PROVE  TypeInv'
<1> USE DEF hostVars, keyVars, gtkVars, desktopVars
<1> DEFINE Kept == UNCHANGED <<installed, hostVars, keyVars, gtkVars, focus, pastes>>
<1>1. /\ chord = NoChord /\ chord' = NoChord /\ Kept
      /\ call.stage \in {"atspi", "x11", "windows"} /\ call.stage # "idle"
      /\ \/ \E r \in {"ok", "failed"} : Return(r)
         \/ \E stage \in {"x11", "typing", "units"} :
              Goto(stage) /\ (stage = "units" <=> call.stage = "windows")
  BY DEF InsertByAtspi, AtspiUnavailable, BeginTyping, BeginUnits, At
<1>2. CallInv' /\ ChordInv' /\ results' \in Seq({"ok", "failed"})
      /\ call' \in [n : Numbers, stage : Stages, mode : AllModes, by : Numbers,
                    typed : Nat]
  <2>1. CASE \E r \in {"ok", "failed"} : Return(r)
    BY <1>1, <2>1, Returns
  <2>2. ASSUME NEW stage \in {"x11", "typing", "units"}, Goto(stage),
               stage = "units" <=> call.stage = "windows"
        PROVE  CallInv' /\ ChordInv' /\ results' \in Seq({"ok", "failed"})
               /\ call' \in [n : Numbers, stage : Stages, mode : AllModes, by : Numbers,
                             typed : Nat]
    <3>1. stage \in Stages \ {"idle", "clipboard", "owner", "shortcut"}
      BY StagesAre
    <3>2. /\ stage \in {"windows", "units"} <=> call.stage \in {"windows", "units"}
          /\ call.stage \notin {"typing", "units"}
      BY <1>1, <2>2
    <3>3. UNCHANGED <<installed, submitted>>
      BY <1>1
    <3> QED
      BY <1>1, <2>2, <3>1, <3>2, <3>3, Goes
  <2> QED
    BY <1>1, <2>1, <2>2
<1>3. /\ screen' \in Seq([call : Numbers, by : {"paste", "atspi", "keys"}, what : Nat])
      /\ strayed' \in BOOLEAN /\ trouble' \subseteq Possible
  <2>1. CASE InsertByAtspi
    <3>1. screen' \in {screen, Append(screen, [call |-> call.n, by |-> "atspi",
                                               what |-> 0])}
          /\ strayed' \in BOOLEAN /\ trouble' = trouble
      BY <2>1 DEF InsertByAtspi
    <3>2. call.n \in Numbers /\ 0 \in Nat
      BY <1>1, TextTypes
    <3> QED
      BY <3>1, <3>2, ScreenGrows DEF TypeInv, TypeOK
  <2>2. CASE AtspiUnavailable \/ BeginTyping \/ BeginUnits
    BY <2>2 DEF AtspiUnavailable, BeginTyping, BeginUnits, Happens, TypeInv, TypeOK
  <2> QED
    BY <2>1, <2>2
<1> QED
  BY <1>1, <1>2, <1>3 DEF TypeInv, TypeOK

LEMMA TypeNextTypes ==
  ASSUME TypeInv, TypeNext
  PROVE  TypeInv'
<1> USE DEF hostVars, keyVars, gtkVars, desktopVars
<1>1. /\ chord = NoChord /\ call.stage = "typing"
      /\ UNCHANGED <<installed, hostVars, held, badKeys, gtkVars, desktopVars, trouble>>
  BY DEF TypeNext, At
<1>2. CASE chord' = NoChord /\ \E r \in {"ok", "failed"} : Return(r)
  <2>1. CallInv' /\ ChordInv' /\ results' \in Seq({"ok", "failed"})
        /\ call' \in [n : Numbers, stage : Stages, mode : AllModes, by : Numbers,
                      typed : Nat]
    BY <1>1, <1>2, Returns
  <2> QED
    BY <1>1, <1>2, <2>1 DEF TypeInv, TypeOK
<1>3. ASSUME call.typed # Len(Text), OnLayout(Text[call.typed + 1]),
             UNCHANGED <<call, results>>,
             StartChord(LayoutPlace(Text[call.typed + 1]).mods,
                        LayoutPlace(Text[call.typed + 1]).key)
      PROVE  TypeInv'
  <2> DEFINE place == LayoutPlace(Text[call.typed + 1])
  <2>1. /\ place.mods \in Seq(Names) /\ Len(place.mods) \in 0..2
        /\ DOMAIN place.mods = 1..Len(place.mods) /\ place.key \in Keycodes
    BY <1>3, LayoutPlaceIsPlace, PlaceTypes, ModsAreLists
  <2>2. chord' = [mods |-> place.mods, key |-> place.key, step |-> "press", i |-> 1,
                  failed |-> FALSE]
    BY <1>3 DEF StartChord
  <2>3. call.typed < Len(Text)
    BY <1>1, <1>3, TextTypes DEF TypeInv, CallInv
  <2> HIDE DEF place
  <2>4. chord' \in [mods : Seq(Names), key : Keycodes \cup {0},
                    step : {"none", "press", "down", "up", "release"}, i : Nat,
                    failed : BOOLEAN]
    BY <2>1, <2>2
  <2>5. ChordInv'
    BY <1>1, <1>3, <2>1, <2>2, <2>3 DEF ChordInv, PlaceOf, Text, place
  <2>6. CallInv'
    BY <1>1, <1>3 DEF CallInv, TypeInv, Text
  <2> QED
    BY <1>1, <1>3, <2>4, <2>5, <2>6 DEF TypeInv, TypeOK
<1> QED
  BY <1>1, <1>2, <1>3 DEF TypeNext

LEMMA SendUnitTypes ==
  ASSUME TypeInv, SendUnit
  PROVE  TypeInv'
<1> USE DEF hostVars, keyVars, gtkVars, desktopVars
<1>1. /\ chord = NoChord /\ chord' = NoChord /\ call.stage = "units"
      /\ UNCHANGED <<installed, hostVars, keyVars, gtkVars, focus, pastes, strayed>>
      /\ trouble' \subseteq Possible
  BY DEF SendUnit, At, Happens, TypeInv, TypeOK
<1>2. screen' \in Seq([call : Numbers, by : {"paste", "atspi", "keys"}, what : Nat])
  <2>1. CASE call.typed = Len(Text)
    BY <2>1 DEF SendUnit, TypeInv, TypeOK
  <2>2. CASE call.typed # Len(Text)
    <3>1. Text[call.typed + 1] \in Nat /\ call.n \in Numbers
      BY <1>1, <2>2, TextTypes DEF TypeInv, CallInv
    <3>2. CodeUnit(Text[call.typed + 1]) \in Nat
      BY <3>1 DEF CodeUnit
    <3>3. screen' \in {screen, Append(screen, [call |-> call.n, by |-> "keys",
                                   what |-> CodeUnit(Text[call.typed + 1])])}
      BY <2>2 DEF SendUnit
    <3> QED
      BY <3>1, <3>2, <3>3, ScreenGrows
  <2> QED
    BY <2>1, <2>2
<1>3. CallInv' /\ ChordInv' /\ results' \in Seq({"ok", "failed"})
      /\ call' \in [n : Numbers, stage : Stages, mode : AllModes, by : Numbers,
                    typed : Nat]
  <2>1. CASE \E r \in {"ok", "failed"} : Return(r)
    BY <1>1, <2>1, Returns
  <2>2. CASE /\ call.typed # Len(Text) /\ call' = [call EXCEPT !.typed = @ + 1]
             /\ UNCHANGED results
    <3>1. call \in [n : Numbers, stage : Stages, mode : AllModes, by : Numbers,
                    typed : Nat]
      BY DEF TypeInv, TypeOK
    <3>2. /\ call'.n = call.n /\ call'.stage = "units" /\ call'.typed = call.typed + 1
          /\ call' \in [n : Numbers, stage : Stages, mode : AllModes, by : Numbers,
                        typed : Nat]
      BY <1>1, <2>2, <3>1
    <3>3. call.typed + 1 <= Len(Text)
      BY <1>1, <2>2, TextTypes DEF TypeInv, CallInv
    <3>4. CallInv'
      BY <1>1, <2>2, <3>2, <3>3 DEF CallInv, TypeInv, Text
    <3> QED
      BY <1>1, <2>2, <3>2, <3>4 DEF TypeInv, TypeOK, ChordInv
  <2> QED
    BY <2>1, <2>2 DEF SendUnit
<1> QED
  BY <1>1, <1>2, <1>3 DEF TypeInv, TypeOK

LEMMA SubmitTypes ==
  ASSUME TypeInv, NEW text \in Texts, NEW mode \in PasteModes, Submit(text, mode)
  PROVE  TypeInv' /\ \A n \in 1..Len(submitted) : submitted'[n] = submitted[n]
<1>1. /\ Len(submitted) \in Nat /\ Len(submitted) < MaxCalls /\ MaxCalls \in Nat
      /\ submitted' = Append(submitted, text) /\ submitted \in Seq(Texts)
      /\ SetPasteMode(mode, Len(submitted) + 1)
      /\ UNCHANGED <<installed, call, results, keyVars, gtkVars, desktopVars, trouble>>
  BY InjectorAssumption DEF Submit, TypeInv, TypeOK
<1>2. /\ submitted' \in Seq(Texts) /\ Len(submitted') = Len(submitted) + 1
      /\ \A n \in 1..Len(submitted) : submitted'[n] = submitted[n]
  BY <1>1, AppendProperties
<1>3. pasteMode' \in [mode : AllModes, by : Numbers]
  <2>1. mode \in AllModes /\ Len(submitted) + 1 \in Numbers
    BY <1>1, InjectorAssumption DEF Numbers
  <2> QED
    BY <1>1, <2>1 DEF SetPasteMode, TypeInv, TypeOK
<1>4. /\ installed' = installed /\ call' = call /\ results' = results /\ chord' = chord
      /\ badKeys' = badKeys
  BY <1>1 DEF keyVars
<1>5. call.stage # "idle" => call.n \in 1..Len(submitted) /\ Text' = Text
  BY <1>2, <1>4, TextTypes DEF Text
<1>6. CallInv'
  BY <1>1, <1>2, <1>4, <1>5 DEF CallInv, TypeInv, TypeOK
<1>7. ChordInv'
  BY <1>4, <1>5 DEF ChordInv, TypeInv, PlaceOf
<1> QED
  BY <1>1, <1>2, <1>3, <1>6, <1>7
     DEF TypeInv, TypeOK, keyVars, gtkVars, desktopVars

LEMMA DesktopTypes ==
  ASSUME TypeInv, GtkStep \/ ForeignCopy \/ MoveFocus \/ ReadClipboard
  PROVE  TypeInv'
<1> USE DEF hostVars, keyVars, gtkVars, desktopVars
<1>0. /\ setQueue \in Seq(Numbers) /\ pastes \in Seq(Numbers) /\ clipboard \in Numbers
      /\ notices \in Nat /\ 0 \in Numbers /\ Numbers \subseteq Nat
  BY InjectorAssumption DEF TypeInv, TypeOK, Numbers
<1>1. UNCHANGED <<installed, submitted, call, results, chord, badKeys>>
  BY DEF GtkStep, RunSet, OnOwnerChange, ForeignCopy, MoveFocus, ReadClipboard
<1>2. CallInv' /\ ChordInv'
  BY <1>1, Waits
<1>3. CASE RunSet
  <2>1. Head(setQueue) \in Numbers /\ Tail(setQueue) \in Seq(Numbers)
    BY <1>0, <1>3 DEF RunSet
  <2>2. clipboard' \in Numbers /\ setQueue' \in Seq(Numbers) /\ notices' \in Nat
    BY <1>0, <1>3, <2>1 DEF RunSet
  <2>3. UNCHANGED <<installed, hostVars, call, results, keyVars, ownerChanged,
                    desktopVars, trouble>>
    BY <1>3 DEF RunSet
  <2> QED
    BY <1>2, <2>2, <2>3 DEF TypeInv, TypeOK
<1>4. CASE OnOwnerChange
  BY <1>0, <1>2, <1>4 DEF OnOwnerChange, TypeInv, TypeOK
<1>5. CASE ForeignCopy
  BY <1>0, <1>2, <1>5 DEF ForeignCopy, Happens, TypeInv, TypeOK
<1>6. CASE MoveFocus
  BY <1>2, <1>6 DEF MoveFocus, Happens, TypeInv, TypeOK
<1>7. CASE ReadClipboard
  <2>1. Head(pastes) \in Numbers /\ Tail(pastes) \in Seq(Numbers)
        /\ screen' = Append(screen, [call |-> Head(pastes), by |-> "paste",
                                     what |-> clipboard])
    BY <1>0, <1>7 DEF ReadClipboard
  <2>2. screen' \in Seq([call : Numbers, by : {"paste", "atspi", "keys"}, what : Nat])
    BY <1>0, <2>1, ScreenGrows
  <2> QED
    BY <1>2, <1>7, <2>1, <2>2 DEF ReadClipboard, TypeInv, TypeOK
<1> QED
  BY <1>3, <1>4, <1>5, <1>6, <1>7 DEF GtkStep

LEMMA TypeStep == TypeInv /\ [Next]_vars => TypeInv'
<1> SUFFICES ASSUME TypeInv, [Next]_vars
             PROVE  TypeInv'
  OBVIOUS
<1>1. CASE UNCHANGED vars
  BY <1>1 DEF vars, hostVars, keyVars, gtkVars, desktopVars, TypeInv, TypeOK, CallInv,
     ChordInv, Text, PlaceOf
<1>2. CASE WorkerStep
  BY <1>2, CallTypes, KeyTypes, BackendTypes, TypeNextTypes, SendUnitTypes DEF WorkerStep
<1> QED
  BY <1>1, <1>2, SubmitTypes, DesktopTypes DEF Next

LEMMA SpecTypes == Spec => []TypeInv
BY TypeInit, TypeStep, PTL DEF Spec

\* The state of the injectors, of the clipboard and of the desktop keeps its
\* types, for any texts, keyboard layout, windows and accessible trees.
THEOREM InjectorTypes == Spec => []TypeOK
BY SpecTypes, PTL DEF TypeInv

-----------------------------------------------------------------------------
(* The keys that are down.                                                 *)

\* The modifiers pressed for the chord.
Pressed ==
  {j \in DOMAIN chord.mods :
     \/ chord.step = "press" /\ j < chord.i
     \/ chord.step = "up"
     \/ chord.step = "release" /\ j <= chord.i}

\* What is down is a modifier of the chord, the key it strikes, or a key of
\* which an event failed.
HeldInv ==
  /\ chord.step \in {"press", "up"} =>
       \A j \in Pressed : KeycodeForName(chord.mods[j]) \in held
  /\ ModifiersWork =>
       \A k \in held :
         \/ k \in badKeys
         \/ \E j \in Pressed : k = KeycodeForName(chord.mods[j])
         \/ chord.step = "up" /\ k = chord.key

LEMMA NothingPressed ==
  ASSUME chord = NoChord
  PROVE  Pressed = {} /\ chord.step = "none"
BY DEF NoChord, Pressed

LEMMA KeyStepChord ==
  ASSUME TypeInv, KeyStep
  PROVE  chord # NoChord /\ chord.step \in {"press", "up", "release"}
<1>1. chord.step # "none"
  BY DEF KeyStep, PressModifier, KeyDown, KeyUp, ReleaseModifier, EndChord, Stepping
<1> QED
  BY <1>1 DEF NoChord, TypeInv, ChordInv

\* A modifier of a chord that has a key is one of Modifiers.
LEMMA MappedIsModifier ==
  ASSUME NEW name \in Names, KeycodeForName(name) # 0
  PROVE  KeycodeForName(name) \in KeysOf(Modifiers)
<1>1. name \in KeysymNames
  BY LayoutAssumption DEF KeycodeForName
<1>2. name \in Modifiers
  BY <1>1 DEF Names, KeysymNames, Modifiers
<1> QED
  BY <1>2 DEF KeysOf

\* Only the first modifier of a chord may be one that has no key.
LEMMA UnmappedIsFirst ==
  ASSUME TypeInv, chord # NoChord, chord.step = "press",
         chord.i \in DOMAIN chord.mods, KeycodeForName(chord.mods[chord.i]) = 0
  PROVE  Pressed = {}
<1>1. DOMAIN chord.mods = 1..Len(chord.mods) /\ Len(chord.mods) \in 0..2
  BY ChordMods
<1>2. KeycodeForName("Shift_L") # 0 /\ KeycodeForName("shift") = 0
  BY LayoutAssumption DEF KeycodeForName, KeysymNames, Modifiers
<1>3. chord.i # 2
  <2>1. SUFFICES ASSUME chord.i = 2
                 PROVE  FALSE
    OBVIOUS
  <2>2. chord.mods = <<"Control_L", "Shift_L">> \/ chord.mods = <<"shift", "altgr">>
    BY <1>1, <2>1, ChordMods DEF TypeInv, ChordInv
  <2>3. chord.mods[2] # "Shift_L"
    BY <1>2, <2>1
  <2>4. chord.mods[1] = "shift" /\ 1 \in DOMAIN chord.mods
    BY <1>1, <2>1, <2>2, <2>3
  <2>5. KeycodeForName(chord.mods[1]) # 0
    BY <2>1, <2>4 DEF TypeInv, ChordInv
  <2> QED
    BY <1>2, <2>4, <2>5
<1>4. chord.i = 1
  BY <1>1, <1>3
<1> QED
  BY <1>1, <1>4 DEF Pressed

LEMMA FailuresStay ==
  ASSUME [Next]_vars
  PROVE  /\ badKeys \subseteq badKeys' /\ trouble \subseteq trouble'
         /\ ModifiersWork' => ModifiersWork
<1>1. badKeys \subseteq badKeys' /\ trouble \subseteq trouble'
  BY DEF Next, Submit, WorkerStep, TakeCall, BeginPaste, GiveUpClipboard, SendShortcut,
     KeyStep, PressModifier, KeyDown, KeyUp, ReleaseModifier, EndChord, InsertByAtspi,
     AtspiUnavailable, BeginTyping, TypeNext, BeginUnits, SendUnit, GtkStep, RunSet,
     OnOwnerChange, ForeignCopy, MoveFocus, ReadClipboard, KeyFails, Happens, vars,
     hostVars, keyVars, gtkVars, desktopVars
<1> QED
  BY <1>1 DEF ModifiersWork

LEMMA HeldInit == Init => HeldInv
BY DEF Init, HeldInv, NoChord

LEMMA HeldKeys ==
  ASSUME TypeInv, HeldInv, KeyStep
  PROVE  HeldInv'
<1>0. /\ chord # NoChord /\ chord.step \in {"press", "up", "release"}
      /\ chord.mods \in Seq(Names) /\ Len(chord.mods) \in 0..2
      /\ DOMAIN chord.mods = 1..Len(chord.mods)
      /\ chord.i \in Nat /\ chord.key \in Keycodes \cup {0}
      /\ chord = [mods |-> chord.mods, key |-> chord.key, step |-> chord.step,
                  i |-> chord.i, failed |-> chord.failed]
      /\ badKeys \subseteq badKeys' /\ (ModifiersWork' => ModifiersWork)
  BY KeyStepChord, ChordMods, ChordFields, FailuresStay DEF Next, WorkerStep
<1> DEFINE Key(j) == KeycodeForName(chord.mods[j])
<1>1. ASSUME PressModifier
      PROVE  HeldInv'
  <2>1. chord.step = "press" /\ chord.i \in DOMAIN chord.mods
    BY <1>0, <1>1 DEF PressModifier, Stepping, TypeInv, ChordInv
  <2>2. CASE /\ held' = held \cup {ModifierKey}
             /\ chord' = [chord EXCEPT !.i = @ + 1]
             /\ UNCHANGED badKeys
    <3>1. chord' = [mods |-> chord.mods, key |-> chord.key, step |-> "press",
                    i |-> chord.i + 1, failed |-> chord.failed]
      BY <1>0, <2>1, <2>2
    <3>2. Pressed' = Pressed \cup {chord.i}
      BY <1>0, <2>1, <3>1 DEF Pressed
    <3> QED
      BY <1>0, <2>1, <2>2, <3>1, <3>2 DEF HeldInv, ModifierKey
  <2>3. CASE KeyFails(ModifierKey) /\ Abandon /\ UNCHANGED held
    <3>1. chord' = NoChord /\ Pressed' = {} /\ chord'.step = "none"
      BY <2>3 DEF Abandon, NoChord, Pressed
    <3>2. CASE ModifierKey = 0
      <4>1. Pressed = {}
        BY <1>0, <2>1, <3>2, UnmappedIsFirst DEF ModifierKey
      <4> QED
        BY <1>0, <2>1, <2>3, <3>1, <4>1 DEF HeldInv
    <3>3. CASE ModifierKey # 0
      <4>1. ModifierKey \in KeysOf(Modifiers)
        BY <1>0, <2>1, <3>3, MappedIsModifier DEF ModifierKey
      <4>2. ModifierKey \in badKeys'
        BY <2>3, <3>3 DEF KeyFails
      <4> QED
        BY <3>1, <4>1, <4>2 DEF HeldInv, ModifiersWork
    <3> QED
      BY <3>2, <3>3
  <2> QED
    BY <1>1, <2>2, <2>3 DEF PressModifier
<1>2. ASSUME KeyDown
      PROVE  HeldInv'
  <2>1. chord.step = "press" /\ chord.i > Len(chord.mods)
    BY <1>2 DEF KeyDown, Stepping
  <2>2. Pressed = DOMAIN chord.mods
    BY <1>0, <2>1 DEF Pressed
  <2>3. CASE /\ held' = held \cup {chord.key}
             /\ chord' = [chord EXCEPT !.step = "up"]
             /\ UNCHANGED badKeys
    <3>1. chord' = [mods |-> chord.mods, key |-> chord.key, step |-> "up",
                    i |-> chord.i, failed |-> chord.failed]
      BY <1>0, <2>1, <2>3
    <3>2. Pressed' = Pressed
      BY <2>2, <3>1 DEF Pressed
    <3> QED
      BY <1>0, <2>1, <2>3, <3>1, <3>2 DEF HeldInv
  <2>4. CASE KeyFails(chord.key) /\ ReleaseAll(TRUE) /\ UNCHANGED held
    <3>1. chord' = [mods |-> chord.mods, key |-> chord.key, step |-> "release",
                    i |-> Len(chord.mods), failed |-> TRUE]
      BY <1>0, <2>4 DEF ReleaseAll
    <3>2. Pressed' = Pressed
      BY <1>0, <2>2, <3>1 DEF Pressed
    <3> QED
      BY <1>0, <2>1, <2>4, <3>1, <3>2 DEF HeldInv
  <2> QED
    BY <1>2, <2>3, <2>4 DEF KeyDown
<1>3. ASSUME KeyUp
      PROVE  HeldInv'
  <2>1. chord.step = "up" /\ chord.key # 0 /\ Pressed = DOMAIN chord.mods
    BY <1>0, <1>3 DEF KeyUp, Stepping, TypeInv, ChordInv, Pressed
  <2>2. \/ held' = held \ {chord.key} /\ ReleaseAll(FALSE)
        \/ KeyFails(chord.key) /\ ReleaseAll(TRUE) /\ UNCHANGED held
    BY <1>3 DEF KeyUp
  <2>3. /\ chord'.mods = chord.mods /\ chord'.step = "release"
        /\ chord'.i = Len(chord.mods)
    BY <1>0, <2>2 DEF ReleaseAll
  <2>4. Pressed' = Pressed
    BY <1>0, <2>1, <2>3 DEF Pressed
  <2>5. \A k \in held' : k \in held /\ (k = chord.key => k \in badKeys')
    BY <2>1, <2>2 DEF KeyFails
  <2> QED
    BY <1>0, <2>1, <2>3, <2>4, <2>5 DEF HeldInv
<1>4. ASSUME ReleaseModifier
      PROVE  HeldInv'
  <2>1. chord.step = "release" /\ chord.i \in DOMAIN chord.mods
    BY <1>0, <1>4 DEF ReleaseModifier, Stepping, TypeInv, ChordInv
  <2>2. CASE held' = held \ {ModifierKey} /\ chord' = [chord EXCEPT !.i = @ - 1]
             /\ UNCHANGED badKeys
    <3>1. chord' = [mods |-> chord.mods, key |-> chord.key, step |-> "release",
                    i |-> chord.i - 1, failed |-> chord.failed]
      BY <1>0, <2>1, <2>2
    <3>2. Pressed' = Pressed \ {chord.i}
      BY <1>0, <2>1, <3>1 DEF Pressed
    <3> QED
      BY <1>0, <2>1, <2>2, <3>1, <3>2 DEF HeldInv, ModifierKey
  <2>3. CASE KeyFails(ModifierKey) /\ Abandon
    <3>1. chord'.step = "none"
      BY <2>3 DEF Abandon, NoChord
    <3>2. ModifierKey # 0
      BY <1>0, <2>1 DEF ModifierKey, TypeInv, ChordInv
    <3>3. ModifierKey \in KeysOf(Modifiers)
      BY <1>0, <2>1, <3>2, MappedIsModifier DEF ModifierKey
    <3>4. ModifierKey \in badKeys'
      BY <2>3, <3>2 DEF KeyFails
    <3> QED
      BY <3>1, <3>3, <3>4 DEF HeldInv, ModifiersWork
  <2> QED
    BY <1>4, <2>2, <2>3 DEF ReleaseModifier
<1>5. ASSUME EndChord
      PROVE  HeldInv'
  <2>1. /\ chord.step = "release" /\ chord.i = 0 /\ chord' = NoChord
        /\ UNCHANGED <<held, badKeys>>
    BY <1>5 DEF EndChord, Stepping
  <2>2. Pressed = {} /\ Pressed' = {} /\ chord'.step = "none"
    BY <1>0, <2>1 DEF Pressed, NoChord
  <2> QED
    BY <1>0, <2>1, <2>2 DEF HeldInv
<1> QED
  BY <1>1, <1>2, <1>3, <1>4, <1>5 DEF KeyStep

\* A chord that begins.
LEMMA HeldStart ==
  ASSUME HeldInv, chord = NoChord, NEW mods \in Seq(Names), NEW key, StartChord(mods, key),
         UNCHANGED <<held, badKeys>>
  PROVE  HeldInv'
<1>1. Pressed = {} /\ chord.step = "none"
  BY NothingPressed
<1>2. chord'.step = "press" /\ chord'.i = 1 /\ chord'.mods = mods
  BY DEF StartChord
<1>3. ModifiersWork' => ModifiersWork
  BY DEF ModifiersWork
<1>4. ModifiersWork' => \A k \in held' : k \in badKeys'
  BY <1>1, <1>3 DEF HeldInv
<1>5. Pressed' = {}
  <2>1. DOMAIN mods = 1..Len(mods)
    OBVIOUS
  <2> QED
    BY <1>2, <2>1 DEF Pressed
<1> QED
  BY <1>2, <1>4, <1>5 DEF HeldInv

LEMMA HeldStep == TypeInv /\ HeldInv /\ [Next]_vars => HeldInv'
<1> SUFFICES ASSUME TypeInv, HeldInv, [Next]_vars
             PROVE  HeldInv'
  OBVIOUS
<1>1. CASE UNCHANGED keyVars
  BY <1>1 DEF keyVars, HeldInv, Pressed, ModifiersWork
<1>2. CASE KeyStep
  BY <1>2, HeldKeys
<1>3. CASE SendShortcut
  <2> DEFINE s == Shortcut(call.mode)
  <2>1. /\ chord = NoChord /\ call.stage = "owner"
        /\ StartChord(s.mods, KeycodeForName(s.key)) /\ UNCHANGED <<held, badKeys>>
    BY <1>3 DEF SendShortcut, At
  <2>2. call.mode \in AllModes \ {"auto"}
    BY <2>1 DEF TypeInv, TypeOK, CallInv
  <2>3. s.mods \in Seq(Names)
    BY <2>2, ShortcutTypes, ModsAreLists
  <2> QED
    BY <2>1, <2>3, HeldStart
<1>4. CASE TypeNext
  <2>1. chord = NoChord /\ UNCHANGED <<held, badKeys>>
    BY <1>4 DEF TypeNext, At
  <2>2. CASE UNCHANGED chord
    BY <1>1, <2>1, <2>2 DEF keyVars
  <2>3. CASE chord' # chord
    <3> DEFINE place == LayoutPlace(Text[call.typed + 1])
    <3>1. OnLayout(Text[call.typed + 1]) /\ StartChord(place.mods, place.key)
      BY <1>4, <2>3 DEF TypeNext
    <3>2. place.mods \in Seq(Names)
      BY <3>1, LayoutPlaceIsPlace, PlaceTypes, ModsAreLists
    <3> QED
      BY <2>1, <3>1, <3>2, HeldStart
  <2> QED
    BY <2>2, <2>3
<1>5. UNCHANGED keyVars \/ KeyStep \/ SendShortcut \/ TypeNext
  BY DEF Next, Submit, WorkerStep, TakeCall, BeginPaste, GiveUpClipboard, InsertByAtspi,
     AtspiUnavailable, BeginTyping, BeginUnits, SendUnit, GtkStep, RunSet, OnOwnerChange,
     ForeignCopy, MoveFocus, ReadClipboard, vars
<1> QED
  BY <1>1, <1>2, <1>3, <1>4, <1>5

LEMMA SpecHeld == Spec => []HeldInv
BY SpecTypes, HeldInit, HeldStep, PTL DEF Spec

\* Between two key combinations nothing is held down unless a key event
\* failed, and no modifier unless an event of a modifier did, on any layout
\* and whichever events fail: the finally blocks of tap_unicode_char and
\* _send_paste_shortcut release what was pressed.
THEOREM NoKeyStuck == Spec => []KeysReleased
<1>1. HeldInv => KeysReleased
  <2> SUFFICES ASSUME HeldInv, AtRest
               PROVE  /\ badKeys = {} => held = {}
                      /\ ModifiersWork => held \cap KeysOf(Modifiers) = {}
    BY DEF KeysReleased
  <2>1. Pressed = {} /\ chord.step = "none"
    BY NothingPressed DEF AtRest
  <2>2. ModifiersWork => held \subseteq badKeys
    BY <2>1 DEF HeldInv
  <2> QED
    BY <2>2 DEF ModifiersWork
<1> QED
  BY <1>1, SpecHeld, PTL

-----------------------------------------------------------------------------
(* The calls in their order.                                               *)

\* The number of the call that runs, or of the last one that ended.
Now == IF call.stage = "idle" THEN Len(results) ELSE call.n

\* Where the worker takes the call, if it touches it.
CallMoves ==
  \/ UNCHANGED <<call, results>>
  \/ call.stage = "idle" /\ call'.stage = "idle" /\ Len(results') = Len(results) + 1
  \/ /\ call.stage = "idle" /\ call'.n = Len(results) + 1 /\ results' = results
     /\ call'.stage \in {"clipboard", "atspi", "x11", "windows"} /\ call'.typed = 0
  \/ /\ call.stage # "idle" /\ call'.stage = "idle"
     /\ call.n = Len(results) + 1 /\ Len(results') = Len(results) + 1
  \/ /\ call.stage # "idle" /\ call'.n = call.n /\ results' = results
     /\ \/ call'.typed = call.typed /\ call'.mode = call.mode /\ call'.by = call.by
           /\ <<call.stage, call'.stage>> \in
                {<<"clipboard", "atspi">>, <<"clipboard", "x11">>, <<"owner", "atspi">>,
                 <<"owner", "x11">>, <<"owner", "shortcut">>, <<"atspi", "x11">>,
                 <<"x11", "typing">>, <<"windows", "units">>}
        \/ /\ call.stage = "clipboard" /\ call'.stage = "owner"
           /\ call'.by = pasteMode.by /\ call'.typed = call.typed
        \/ /\ call.stage \in {"typing", "units"} /\ call'.stage = call.stage
           /\ call'.typed = call.typed + 1

LEMMA CallGoesOn ==
  ASSUME TypeInv, [Next]_vars
  PROVE  CallMoves
<1>1. /\ call \in [n : Numbers, stage : Stages, mode : AllModes, by : Numbers,
                   typed : Nat]
      /\ results \in Seq({"ok", "failed"})
      /\ call.stage # "idle" => call.n = Len(results) + 1
  BY DEF TypeInv, TypeOK, CallInv
<1>2. ASSUME NEW r, r \in {"ok", "failed"}, Return(r)
      PROVE  call'.stage = "idle" /\ Len(results') = Len(results) + 1
  BY <1>1, <1>2 DEF Return, Idle
<1>3. ASSUME call.stage # "idle", \E r \in {"ok", "failed"} : Return(r)
      PROVE  CallMoves
  BY <1>1, <1>2, <1>3 DEF CallMoves
<1>4. ASSUME NEW stage, Goto(stage), call.stage # "idle",
             <<call.stage, stage>> \in
                {<<"clipboard", "atspi">>, <<"clipboard", "x11">>, <<"owner", "atspi">>,
                 <<"owner", "x11">>, <<"owner", "shortcut">>, <<"atspi", "x11">>,
                 <<"x11", "typing">>, <<"windows", "units">>}
      PROVE  CallMoves
  <2>1. /\ call'.stage = stage /\ call'.n = call.n /\ call'.typed = call.typed
        /\ call'.mode = call.mode /\ call'.by = call.by /\ results' = results
    BY <1>1, <1>4 DEF Goto
  <2> QED
    BY <1>4, <2>1 DEF CallMoves
<1>5. CASE UNCHANGED <<call, results>>
  BY <1>5 DEF CallMoves
<1>6. CASE TakeCall
  <2>1. CASE installed.kind = "mock"
    BY <1>2, <1>6, <2>1 DEF TakeCall, At, CallMoves
  <2>2. CASE installed.kind # "mock"
    <3>1. FirstStage \in {"clipboard", "atspi", "x11", "windows"}
      BY <2>2, InjectorAssumption
         DEF FirstStage, AfterClipboard, TypeInv, TypeOK, InjectorType
    <3>2. /\ call' = [Idle EXCEPT !.n = Len(results) + 1, !.stage = FirstStage]
          /\ results' = results /\ call.stage = "idle"
      BY <1>6, <2>2 DEF TakeCall, At
    <3>3. call'.n = Len(results) + 1 /\ call'.stage = FirstStage /\ call'.typed = 0
      BY <3>2 DEF Idle
    <3> QED
      BY <3>1, <3>2, <3>3 DEF CallMoves
  <2> QED
    BY <2>1, <2>2
<1>7. CASE BeginPaste
  <2>1. call.stage = "clipboard" /\ AfterClipboard \in {"atspi", "x11"}
    BY <1>7, StagesAre DEF BeginPaste, At
  <2>2. CASE Goto(AfterClipboard)
    BY <1>4, <2>1, <2>2
  <2>3. CASE /\ call' = [call EXCEPT !.stage = "owner", !.mode = ResolvedMode,
                                     !.by = pasteMode.by]
             /\ UNCHANGED results
    BY <1>1, <2>1, <2>3 DEF CallMoves
  <2> QED
    BY <1>7, <2>2, <2>3 DEF BeginPaste
<1>8. CASE GiveUpClipboard \/ SendShortcut
  BY <1>4, <1>8, StagesAre DEF GiveUpClipboard, SendShortcut, At
<1>9. CASE KeyStep
  <2>1. chord # NoChord /\ call.stage # "idle"
    BY <1>9, KeyStepChord, ChordFields
  <2>2. CASE \E r \in {"ok", "failed"} : Return(r)
    BY <1>3, <2>1, <2>2
  <2>3. CASE /\ call.stage = "typing" /\ call' = [call EXCEPT !.typed = @ + 1]
             /\ UNCHANGED results
    BY <1>1, <2>3 DEF CallMoves
  <2> QED
    BY <1>5, <1>9, <2>1, <2>2, <2>3
       DEF KeyStep, PressModifier, KeyDown, KeyUp, ReleaseModifier, EndChord, Abandon,
           TypeInv, ChordInv
<1>10. CASE InsertByAtspi \/ AtspiUnavailable \/ BeginTyping \/ BeginUnits
  BY <1>3, <1>4, <1>10 DEF InsertByAtspi, AtspiUnavailable, BeginTyping, BeginUnits, At
<1>11. CASE TypeNext
  BY <1>3, <1>5, <1>11 DEF TypeNext, At
<1>12. CASE SendUnit
  <2>1. call.stage = "units"
    BY <1>12 DEF SendUnit, At
  <2>2. CASE call' = [call EXCEPT !.typed = @ + 1] /\ UNCHANGED results
    BY <1>1, <2>1, <2>2 DEF CallMoves
  <2> QED
    BY <1>3, <1>12, <2>1, <2>2 DEF SendUnit
<1>13. WorkerStep \/ UNCHANGED <<call, results>>
  BY DEF Next, Submit, GtkStep, RunSet, OnOwnerChange, ForeignCopy, MoveFocus,
     ReadClipboard, vars
<1> QED
  BY <1>5, <1>6, <1>7, <1>8, <1>9, <1>10, <1>11, <1>12, <1>13 DEF WorkerStep

LEMMA NowGrows ==
  ASSUME TypeInv, [Next]_vars
  PROVE  /\ Now \in Nat /\ Now' \in Nat /\ Now <= Now'
         /\ call.stage # "idle" => Now = call.n
         /\ call'.stage # "idle" => Now' = call'.n
         /\ call.stage = "idle" /\ call'.stage # "idle" => Now < call'.n
<1>1. Len(results) \in Nat /\ (call.stage # "idle" => call.n = Len(results) + 1)
  BY DEF TypeInv, TypeOK, CallInv
<1> QED
  BY <1>1, CallGoesOn DEF CallMoves, Now

-----------------------------------------------------------------------------
(* The paste mode.                                                         *)

\* The mode an injector has is the last message's.
ModeInv ==
  /\ installed.clipboard => pasteMode.by = Len(submitted)
  /\ ModeNotOlder

LEMMA ModeInit == Init => ModeInv
BY DEF Init, ModeInv, ModeNotOlder, Idle

LEMMA ModeStep == TypeInv /\ ModeInv /\ [Next]_vars => ModeInv'
<1> SUFFICES ASSUME TypeInv, ModeInv, [Next]_vars
             PROVE  ModeInv'
  OBVIOUS
<1>1. CallMoves
  BY CallGoesOn
<1>2. installed' = installed /\ (installed.clipboard => pasteMode'.by = Len(submitted'))
  <2>1. CASE UNCHANGED <<installed, hostVars>>
    BY <2>1 DEF hostVars, ModeInv
  <2>2. ASSUME NEW text \in Texts, NEW mode \in PasteModes, Submit(text, mode)
        PROVE  installed' = installed
               /\ (installed.clipboard => pasteMode'.by = Len(submitted'))
    BY <2>2 DEF Submit, SetPasteMode, TypeInv, TypeOK
  <2>3. (\E text \in Texts, mode \in PasteModes : Submit(text, mode))
        \/ UNCHANGED <<installed, hostVars>>
    BY DEF Next, WorkerStep, TakeCall, BeginPaste, GiveUpClipboard, SendShortcut, KeyStep,
       PressModifier, KeyDown, KeyUp, ReleaseModifier, EndChord, InsertByAtspi,
       AtspiUnavailable, BeginTyping, TypeNext, BeginUnits, SendUnit, GtkStep, RunSet,
       OnOwnerChange, ForeignCopy, MoveFocus, ReadClipboard, vars
  <2> QED
    BY <2>1, <2>2, <2>3
<1>3. call.stage = "clipboard" => pasteMode.by >= call.n
  BY DEF ModeInv, TypeInv, TypeOK, CallInv, Numbers
<1>4. ModeNotOlder'
  BY <1>1, <1>3 DEF CallMoves, ModeInv, ModeNotOlder
<1> QED
  BY <1>2, <1>4 DEF ModeInv

-----------------------------------------------------------------------------
(* What a key does to the application, if no modifier is stuck.            *)

\* While a text is typed, no modifier is down when a character's key goes
\* down: the names the layout places are given are no names of keys.
LEMMA TypingIsPlain ==
  ASSUME TypeInv, HeldInv, ModifiersWork, chord # NoChord, call.stage = "typing",
         chord.step = "press", chord.i > Len(chord.mods)
  PROVE  chord.mods = <<>> /\ \A name \in Modifiers : ~Down(held, name)
<1>1. /\ DOMAIN chord.mods = 1..Len(chord.mods) /\ Len(chord.mods) \in Nat
      /\ chord.mods \in {<<>>, <<"shift">>, <<"altgr">>, <<"shift", "altgr">>}
  BY ChordMods
<1>2. KeycodeForName("shift") = 0 /\ KeycodeForName("altgr") = 0
  BY LayoutAssumption DEF KeycodeForName, KeysymNames, Modifiers
<1>3. \A j \in DOMAIN chord.mods : j < chord.i
  BY <1>1 DEF TypeInv, TypeOK
<1>4. \A j \in DOMAIN chord.mods : KeycodeForName(chord.mods[j]) # 0
  BY <1>3 DEF TypeInv, ChordInv
<1>5. chord.mods = <<>>
  <2>1. SUFFICES ASSUME chord.mods # <<>>
                 PROVE  FALSE
    OBVIOUS
  <2>2. chord.mods[1] \in {"shift", "altgr"} /\ 1 \in DOMAIN chord.mods
    BY <1>1, <2>1
  <2> QED
    BY <1>2, <1>4, <2>2
<1>6. Pressed = {}
  BY <1>1, <1>5 DEF Pressed
<1>7. held \subseteq badKeys
  BY <1>6 DEF HeldInv
<1> QED
  BY <1>5, <1>7 DEF Down, ModifiersWork, KeysOf

\* A shortcut's key types nothing.
LEMMA ShortcutTypesNothing ==
  ASSUME TypeInv, HeldInv, chord # NoChord, call.stage = "shortcut",
         chord.step = "press", chord.i > Len(chord.mods), chord.key # 0,
         Struck(chord.key)
  PROVE  screen' = screen /\ pastes' \in {pastes, Append(pastes, call.n)}
<1> DEFINE s == Shortcut(call.mode)
<1>1. /\ s.key \in {"v", "Insert"} /\ (s.key = "v" => s.mods[1] = "Control_L")
      /\ chord.mods = s.mods /\ chord.key = KeycodeForName(s.key)
  BY ShortcutTypes DEF TypeInv, TypeOK, CallInv, ChordInv
<1>2. /\ DOMAIN chord.mods = 1..Len(chord.mods) /\ Len(chord.mods) \in 0..2
      /\ chord.mods # <<>>
  <2>1. chord.mods \in {<<"Control_L">>, <<"Control_L", "Shift_L">>, <<"Shift_L">>}
    BY ChordMods
  <2>2. Len(chord.mods) # 0
    <3>1. CASE chord.mods = <<"Control_L">>
      BY <3>1
    <3>2. CASE chord.mods = <<"Control_L", "Shift_L">>
      BY <3>2
    <3>3. CASE chord.mods = <<"Shift_L">>
      BY <3>3
    <3> QED
      BY <2>1, <3>1, <3>2, <3>3
  <2>3. Len(chord.mods) # 0 => chord.mods # <<>>
    OBVIOUS
  <2> QED
    BY <2>2, <2>3, ChordMods
<1> HIDE DEF s
<1>3. Down(held, "Control_L") \/ CharTyped(chord.key, held) = 0
  <2>1. CASE s.key = "v"
    <3>1. 1 \in DOMAIN chord.mods
      BY <1>2
    <3>2. 1 \in Pressed
      BY <1>2, <3>1 DEF Pressed, TypeInv, TypeOK
    <3>3. KeycodeForName(chord.mods[1]) \in held
      BY <3>2 DEF HeldInv
    <3> QED
      BY <1>1, <2>1, <3>3 DEF Down
  <2>2. CASE s.key = "Insert"
    <3>1. "Insert" \in DOMAIN KeycodeOf /\ chord.key = KeycodeOf["Insert"]
      BY <1>1, <2>2 DEF KeycodeForName
    <3> QED
      BY <3>1, InsertAssumption DEF CharTyped, Slots
  <2> QED
    BY <1>1, <2>1, <2>2
<1> QED
  BY <1>3 DEF Struck

LEMMA KeyDownEffect ==
  ASSUME TypeInv, HeldInv, ModifiersWork, KeyDown
  PROVE  /\ chord # NoChord /\ chord.step = "press" /\ call.stage \in {"shortcut", "typing"}
         /\ UNCHANGED <<call, results, focus>>
         /\ call.stage = "shortcut" =>
              screen' = screen /\ pastes' \in {pastes, Append(pastes, call.n)}
         /\ call.stage = "typing" => pastes' = pastes
<1>1. /\ chord # NoChord /\ chord.step = "press" /\ call.stage \in {"shortcut", "typing"}
      /\ chord.i > Len(chord.mods) /\ UNCHANGED <<call, results>>
  BY KeyStepChord DEF KeyDown, KeyStep, Stepping, TypeInv, ChordInv
<1>2. CASE UNCHANGED desktopVars
  BY <1>1, <1>2 DEF desktopVars
<1>3. CASE chord.key # 0 /\ Struck(chord.key)
  <2>1. call.stage = "shortcut" =>
          screen' = screen /\ pastes' \in {pastes, Append(pastes, call.n)}
    BY <1>1, <1>3, ShortcutTypesNothing
  <2>2. call.stage = "typing" => pastes' = pastes
    <3>1. call.stage = "typing" =>
            ~Down(held, "Control_L") /\ ~Down(held, "Shift_L")
      BY <1>1, TypingIsPlain DEF Modifiers
    <3> QED
      BY <1>3, <3>1 DEF Struck, IsPasteShortcut
  <2> QED
    BY <1>1, <1>3, <2>1, <2>2 DEF Struck
<1> QED
  BY <1>2, <1>3 DEF KeyDown

\* Who changes the screen and the pastes under way.
LEMMA ScreenMoves ==
  ASSUME [Next]_vars
  PROVE  \/ UNCHANGED <<screen, pastes>>
         \/ KeyDown \/ InsertByAtspi \/ SendUnit \/ ReadClipboard
BY DEF Next, Submit, WorkerStep, TakeCall, BeginPaste, GiveUpClipboard, SendShortcut,
   KeyStep, PressModifier, KeyUp, ReleaseModifier, EndChord, AtspiUnavailable, BeginTyping,
   TypeNext, BeginUnits, GtkStep, RunSet, OnOwnerChange, ForeignCopy, MoveFocus, vars,
   desktopVars

\* A step adds at most one entry to the screen: a paste, by the application,
\* or what the worker typed for its call.
Entry(n, way, w) == [call |-> n, by |-> way, what |-> w]

LEMMA ScreenAdds ==
  ASSUME TypeInv, [Next]_vars
  PROVE  \/ UNCHANGED screen
         \/ /\ ReadClipboard
            /\ screen' = Append(screen, Entry(Head(pastes), "paste", clipboard))
         \/ InsertByAtspi /\ screen' = Append(screen, Entry(call.n, "atspi", 0))
         \/ (KeyDown \/ SendUnit)
            /\ \E w : screen' = Append(screen, Entry(call.n, "keys", w))
<1> USE DEF Entry
<1>1. CASE ReadClipboard
  BY <1>1 DEF ReadClipboard
<1>2. CASE InsertByAtspi
  BY <1>2 DEF InsertByAtspi
<1>3. CASE KeyDown
  BY <1>3 DEF KeyDown, Struck, desktopVars
<1>4. CASE SendUnit
  BY <1>4 DEF SendUnit
<1> QED
  BY <1>1, <1>2, <1>3, <1>4, ScreenMoves

\* What an added entry changes.
LEMMA EntriesAdded ==
  ASSUME TypeInv, NEW m, NEW way, NEW w, screen' = Append(screen, Entry(m, way, w))
  PROVE  /\ Len(screen) \in Nat /\ DOMAIN screen = 1..Len(screen)
         /\ DOMAIN screen' = 1..Len(screen) + 1
         /\ screen'[Len(screen) + 1] = Entry(m, way, w)
         /\ Entry(m, way, w).call = m /\ Entry(m, way, w).by = way
         /\ Entry(m, way, w).what = w
         /\ \A i \in DOMAIN screen : i \in DOMAIN screen' /\ screen'[i] = screen[i]
         /\ \A n, by : Entries(n, by)' = Entries(n, by) \cup
              (IF n = m /\ by = way THEN {Len(screen) + 1} ELSE {})
<1> DEFINE e == Entry(m, way, w)
<1>1. e.call = m /\ e.by = way /\ e.what = w
  BY DEF Entry
<1> HIDE DEF e
<1>2. Len(screen) \in Nat /\ DOMAIN screen = 1..Len(screen)
  BY DEF TypeInv, TypeOK
<1>3. /\ DOMAIN screen' = 1..Len(screen) + 1 /\ screen'[Len(screen) + 1] = e
      /\ \A i \in DOMAIN screen : i \in DOMAIN screen' /\ screen'[i] = screen[i]
  <2>1. screen' = Append(screen, e)
    BY DEF e
  <2> QED
    BY <1>2, <2>1 DEF TypeInv, TypeOK
<1>4. \A n, by : Entries(n, by)' = Entries(n, by) \cup
              (IF n = m /\ by = way THEN {Len(screen) + 1} ELSE {})
  BY <1>1, <1>2, <1>3 DEF Entries
<1> QED
  BY <1>1, <1>2, <1>3, <1>4 DEF e

-----------------------------------------------------------------------------
(* The clipboard, its owner and the shortcuts under way.                   *)

\* No wait for the clipboard has timed out, nobody else has taken it, and the
\* modifiers of the shortcuts work.
Undisturbed == trouble \cap {"late", "foreign"} = {} /\ ModifiersWork

\* What the GTK thread has done of set_text: the callback is queued, it has
\* run, its owner-change has been delivered.  Outside set_text nothing is left.
SetTextInv ==
  /\ clipboard <= Now
  /\ call.stage # "owner" => setQueue = <<>> /\ notices = 0
  /\ call.stage = "owner" =>
       \/ setQueue = <<call.n>> /\ notices = 0 /\ ~ownerChanged
       \/ setQueue = <<>> /\ notices = 1 /\ ~ownerChanged /\ clipboard = call.n
       \/ setQueue = <<>> /\ notices = 0 /\ ownerChanged /\ clipboard = call.n
  /\ call.stage = "shortcut" => clipboard = call.n

\* The shortcuts under way, and the pastes that were made, are of calls no
\* later than the text the clipboard holds, or held.
PastesInv ==
  /\ \A i \in DOMAIN pastes : pastes[i] <= clipboard
  /\ \A i \in DOMAIN screen :
       screen[i].by = "paste" => screen[i].what >= screen[i].call

ClipInv == Undisturbed => SetTextInv /\ PastesInv

LEMMA ClipInit == Init => ClipInv
BY DEF Init, ClipInv, SetTextInv, PastesInv, Now, Idle

LEMMA SetTextStep ==
  ASSUME TypeInv, SetTextInv, [Next]_vars, Undisturbed'
  PROVE  SetTextInv' /\ clipboard <= clipboard'
<1>1. /\ clipboard \in Nat /\ notices \in Nat /\ setQueue \in Seq(Numbers)
      /\ Numbers \subseteq Nat
      /\ call \in [n : Numbers, stage : Stages, mode : AllModes, by : Numbers,
                   typed : Nat]
  BY InjectorAssumption DEF TypeInv, TypeOK, Numbers
<1>2. /\ CallMoves /\ Now \in Nat /\ Now' \in Nat /\ Now <= Now'
      /\ call.stage # "idle" => Now = call.n
      /\ call'.stage # "idle" => Now' = call'.n
  BY CallGoesOn, NowGrows
<1>3. ASSUME UNCHANGED gtkVars, call'.stage \notin {"owner", "shortcut"},
             call.stage # "owner"
      PROVE  SetTextInv' /\ clipboard <= clipboard'
  BY <1>1, <1>2, <1>3 DEF gtkVars, SetTextInv
<1>4. ASSUME UNCHANGED <<gtkVars, call, results>>
      PROVE  SetTextInv' /\ clipboard <= clipboard'
  BY <1>1, <1>4 DEF gtkVars, SetTextInv, Now
<1>5. CASE TakeCall \/ InsertByAtspi \/ AtspiUnavailable \/ BeginTyping \/ TypeNext
           \/ BeginUnits \/ SendUnit
  <2>1. call.stage \in {"idle", "atspi", "x11", "typing", "windows", "units"}
        /\ UNCHANGED gtkVars
    BY <1>5 DEF TakeCall, InsertByAtspi, AtspiUnavailable, BeginTyping, TypeNext,
       BeginUnits, SendUnit, At
  <2>2. call'.stage \notin {"owner", "shortcut"}
    BY <1>2, <2>1 DEF CallMoves
  <2> QED
    BY <1>3, <2>1, <2>2
<1>6. CASE KeyStep
  <2>1. call.stage \in {"shortcut", "typing"} /\ UNCHANGED gtkVars
    BY <1>6, KeyStepChord
       DEF TypeInv, ChordInv, KeyStep, PressModifier, KeyDown, KeyUp, ReleaseModifier,
           EndChord
  <2>2. UNCHANGED <<call, results>> \/ call'.stage \notin {"owner", "shortcut"}
    BY <1>2, <2>1 DEF CallMoves
  <2> QED
    BY <1>3, <1>4, <2>1, <2>2
<1>7. CASE BeginPaste
  <2>1. /\ call.stage = "clipboard" /\ AfterClipboard \in {"atspi", "x11"}
        /\ setQueue = <<>> /\ notices = 0 /\ clipboard <= Now
    BY <1>7, StagesAre DEF BeginPaste, At, SetTextInv
  <2>2. CASE Goto(AfterClipboard) /\ UNCHANGED gtkVars
    <3>1. call'.stage = AfterClipboard
      BY <1>1, <2>2 DEF Goto
    <3> QED
      BY <1>3, <2>1, <2>2, <3>1
  <2>3. CASE /\ call' = [call EXCEPT !.stage = "owner", !.mode = ResolvedMode,
                                     !.by = pasteMode.by]
             /\ OfferText
    <3>1. call'.stage = "owner" /\ call'.n = call.n
      BY <1>1, <2>3
    <3>2. setQueue' = <<call.n>> /\ notices' = 0 /\ ~ownerChanged' /\ clipboard' = clipboard
      BY <2>1, <2>3 DEF OfferText
    <3> QED
      BY <1>1, <1>2, <2>1, <3>1, <3>2 DEF SetTextInv
  <2> QED
    BY <1>7, <2>2, <2>3 DEF BeginPaste
<1>8. CASE SendShortcut
  <2>1. /\ call.stage = "owner" /\ ownerChanged /\ UNCHANGED gtkVars
        /\ call'.stage = "shortcut" /\ call'.n = call.n
    BY <1>1, <1>8 DEF SendShortcut, At, Goto
  <2> QED
    BY <1>1, <1>2, <2>1 DEF SetTextInv, gtkVars
<1>9. CASE RunSet
  <2>1. call.stage = "owner" /\ setQueue = <<call.n>> /\ notices = 0 /\ ~ownerChanged
    BY <1>9 DEF RunSet, SetTextInv
  <2>2. /\ clipboard' = call.n /\ setQueue' = <<>> /\ notices' = 1
        /\ UNCHANGED <<call, results, ownerChanged>>
    BY <1>9, <2>1 DEF RunSet
  <2> QED
    BY <1>1, <1>2, <2>1, <2>2 DEF SetTextInv
<1>10. CASE OnOwnerChange
  <2>1. /\ call.stage = "owner" /\ setQueue = <<>> /\ notices = 1 /\ clipboard = call.n
        /\ ~ownerChanged
    BY <1>1, <1>10 DEF OnOwnerChange, SetTextInv
  <2>2. notices' = 0 /\ ownerChanged' /\ UNCHANGED <<call, results, clipboard, setQueue>>
    BY <1>10, <2>1 DEF OnOwnerChange
  <2> QED
    BY <1>1, <1>2, <2>1, <2>2 DEF SetTextInv
<1>11. CASE GiveUpClipboard \/ ForeignCopy
  BY <1>11 DEF GiveUpClipboard, ForeignCopy, Happens, Undisturbed
<1>12. CASE \/ \E text \in Texts, mode \in PasteModes : Submit(text, mode)
            \/ MoveFocus \/ ReadClipboard \/ UNCHANGED vars
  BY <1>4, <1>12 DEF Submit, MoveFocus, ReadClipboard, vars
<1> QED
  BY <1>5, <1>6, <1>7, <1>8, <1>9, <1>10, <1>11, <1>12 DEF Next, WorkerStep, GtkStep

LEMMA PastesStep ==
  ASSUME TypeInv, HeldInv, ModifiersWork, SetTextInv, PastesInv, [Next]_vars,
         clipboard <= clipboard'
  PROVE  PastesInv'
<1>1. /\ clipboard \in Nat /\ clipboard' \in Nat /\ pastes \in Seq(Numbers)
      /\ Numbers \subseteq Nat
      /\ screen \in Seq([call : Numbers, by : {"paste", "atspi", "keys"}, what : Nat])
  <2>1. TypeInv'
    BY TypeStep
  <2> QED
    BY <2>1, InjectorAssumption DEF TypeInv, TypeOK, Numbers
<1> DEFINE Under(n) == n <= clipboard'
           Fresh(e) == e.by = "paste" => e.what >= e.call
<1>2. \A i \in DOMAIN pastes : Under(pastes[i])
  <2>1. \A i \in DOMAIN pastes : pastes[i] \in Nat
    <3>1. DOMAIN pastes = 1..Len(pastes)
      BY <1>1
    <3> QED
      BY <1>1, <3>1, ElementOfSeq
  <2> QED
    BY <1>1, <2>1 DEF PastesInv
<1>3. \A i \in DOMAIN pastes' : Under(pastes'[i])
  <2>1. CASE pastes' = pastes
    BY <1>2, <2>1
  <2>2. CASE KeyDown
    <3>1. CASE pastes' = Append(pastes, call.n)
      <4>1. call.stage = "shortcut"
        BY <2>2, <3>1, <1>1, KeyDownEffect
      <4>2. Under(call.n)
        BY <1>1, <4>1 DEF SetTextInv
      <4> HIDE DEF Under
      <4> QED
        BY <1>1, <1>2, <3>1, <4>2
    <3> QED
      BY <2>1, <2>2, <3>1, KeyDownEffect
  <2>3. CASE ReadClipboard
    <3>1. pastes # <<>> /\ pastes' = Tail(pastes)
      BY <2>3 DEF ReadClipboard
    <3> HIDE DEF Under
    <3> QED
      BY <1>1, <1>2, <3>1
  <2>4. InsertByAtspi \/ SendUnit => pastes' = pastes
    BY DEF InsertByAtspi, SendUnit
  <2> QED
    BY <2>1, <2>2, <2>3, <2>4, ScreenMoves
<1>4. \A i \in DOMAIN screen : Fresh(screen[i])
  BY DEF PastesInv
<1>5. \A i \in DOMAIN screen' : Fresh(screen'[i])
  <2>1. CASE screen' = screen
    BY <1>4, <2>1
  <2>2. ASSUME NEW m, NEW way, NEW w, screen' = Append(screen, Entry(m, way, w)),
               way = "paste" => w >= m
        PROVE  \A i \in DOMAIN screen' : Fresh(screen'[i])
    <3>1. Fresh(Entry(m, way, w))
      BY <2>2 DEF Entry
    <3>2. /\ Len(screen) \in Nat /\ DOMAIN screen = 1..Len(screen)
          /\ DOMAIN screen' = 1..Len(screen) + 1
          /\ screen'[Len(screen) + 1] = Entry(m, way, w)
          /\ \A i \in DOMAIN screen : screen'[i] = screen[i]
      BY <2>2, EntriesAdded
    <3> HIDE DEF Fresh
    <3> QED
      BY <1>4, <3>1, <3>2
  <2>3. CASE ReadClipboard
    <3>1. /\ screen' = Append(screen, Entry(Head(pastes), "paste", clipboard))
          /\ pastes # <<>>
      BY <2>3 DEF ReadClipboard, Entry
    <3>2. clipboard >= Head(pastes)
      BY <1>1, <3>1 DEF PastesInv, Numbers
    <3> QED
      BY <2>2, <3>1, <3>2
  <2> QED
    BY <2>1, <2>2, <2>3, ScreenAdds
<1> QED
  BY <1>3, <1>5 DEF PastesInv

LEMMA ClipStep == TypeInv /\ HeldInv /\ ClipInv /\ [Next]_vars => ClipInv'
<1> SUFFICES ASSUME TypeInv, HeldInv, ClipInv, [Next]_vars, Undisturbed'
             PROVE  SetTextInv' /\ PastesInv'
  BY DEF ClipInv
<1>1. Undisturbed
  BY FailuresStay DEF Undisturbed
<1>2. SetTextInv /\ PastesInv
  BY <1>1 DEF ClipInv
<1> QED
  BY <1>1, <1>2, SetTextStep, PastesStep DEF Undisturbed

\* A paste never shows an older text than its own call's, and no call pastes
\* with a mode older than its message's, for every number of calls and
\* whatever the other threads do: set_text returns only when the clipboard
\* has the text.
THEOREM PastesAreCurrent == Spec => []PasteIsCurrent
<1>1. ClipInv /\ ModeInv => PasteIsCurrent
  BY DEF ClipInv, PastesInv, Undisturbed, ModeInv, PasteIsCurrent, PasteIsNotStale
<1>2. Spec => []ClipInv
  BY SpecTypes, SpecHeld, ClipInit, ClipStep, PTL DEF Spec
<1>3. Spec => []ModeInv
  BY SpecTypes, ModeInit, ModeStep, PTL DEF Spec
<1> QED
  BY <1>1, <1>2, <1>3, PTL

-----------------------------------------------------------------------------
(* The path a text takes.                                                  *)

NoPastes(n) == Entries(n, "paste") = {} /\ Pending(n) = {}
NotTyped(n) == Entries(n, "atspi") = {} /\ Entries(n, "keys") = {}

\* The shortcut of the call has been sent: an application may have acted.
ShortcutSent == call.stage = "shortcut" /\ chord.step # "press"

\* What the applications received of a text came along one path.
OnePath(n) ==
  /\ NoPastes(n) \/ NotTyped(n)
  /\ Entries(n, "paste") = {} \/ Pending(n) = {}
  /\ AtMostOne(Entries(n, "paste")) /\ AtMostOne(Pending(n))
  /\ AtMostOne(Entries(n, "atspi"))

\* Nothing has been received of a later call.
CallsInv ==
  /\ \A i \in DOMAIN screen : screen[i].call <= Now
  /\ \A i \in DOMAIN pastes : pastes[i] <= Now

\* The call that runs has pasted nothing before its shortcut is sent, and typed
\* nothing before it leaves AT-SPI.
PathInv ==
  ModifiersWork =>
    /\ call.stage # "idle" /\ ~ShortcutSent => NoPastes(call.n)
    /\ call.stage \in {"clipboard", "owner", "shortcut", "atspi"} => NotTyped(call.n)
    /\ \A n \in Nat : OnePath(n)

LEMMA PathInit == Init => CallsInv /\ PathInv
BY DEF Init, CallsInv, PathInv, NoPastes, NotTyped, OnePath, Entries, Pending,
   AtMostOne, Idle

LEMMA DesktopFacts ==
  ASSUME TypeInv
  PROVE  /\ pastes \in Seq(Numbers) /\ call.n \in Nat /\ call.typed \in Nat
         /\ Len(screen) \in Nat /\ DOMAIN screen = 1..Len(screen)
         /\ Len(pastes) \in Nat /\ DOMAIN pastes = 1..Len(pastes)
         /\ \A i \in DOMAIN screen : screen[i].call \in Nat
         /\ \A i \in DOMAIN pastes : pastes[i] \in Nat
<1>0. Numbers \subseteq Nat
  BY InjectorAssumption DEF Numbers
<1>1. pastes \in Seq(Numbers)
  BY DEF TypeInv, TypeOK
<1>2. Len(pastes) \in Nat /\ DOMAIN pastes = 1..Len(pastes)
  BY <1>1
<1>3. \A i \in DOMAIN pastes : pastes[i] \in Nat
  BY <1>0, <1>1, <1>2, ElementOfSeq
<1> DEFINE Shown == [call : Numbers, by : {"paste", "atspi", "keys"}, what : Nat]
<1>4. screen \in Seq(Shown)
  BY DEF TypeInv, TypeOK
<1>5. \A e \in Shown : e.call \in Nat
  BY <1>0
<1> HIDE DEF Shown
<1>6. Len(screen) \in Nat /\ DOMAIN screen = 1..Len(screen)
  BY <1>4
<1>7. \A i \in DOMAIN screen : screen[i] \in Shown
  BY <1>4, <1>6, ElementOfSeq
<1>8. call.n \in Nat /\ call.typed \in Nat
  BY <1>0 DEF TypeInv, TypeOK
<1> QED
  BY <1>1, <1>2, <1>3, <1>5, <1>6, <1>7, <1>8

\* An application acts upon the first shortcut under way.
LEMMA PendingRead ==
  ASSUME TypeInv, pastes # <<>>, pastes' = Tail(pastes)
  PROVE  /\ 1 \in DOMAIN pastes /\ Head(pastes) = pastes[1]
         /\ DOMAIN pastes' = 1..Len(pastes) - 1
         /\ \A i \in DOMAIN pastes' : i + 1 \in DOMAIN pastes /\ pastes'[i] = pastes[i + 1]
         /\ \A n : \A i \in Pending(n)' : i + 1 \in Pending(n)
         /\ \A n : AtMostOne(Pending(n)) =>
              AtMostOne(Pending(n)') /\ (n = Head(pastes) => Pending(n)' = {})
<1>0. pastes \in Seq(Numbers) /\ DOMAIN pastes = 1..Len(pastes)
  BY DesktopFacts
<1>1. /\ 1 \in DOMAIN pastes /\ Head(pastes) = pastes[1]
      /\ DOMAIN pastes' = 1..Len(pastes) - 1
      /\ \A i \in DOMAIN pastes' : i + 1 \in DOMAIN pastes /\ pastes'[i] = pastes[i + 1]
  BY <1>0
<1>2. \A n : \A i \in Pending(n)' : i + 1 \in Pending(n) /\ i \in Nat
  BY <1>0, <1>1 DEF Pending
<1>3. ASSUME NEW n, AtMostOne(Pending(n))
      PROVE  AtMostOne(Pending(n)') /\ (n = Head(pastes) => Pending(n)' = {})
  <2>1. \A i, j \in Pending(n)' : i = j
    <3> SUFFICES ASSUME NEW i \in Pending(n)', NEW j \in Pending(n)'
                 PROVE  i = j
      OBVIOUS
    <3>1. i + 1 = j + 1
      BY <1>2, <1>3 DEF AtMostOne
    <3> QED
      BY <1>2, <3>1
  <2>2. ASSUME n = Head(pastes), NEW i \in Pending(n)'
        PROVE  FALSE
    <3>1. 1 \in Pending(n)
      BY <1>1, <2>2 DEF Pending
    <3>2. i + 1 = 1 /\ i \in Nat
      BY <1>2, <1>3, <3>1 DEF AtMostOne
    <3>3. i >= 1
      BY <1>0, <1>1 DEF Pending
    <3> QED
      BY <3>2, <3>3
  <2> QED
    BY <2>1, <2>2 DEF AtMostOne
<1> QED
  BY <1>1, <1>2, <1>3

LEMMA ShortcutStays ==
  ASSUME TypeInv, [Next]_vars, ShortcutSent
  PROVE  call'.stage = "idle" \/ ShortcutSent'
<1>1. /\ call.stage = "shortcut" /\ chord.step # "press" /\ chord # NoChord
      /\ chord = [mods |-> chord.mods, key |-> chord.key, step |-> chord.step,
                  i |-> chord.i, failed |-> chord.failed]
  BY ChordFields DEF ShortcutSent, TypeInv, CallInv
<1>2. CASE UNCHANGED <<call, chord>>
  BY <1>2 DEF ShortcutSent
<1>3. CASE KeyUp
  <2>1. call' = call /\ chord'.step = "release"
    BY <1>1, <1>3 DEF KeyUp, ReleaseAll
  <2> QED
    BY <1>1, <2>1 DEF ShortcutSent
<1>4. CASE ReleaseModifier
  <2>1. CASE chord' = [chord EXCEPT !.i = @ - 1] /\ UNCHANGED call
    <3>1. chord'.step = chord.step
      BY <1>1, <2>1
    <3> QED
      BY <1>1, <2>1, <3>1 DEF ShortcutSent
  <2>2. CASE Abandon
    BY <2>2 DEF Abandon, Return, Idle
  <2> QED
    BY <1>4, <2>1, <2>2 DEF ReleaseModifier
<1>5. CASE EndChord
  BY <1>1, <1>5 DEF EndChord, Return, Idle
<1>6. ~PressModifier /\ ~KeyDown
  BY <1>1 DEF PressModifier, KeyDown, Stepping
<1> QED
  BY <1>1, <1>2, <1>3, <1>4, <1>5, <1>6
     DEF Next, Submit, WorkerStep, KeyStep, TakeCall, BeginPaste, GiveUpClipboard,
         SendShortcut, InsertByAtspi, AtspiUnavailable, BeginTyping, TypeNext, BeginUnits,
         SendUnit, GtkStep, RunSet, OnOwnerChange, ForeignCopy, MoveFocus, ReadClipboard,
         At, keyVars, vars

\* Once a key went down the shortcut has been sent.
LEMMA KeyDownSends ==
  ASSUME TypeInv, KeyDown, call.stage = "shortcut"
  PROVE  ShortcutSent' /\ ~ShortcutSent
<1>1. /\ chord # NoChord /\ chord.step = "press" /\ call' = call
      /\ chord = [mods |-> chord.mods, key |-> chord.key, step |-> chord.step,
                  i |-> chord.i, failed |-> chord.failed]
  BY KeyStepChord, ChordFields DEF KeyDown, KeyStep, Stepping
<1>2. chord'.step \in {"up", "release"}
  BY <1>1 DEF KeyDown, ReleaseAll
<1> QED
  BY <1>1, <1>2 DEF ShortcutSent

LEMMA CallsStep ==
  ASSUME TypeInv, CallsInv, [Next]_vars
  PROVE  CallsInv'
<1>1. /\ Now \in Nat /\ Now' \in Nat /\ Now <= Now' /\ (call.stage # "idle" => Now = call.n)
      /\ \A i \in DOMAIN screen : screen[i].call <= Now'
      /\ \A i \in DOMAIN pastes : pastes[i] <= Now'
  BY NowGrows, DesktopFacts DEF CallsInv
<1>2. ASSUME NEW m, NEW way, NEW w, screen' = Append(screen, Entry(m, way, w)), m <= Now'
      PROVE  \A i \in DOMAIN screen' : screen'[i].call <= Now'
  BY <1>1, <1>2, EntriesAdded
<1>3. KeyDown \/ InsertByAtspi \/ SendUnit => call.n <= Now'
  <2>1. KeyDown \/ InsertByAtspi \/ SendUnit => call.stage # "idle"
    BY KeyStepChord, ChordFields DEF KeyStep, InsertByAtspi, SendUnit, At
  <2> QED
    BY <1>1, <2>1
<1>4. \A i \in DOMAIN screen' : screen'[i].call <= Now'
  <2>1. CASE ReadClipboard
    <3>1. pastes # <<>> /\ pastes' = Tail(pastes)
      BY <2>1 DEF ReadClipboard
    <3>2. Head(pastes) <= Now'
      BY <1>1, <3>1, PendingRead
    <3> QED
      BY <1>1, <1>2, <2>1, <3>2 DEF ReadClipboard, Entry
  <2> QED
    BY <1>1, <1>2, <1>3, <2>1, ScreenAdds
<1>5. \A i \in DOMAIN pastes' : pastes'[i] <= Now'
  <2>1. CASE pastes' = Append(pastes, call.n) /\ KeyDown
    BY <1>1, <1>3, <2>1, DesktopFacts
  <2>2. CASE ReadClipboard
    <3>1. pastes # <<>> /\ pastes' = Tail(pastes)
      BY <2>2 DEF ReadClipboard
    <3> QED
      BY <1>1, <3>1, PendingRead
  <2>3. KeyDown => pastes' = pastes \/ pastes' = Append(pastes, call.n)
    BY DEF KeyDown, Struck, desktopVars
  <2>4. InsertByAtspi \/ SendUnit => pastes' = pastes
    BY DEF InsertByAtspi, SendUnit
  <2> QED
    BY <1>1, <2>1, <2>2, <2>3, <2>4, ScreenMoves
<1> QED
  BY <1>4, <1>5 DEF CallsInv

\* Nothing has been received of a call that has not begun.
LEMMA LaterIsEmpty ==
  ASSUME TypeInv, CallsInv, NEW n \in Nat, n > Now
  PROVE  NoPastes(n) /\ NotTyped(n)
<1>1. Now \in Nat
  BY DEF TypeInv, TypeOK, CallInv, Now
<1> QED
  BY <1>1, DesktopFacts DEF CallsInv, NoPastes, NotTyped, Entries, Pending

LEMMA PathQuiet ==
  ASSUME TypeInv, CallsInv, PathInv, [Next]_vars, ModifiersWork,
         UNCHANGED <<screen, pastes>>
  PROVE  PathInv'
<1>1. \A n : /\ NoPastes(n)' <=> NoPastes(n)
             /\ NotTyped(n)' <=> NotTyped(n)
             /\ OnePath(n)' <=> OnePath(n)
  BY DEF NoPastes, NotTyped, OnePath, Entries, Pending, AtMostOne
<1>2. /\ CallMoves /\ call.n \in Nat /\ Now \in Nat
      /\ call'.stage # "idle" => call'.n \in Nat
      /\ call.stage = "idle" /\ call'.stage # "idle" => Now < call'.n
  <2>1. TypeInv'
    BY TypeStep
  <2>2. call'.n \in Nat
    BY <2>1, InjectorAssumption DEF TypeInv, TypeOK, Numbers
  <2> QED
    BY <2>2, CallGoesOn, NowGrows, DesktopFacts
<1>3. CASE call.stage = "idle" /\ call'.stage # "idle"
  <2>1. NoPastes(call'.n) /\ NotTyped(call'.n)
    BY <1>2, <1>3, LaterIsEmpty
  <2> QED
    BY <1>1, <2>1 DEF PathInv
<1>4. CASE call'.stage = "idle"
  BY <1>1, <1>4 DEF PathInv
<1>5. CASE call.stage # "idle" /\ call'.stage # "idle"
  <2>1. /\ call'.n = call.n
        /\ call'.stage \in {"clipboard", "owner", "shortcut", "atspi"} =>
             call.stage \in {"clipboard", "owner", "shortcut", "atspi"}
    BY <1>2, <1>5 DEF CallMoves
  <2>2. ~ShortcutSent' => ~ShortcutSent
    BY <1>5, ShortcutStays
  <2> QED
    BY <1>1, <1>5, <2>1, <2>2 DEF PathInv
<1> QED
  BY <1>3, <1>4, <1>5

LEMMA PathKeyDown ==
  ASSUME TypeInv, HeldInv, PathInv, ModifiersWork, KeyDown
  PROVE  PathInv'
<1>1. /\ chord # NoChord /\ call.stage \in {"shortcut", "typing"}
      /\ UNCHANGED <<call, results>> /\ ~ShortcutSent /\ call.n \in Nat
      /\ call.stage = "shortcut" =>
           screen' = screen /\ pastes' \in {pastes, Append(pastes, call.n)}
      /\ call.stage = "typing" => pastes' = pastes
      /\ NoPastes(call.n) /\ \A n \in Nat : OnePath(n)
  BY KeyDownEffect, DesktopFacts DEF PathInv, ShortcutSent
<1>2. CASE call.stage = "shortcut"
  <2>1. ShortcutSent' /\ NotTyped(call.n)
    BY <1>2, <1>1, KeyDownSends DEF PathInv
  <2>2. \A n, by : Entries(n, by)' = Entries(n, by)
    BY <1>1, <1>2 DEF Entries
  <2>3. \A n : n # call.n => Pending(n)' = Pending(n)
    BY <1>1, <1>2, DesktopFacts DEF Pending
  <2>4. Pending(call.n)' \subseteq {Len(pastes) + 1}
    BY <1>1, <1>2, DesktopFacts DEF Pending, NoPastes
  <2>5. \A n \in Nat : OnePath(n)'
    BY <1>1, <2>1, <2>2, <2>3, <2>4 DEF OnePath, NoPastes, NotTyped, AtMostOne
  <2>6. NotTyped(call.n)'
    BY <1>1, <2>1, <2>2 DEF NotTyped
  <2> QED
    BY <1>1, <2>1, <2>5, <2>6 DEF PathInv
<1>3. CASE call.stage = "typing"
  <2>1. \A n : Pending(n)' = Pending(n)
    BY <1>1, <1>3 DEF Pending
  <2>2. \A n, by : n # call.n \/ by # "keys" => Entries(n, by)' = Entries(n, by)
    <3>1. CASE screen' = screen
      BY <3>1 DEF Entries
    <3>2. CASE \E w : screen' = Append(screen, Entry(call.n, "keys", w))
      <4>1. PICK w : screen' = Append(screen, Entry(call.n, "keys", w))
        BY <3>2
      <4>2. \A n, by : Entries(n, by)' = Entries(n, by) \cup
              (IF n = call.n /\ by = "keys" THEN {Len(screen) + 1} ELSE {})
        BY <4>1, EntriesAdded
      <4> QED
        BY <4>2
    <3> QED
      BY <3>1, <3>2 DEF KeyDown, Struck, Entry, desktopVars
  <2>3. \A n \in Nat : OnePath(n)'
    BY <1>1, <2>1, <2>2 DEF OnePath, NoPastes, NotTyped, AtMostOne
  <2>4. NoPastes(call.n)'
    BY <1>1, <2>1, <2>2 DEF NoPastes
  <2> QED
    BY <1>1, <1>3, <2>3, <2>4 DEF PathInv
<1> QED
  BY <1>1, <1>2, <1>3

\* The backends that insert a text or type it by SendInput.
LEMMA PathBackends ==
  ASSUME TypeInv, PathInv, ModifiersWork, InsertByAtspi \/ SendUnit
  PROVE  PathInv'
<1>1. /\ call.stage \in {"atspi", "units"} /\ ~ShortcutSent /\ call.n \in Nat
      /\ NoPastes(call.n) /\ pastes' = pastes /\ \A n \in Nat : OnePath(n)
      /\ call.stage = "atspi" => NotTyped(call.n)
  BY DesktopFacts DEF PathInv, ShortcutSent, InsertByAtspi, SendUnit, At
<1>2. /\ call'.stage \in {"idle", "x11", "units"}
      /\ call'.stage # "idle" => call'.n = call.n
  <2>1. call \in [n : Numbers, stage : Stages, mode : AllModes, by : Numbers, typed : Nat]
    BY DEF TypeInv, TypeOK
  <2> QED
    BY <1>1, <2>1 DEF InsertByAtspi, SendUnit, Return, Goto, Idle, At
<1>3. PICK m \in Nat : m = call.n
  BY <1>1
<1>4. PICK way \in {"atspi", "keys"} : way = "atspi" <=> call.stage = "atspi"
  OBVIOUS
<1>5. \A n : Pending(n)' = Pending(n)
  BY <1>1 DEF Pending
<1>6. /\ \A n, by : n # m \/ by # way => Entries(n, by)' = Entries(n, by)
      /\ way = "atspi" => AtMostOne(Entries(m, "atspi")')
  <2>1. CASE screen' = screen
    <3>1. \A n, by : Entries(n, by)' = Entries(n, by)
      BY <2>1 DEF Entries
    <3> QED
      BY <1>1, <1>3, <1>4, <3>1 DEF NotTyped, AtMostOne
  <2>2. CASE \E w : screen' = Append(screen, Entry(m, way, w))
    <3>1. PICK w : screen' = Append(screen, Entry(m, way, w))
      BY <2>2
    <3>2. \A n, by : Entries(n, by)' = Entries(n, by) \cup
              (IF n = m /\ by = way THEN {Len(screen) + 1} ELSE {})
      BY <3>1, EntriesAdded
    <3>3. way = "atspi" => Entries(m, "atspi")' = {Len(screen) + 1}
      BY <1>1, <1>3, <1>4, <3>2 DEF NotTyped
    <3>4. \A n, by : n # m \/ by # way => Entries(n, by)' = Entries(n, by)
      BY <3>2
    <3> QED
      BY <3>3, <3>4 DEF AtMostOne
  <2>3. InsertByAtspi => screen' = screen \/ \E w : screen' = Append(screen, Entry(m, way, w))
    BY <1>3, <1>4 DEF InsertByAtspi, Entry, At
  <2>4. SendUnit => screen' = screen \/ \E w : screen' = Append(screen, Entry(m, way, w))
    BY <1>3, <1>4 DEF SendUnit, Entry, At
  <2> QED
    BY <2>1, <2>2, <2>3, <2>4
<1>7. NoPastes(m)'
  BY <1>1, <1>3, <1>4, <1>5, <1>6 DEF NoPastes
<1>8. ASSUME NEW n \in Nat
      PROVE  OnePath(n)'
  <2>1. OnePath(n)
    BY <1>1
  <2>2. CASE n = m
    <3>1. AtMostOne(Entries(m, "atspi")')
      BY <1>6, <2>1, <2>2 DEF OnePath
    <3> QED
      BY <1>7, <2>2, <3>1 DEF OnePath, NoPastes, AtMostOne
  <2>3. CASE n # m
    BY <1>5, <1>6, <2>1, <2>3 DEF OnePath, NoPastes, NotTyped, AtMostOne
  <2> QED
    BY <2>2, <2>3
<1> QED
  BY <1>2, <1>3, <1>7, <1>8 DEF PathInv

LEMMA PathRead ==
  ASSUME TypeInv, PathInv, ModifiersWork, ReadClipboard
  PROVE  PathInv'
<1> DEFINE m == Head(pastes)
<1>1. /\ pastes # <<>> /\ pastes' = Tail(pastes) /\ UNCHANGED <<call, chord>>
      /\ screen' = Append(screen, Entry(m, "paste", clipboard))
      /\ m \in Nat /\ 1 \in DOMAIN pastes /\ m = pastes[1]
  BY PendingRead, DesktopFacts DEF ReadClipboard, Entry, keyVars
<1> HIDE DEF m
<1>2. \A n \in Nat : OnePath(n)
  BY DEF PathInv
<1>3. Pending(m) # {}
  BY <1>1 DEF Pending
<1>4. Entries(m, "paste") = {} /\ NotTyped(m)
  BY <1>1, <1>2, <1>3 DEF OnePath, NoPastes
<1>5. \A n, by : Entries(n, by)' = Entries(n, by) \cup
              (IF n = m /\ by = "paste" THEN {Len(screen) + 1} ELSE {})
  BY <1>1, EntriesAdded
<1>6. \A n \in Nat : /\ AtMostOne(Pending(n)') /\ (n = m => Pending(n)' = {})
                     /\ Pending(n) = {} => Pending(n)' = {}
  BY <1>1, <1>2, PendingRead DEF OnePath, m
<1>7. ASSUME NEW n \in Nat
      PROVE  OnePath(n)'
  <2>1. CASE n = m
    BY <1>4, <1>5, <1>6, <2>1 DEF OnePath, NoPastes, NotTyped, AtMostOne
  <2>2. CASE n # m
    <3>1. OnePath(n)
      BY <1>2
    <3> QED
      BY <1>5, <1>6, <2>2, <3>1 DEF OnePath, NoPastes, NotTyped, AtMostOne
  <2> QED
    BY <2>1, <2>2
<1>8. \A n \in Nat : /\ NoPastes(n) => NoPastes(n)'
                     /\ NotTyped(n) => NotTyped(n)'
  BY <1>3, <1>5, <1>6 DEF NoPastes, NotTyped
<1> QED
  BY <1>1, <1>7, <1>8, DesktopFacts DEF PathInv, ShortcutSent

LEMMA PathStep == TypeInv /\ HeldInv /\ CallsInv /\ PathInv /\ [Next]_vars => PathInv'
<1> SUFFICES ASSUME TypeInv, HeldInv, CallsInv, PathInv, [Next]_vars, ModifiersWork'
             PROVE  PathInv'
  BY DEF PathInv
<1>1. ModifiersWork
  BY FailuresStay
<1> QED
  BY <1>1, ScreenMoves, PathQuiet, PathKeyDown, PathBackends, PathRead

LEMMA SpecPaths == Spec => [](CallsInv /\ PathInv)
<1>1. TypeInv /\ CallsInv /\ [Next]_vars => CallsInv'
  BY CallsStep
<1> QED
  BY <1>1, SpecTypes, SpecHeld, PathInit, PathStep, PTL DEF Spec

-----------------------------------------------------------------------------
(* How far the text has been typed.                                        *)

\* No key event has failed, and the user has not moved the focus.
Undamaged == badKeys = {} /\ "focus" \notin trouble

\* The characters of the call's text that were struck.
KeySent == call.stage = "typing" /\ chord.step \in {"up", "release"}
Sent == call.typed + (IF KeySent THEN 1 ELSE 0)

\* What was received of the call that runs is what it sent.
CountInv == call.stage # "idle" => Cardinality(Entries(call.n, "keys")) = Sent

\* What was typed of a text is a beginning of it, or all of it.
PrefixOf(n) ==
  LET typed == Entries(n, "keys")
      text  == submitted[n]
  IN /\ Cardinality(typed) <= Len(text)
     /\ n \in DOMAIN results /\ results[n] = "ok" /\ typed # {} =>
          Cardinality(typed) = Len(text)
     /\ \A i \in typed : \/ screen[i].what = text[Rank(i, typed)]
                         \/ Wide(text[Rank(i, typed)])

TypedInv ==
  Undamaged =>
    /\ focus # NoWindow /\ CountInv
    /\ \A n \in DOMAIN submitted : PrefixOf(n)

LEMMA TypedInit == Init => TypedInv
<1> SUFFICES ASSUME Init
             PROVE  focus # NoWindow /\ CountInv /\ DOMAIN submitted = {}
  BY DEF TypedInv
<1> QED
  BY InjectorAssumption DEF Init, CountInv, Idle

LEMMA EntriesFinite ==
  ASSUME TypeInv, NEW n, NEW by
  PROVE  /\ Entries(n, by) \subseteq 1..Len(screen) /\ Len(screen) \in Nat
         /\ IsFiniteSet(Entries(n, by)) /\ Cardinality(Entries(n, by)) \in Nat
<1>1. Entries(n, by) \subseteq 1..Len(screen) /\ Len(screen) \in Nat
  BY DesktopFacts DEF Entries
<1>2. IsFiniteSet(1..Len(screen))
  BY <1>1, FS_Interval
<1>3. IsFiniteSet(Entries(n, by))
  BY <1>1, <1>2, FS_Subset
<1> QED
  BY <1>1, <1>3, FS_CardinalityType

\* A position behind all others is the last one.
LEMMA RankAdded ==
  ASSUME NEW L \in Nat, NEW S \in SUBSET (1..L), NEW T, T = S \cup {L + 1}
  PROVE  /\ Cardinality(T) = Cardinality(S) + 1
         /\ \A i \in S : Rank(i, T) = Rank(i, S)
         /\ Rank(L + 1, T) = Cardinality(S) + 1
<1>0. \A i \in S : i \in 1..L
  OBVIOUS
<1>1. IsFiniteSet(S) /\ L + 1 \notin S
  <2>1. IsFiniteSet(1..L)
    BY FS_Interval
  <2>2. IsFiniteSet(S)
    BY <2>1, FS_Subset
  <2>3. L + 1 \notin 1..L
    OBVIOUS
  <2> QED
    BY <1>0, <2>2, <2>3
<1>2. Cardinality(S \cup {L + 1}) = Cardinality(S) + 1
  BY <1>1, FS_AddElement
<1>3. ASSUME NEW i \in S
      PROVE  Rank(i, S \cup {L + 1}) = Rank(i, S)
  <2>1. {j \in S \cup {L + 1} : j <= i} = {j \in S : j <= i}
    BY <1>0
  <2> QED
    BY <2>1 DEF Rank
<1>4. {j \in S \cup {L + 1} : j <= L + 1} = S \cup {L + 1}
  <2>1. \A j \in S \cup {L + 1} : j <= L + 1
    BY <1>0
  <2> QED
    BY <2>1
<1>5. Rank(L + 1, S \cup {L + 1}) = Cardinality(S) + 1
  BY <1>2, <1>4 DEF Rank
<1> QED
  BY <1>2, <1>3, <1>5

\* Which calls end well.
LEMMA Successes ==
  ASSUME TypeInv, [Next]_vars
  PROVE  \/ results' = results
         \/ results' = Append(results, "failed")
         \/ /\ results' = Append(results, "ok")
            /\ \/ call.stage \in {"idle", "shortcut", "atspi"}
               \/ /\ call.stage \in {"typing", "units"} /\ ~KeySent
                  /\ call.typed = Len(Text)
<1>1. CASE TakeCall
  BY <1>1 DEF TakeCall, At, Return
<1>2. CASE KeyStep
  BY <1>2 DEF KeyStep, PressModifier, KeyDown, KeyUp, ReleaseModifier, EndChord, Abandon,
     Return
<1>3. CASE InsertByAtspi \/ AtspiUnavailable \/ BeginTyping \/ BeginUnits
  BY <1>3 DEF InsertByAtspi, AtspiUnavailable, BeginTyping, BeginUnits, At, Return, Goto
<1>4. CASE TypeNext \/ SendUnit
  BY <1>4 DEF TypeNext, SendUnit, At, Return, KeySent, NoChord
<1>5. CASE UNCHANGED results
  BY <1>5
<1> QED
  BY <1>1, <1>2, <1>3, <1>4, <1>5
     DEF Next, Submit, WorkerStep, BeginPaste, GiveUpClipboard, SendShortcut, Goto,
         GtkStep, RunSet, OnOwnerChange, ForeignCopy, MoveFocus, ReadClipboard, vars

\* While a call goes on, only a key that goes down and SendInput add to what
\* was sent.
LEMMA SentStays ==
  ASSUME TypeInv, [Next]_vars, call.stage # "idle", call'.stage # "idle",
         ~(KeyDown /\ call.stage = "typing"), ~SendUnit
  PROVE  call'.n = call.n /\ Sent' = Sent
<1>1. /\ CallMoves /\ call.typed \in Nat
      /\ call \in [n : Numbers, stage : Stages, mode : AllModes, by : Numbers, typed : Nat]
  BY CallGoesOn, DesktopFacts DEF TypeInv, TypeOK
<1>2. CASE UNCHANGED <<call, chord>>
  BY <1>2 DEF Sent, KeySent
<1>3. CASE BeginPaste \/ GiveUpClipboard \/ SendShortcut \/ InsertByAtspi
           \/ AtspiUnavailable \/ BeginTyping \/ BeginUnits
  <2>1. call.stage \in {"clipboard", "owner", "atspi", "x11", "windows"}
    BY <1>3 DEF BeginPaste, GiveUpClipboard, SendShortcut, InsertByAtspi, AtspiUnavailable,
       BeginTyping, BeginUnits, At
  <2>2. call'.n = call.n /\ call'.typed = call.typed
    BY <1>1, <2>1 DEF CallMoves
  <2>3. call'.stage = "shortcut" \/ chord' = NoChord
    BY <1>1, <1>3 DEF BeginPaste, GiveUpClipboard, SendShortcut, InsertByAtspi,
       AtspiUnavailable, BeginTyping, BeginUnits, At, Goto, keyVars
  <2> QED
    BY <2>1, <2>2, <2>3 DEF Sent, KeySent, NoChord
<1>4. CASE TypeNext
  BY <1>4 DEF TypeNext, At, Return, Idle, StartChord, Sent, KeySent, NoChord
<1>5. CASE KeyStep
  <2>1. /\ chord # NoChord /\ chord.step \in {"press", "up", "release"}
        /\ chord = [mods |-> chord.mods, key |-> chord.key, step |-> chord.step,
                    i |-> chord.i, failed |-> chord.failed]
    BY <1>5, KeyStepChord, ChordFields
  <2>2. CASE PressModifier
    <3>1. call' = call /\ chord' = [chord EXCEPT !.i = @ + 1] /\ chord.step = "press"
      BY <2>2 DEF PressModifier, Stepping, Abandon, Return, Idle
    <3>2. chord'.step = "press"
      BY <2>1, <3>1
    <3> QED
      BY <3>1, <3>2 DEF Sent, KeySent
  <2>3. CASE KeyDown
    BY <2>3 DEF KeyDown, Sent, KeySent
  <2>4. CASE KeyUp
    <3>1. call' = call /\ chord.step = "up" /\ chord'.step = "release"
      BY <2>1, <2>4 DEF KeyUp, ReleaseAll, Stepping
    <3> QED
      BY <3>1 DEF Sent, KeySent
  <2>5. CASE ReleaseModifier
    <3>1. call' = call /\ chord' = [chord EXCEPT !.i = @ - 1] /\ chord.step = "release"
      BY <2>5 DEF ReleaseModifier, Stepping, Abandon, Return, Idle
    <3>2. chord'.step = "release"
      BY <2>1, <3>1
    <3> QED
      BY <3>1, <3>2 DEF Sent, KeySent
  <2>6. CASE EndChord
    <3>1. /\ call' = [call EXCEPT !.typed = @ + 1] /\ chord.step = "release"
          /\ chord' = NoChord /\ call.stage = "typing"
      BY <2>1, <2>6 DEF EndChord, Stepping, Return, Idle, TypeInv, ChordInv
    <3>2. call'.n = call.n /\ call'.typed = call.typed + 1
      BY <1>1, <3>1
    <3> QED
      BY <1>1, <3>1, <3>2 DEF Sent, KeySent, NoChord
  <2> QED
    BY <1>5, <2>2, <2>3, <2>4, <2>5, <2>6 DEF KeyStep
<1>6. ~TakeCall
  BY DEF TakeCall, At
<1> QED
  BY <1>2, <1>3, <1>4, <1>5, <1>6
     DEF Next, Submit, WorkerStep, GtkStep, RunSet, OnOwnerChange, ForeignCopy, MoveFocus,
         ReadClipboard, keyVars, vars

\* A step that types nothing.
LEMMA KeysSame ==
  ASSUME TypeInv,
         screen' = screen \/ \E m, w : \E way \in {"paste", "atspi"} :
                               screen' = Append(screen, Entry(m, way, w))
  PROVE  \A n : /\ Entries(n, "keys")' = Entries(n, "keys")
                /\ \A i \in Entries(n, "keys") : screen'[i] = screen[i]
<1>1. CASE screen' = screen
  BY <1>1 DEF Entries
<1>2. CASE screen' # screen
  <2>1. PICK m, w : \E way \in {"paste", "atspi"} :
                      screen' = Append(screen, Entry(m, way, w))
    BY <1>2
  <2>2. PICK way \in {"paste", "atspi"} : screen' = Append(screen, Entry(m, way, w))
    BY <2>1
  <2>3. /\ \A i \in DOMAIN screen : screen'[i] = screen[i]
        /\ \A n, by : Entries(n, by)' = Entries(n, by) \cup
             (IF n = m /\ by = way THEN {Len(screen) + 1} ELSE {})
    BY <2>2, EntriesAdded
  <2>4. \A n : Entries(n, "keys")' = Entries(n, "keys")
    BY <2>3
  <2> QED
    BY <2>3, <2>4 DEF Entries
<1> QED
  BY <1>1, <1>2

\* The texts that were submitted stay.
LEMMA SubmittedStays ==
  ASSUME TypeInv, [Next]_vars
  PROVE  /\ Len(submitted) \in Nat /\ DOMAIN submitted = 1..Len(submitted)
         /\ \A n \in DOMAIN submitted : n \in DOMAIN submitted' /\ submitted'[n] = submitted[n]
         /\ \A n \in DOMAIN submitted' : n \in DOMAIN submitted \/ n = Len(submitted) + 1
         /\ \A n \in DOMAIN submitted' : n \in Nat /\ Len(submitted'[n]) \in Nat
<1>1. submitted \in Seq(Texts) /\ Len(submitted) \in Nat /\ DOMAIN submitted = 1..Len(submitted)
  BY DEF TypeInv, TypeOK
<1>2. submitted' = submitted \/ \E text \in Texts : submitted' = Append(submitted, text)
  BY DEF Next, Submit, WorkerStep, TakeCall, BeginPaste, GiveUpClipboard, SendShortcut,
     KeyStep, PressModifier, KeyDown, KeyUp, ReleaseModifier, EndChord, InsertByAtspi,
     AtspiUnavailable, BeginTyping, TypeNext, BeginUnits, SendUnit, GtkStep, RunSet,
     OnOwnerChange, ForeignCopy, MoveFocus, ReadClipboard, vars, hostVars
<1>3. submitted' \in Seq(Texts)
  BY TypeStep DEF TypeInv, TypeOK
<1>4. Len(submitted') \in Nat /\ DOMAIN submitted' = 1..Len(submitted')
  BY <1>3
<1>5. \A n \in DOMAIN submitted' : n \in Nat /\ Len(submitted'[n]) \in Nat
  <2> SUFFICES ASSUME NEW n \in DOMAIN submitted'
               PROVE  n \in Nat /\ Len(submitted'[n]) \in Nat
    OBVIOUS
  <2>1. submitted'[n] \in Texts /\ n \in Nat
    BY <1>3, <1>4, ElementOfSeq
  <2>2. submitted'[n] \in Seq(Nat)
    BY <2>1, InjectorAssumption
  <2> QED
    BY <2>1, <2>2
<1>6. CASE submitted' = submitted
  BY <1>1, <1>5, <1>6
<1>7. ASSUME NEW text \in Texts, submitted' = Append(submitted, text)
      PROVE  /\ \A n \in DOMAIN submitted :
                  n \in DOMAIN submitted' /\ submitted'[n] = submitted[n]
             /\ \A n \in DOMAIN submitted' : n \in DOMAIN submitted \/ n = Len(submitted) + 1
  BY <1>1, <1>7
<1> QED
  BY <1>1, <1>2, <1>5, <1>6, <1>7

LEMMA CountQuiet ==
  ASSUME TypeInv, CallsInv, CountInv, [Next]_vars,
         call.stage # "idle" /\ call'.stage # "idle" => call'.n = call.n /\ Sent' = Sent,
         \A n : Entries(n, "keys")' = Entries(n, "keys")
  PROVE  CountInv'
<1>1. SUFFICES ASSUME call'.stage # "idle"
               PROVE  Cardinality(Entries(call.n, "keys")') = Sent'
  BY DEF CountInv
<1>2. call'.n \in Nat
  BY <1>1, NowGrows
<1>3. PICK m \in Nat : m = call'.n
  BY <1>2
<1>4. CASE call.stage # "idle"
  <2>1. m = call.n /\ Sent' = Sent
    BY <1>1, <1>3, <1>4
  <2>2. Cardinality(Entries(m, "keys")) = Sent
    BY <1>4, <2>1 DEF CountInv
  <2>3. Cardinality(Entries(m, "keys")') = Sent'
    BY <2>1, <2>2
  <2> QED
    BY <1>3, <2>3 DEF Entries
<1>5. CASE call.stage = "idle"
  <2>1. Now < m /\ Now \in Nat
    BY <1>1, <1>3, <1>5, NowGrows
  <2>2. Entries(m, "keys")' = {}
    BY <2>1, LaterIsEmpty DEF NotTyped
  <2>3. call'.typed = 0 /\ call'.stage # "typing"
    BY <1>1, <1>5, CallGoesOn DEF CallMoves
  <2>4. Sent' = 0
    BY <2>3 DEF Sent, KeySent
  <2> QED
    BY <1>3, <2>2, <2>4, FS_EmptySet DEF Entries
<1> QED
  BY <1>4, <1>5

\* A list that grows by one element.
LEMMA Appended ==
  ASSUME NEW S, NEW s \in Seq(S), NEW e \in S
  PROVE  /\ Len(s) \in Nat /\ DOMAIN s = 1..Len(s) /\ DOMAIN Append(s, e) = 1..Len(s) + 1
         /\ Append(s, e)[Len(s) + 1] = e
         /\ \A i \in DOMAIN s : Append(s, e)[i] = s[i]
BY AppendProperties

\* A text nothing is added to.
LEMMA PrefixKept ==
  ASSUME NEW n, PrefixOf(n), submitted'[n] = submitted[n],
         Entries(n, "keys")' = Entries(n, "keys"),
         \A i \in Entries(n, "keys") : screen'[i] = screen[i],
         n \in DOMAIN results' /\ results'[n] = "ok" /\ Entries(n, "keys") # {} =>
           Cardinality(Entries(n, "keys")) = Len(submitted[n])
  PROVE  PrefixOf(n)'
<1> DEFINE K == Entries(n, "keys")
<1>1. /\ Cardinality(K') <= Len(submitted'[n])
      /\ n \in DOMAIN results' /\ results'[n] = "ok" /\ K' # {} =>
           Cardinality(K') = Len(submitted'[n])
  BY DEF PrefixOf
<1>2. \A i \in K' : \/ screen'[i].what = submitted'[n][Rank(i, K')]
                    \/ Wide(submitted'[n][Rank(i, K')])
  BY DEF PrefixOf
<1> QED
  BY <1>1, <1>2 DEF PrefixOf

\* The results of earlier calls stay.
LEMMA ResultsGrow ==
  ASSUME TypeInv,
         results' = results \/ \E r \in {"ok", "failed"} : results' = Append(results, r)
  PROVE  /\ \A n \in DOMAIN results : n \in DOMAIN results' /\ results'[n] = results[n]
         /\ \A n \in DOMAIN results' : n \in DOMAIN results \/ n = Len(results) + 1
         /\ Len(results) \in Nat /\ DOMAIN results = 1..Len(results)
         /\ \A r \in {"ok", "failed"} :
              results' = Append(results, r) => results'[Len(results) + 1] = r
<1>1. /\ results \in Seq({"ok", "failed"}) /\ Len(results) \in Nat
      /\ DOMAIN results = 1..Len(results)
  BY DEF TypeInv, TypeOK
<1>2. CASE results' = results
  <2>1. ASSUME NEW r \in {"ok", "failed"}, results' = Append(results, r)
        PROVE  FALSE
    <3>1. DOMAIN results' = 1..Len(results) + 1
      BY <1>1, <2>1, Appended
    <3> QED
      BY <1>1, <1>2, <3>1
  <2> QED
    BY <1>1, <1>2, <2>1
<1>3. ASSUME NEW r \in {"ok", "failed"}, results' = Append(results, r)
      PROVE  /\ \A n \in DOMAIN results : n \in DOMAIN results' /\ results'[n] = results[n]
             /\ \A n \in DOMAIN results' : n \in DOMAIN results \/ n = Len(results) + 1
             /\ results'[Len(results) + 1] = r
  <2>1. /\ DOMAIN results' = 1..Len(results) + 1 /\ results'[Len(results) + 1] = r
        /\ \A i \in DOMAIN results : results'[i] = results[i]
    <3>1. /\ DOMAIN Append(results, r) = 1..Len(results) + 1
          /\ Append(results, r)[Len(results) + 1] = r
          /\ \A i \in DOMAIN results : Append(results, r)[i] = results[i]
      BY <1>1, Appended
    <3> QED
      BY <1>3, <3>1
  <2>2. \A n \in 1..Len(results) + 1 : n \in 1..Len(results) \/ n = Len(results) + 1
    BY <1>1
  <2>3. \A n \in 1..Len(results) : n \in 1..Len(results) + 1
    BY <1>1
  <2> QED
    BY <1>1, <2>1, <2>2, <2>3
<1> QED
  BY <1>1, <1>2, <1>3

\* A call that has just succeeded.
LEMMA JustSucceeded ==
  ASSUME TypeInv, [Next]_vars, NEW n \in DOMAIN results', results'[n] = "ok",
         ~(n \in DOMAIN results /\ results[n] = "ok")
  PROVE  /\ n = Len(results) + 1
         /\ \/ call.stage \in {"idle", "shortcut", "atspi"}
            \/ /\ call.stage \in {"typing", "units"} /\ ~KeySent
               /\ call.typed = Len(Text)
<1>1. results' = results \/ \E r \in {"ok", "failed"} : results' = Append(results, r)
  BY Successes
<1>2. n = Len(results) + 1 /\ results' # results
  BY <1>1, ResultsGrow
<1>3. results' # Append(results, "failed")
  BY <1>1, <1>2, ResultsGrow
<1> QED
  BY <1>2, <1>3, Successes

\* Of that call the whole text was typed, or nothing.
LEMMA SucceededIsWhole ==
  ASSUME TypeInv, CallsInv, PathInv, ModifiersWork, CountInv, [Next]_vars,
         NEW n \in DOMAIN results', results'[n] = "ok",
         ~(n \in DOMAIN results /\ results[n] = "ok"), Entries(n, "keys") # {}
  PROVE  Cardinality(Entries(n, "keys")) = Len(submitted[n])
<1>1. /\ n = Len(results) + 1 /\ Len(results) \in Nat
      /\ \/ call.stage \in {"idle", "shortcut", "atspi"}
         \/ call.stage \in {"typing", "units"} /\ ~KeySent /\ call.typed = Len(Text)
  BY JustSucceeded DEF TypeInv, TypeOK
<1>2. call.stage # "idle"
  <2>1. call.stage = "idle" => n > Now /\ n \in Nat
    BY <1>1 DEF Now
  <2> QED
    BY <2>1, LaterIsEmpty DEF NotTyped
<1>3. n = call.n
  BY <1>1, <1>2 DEF TypeInv, CallInv
<1>4. call.stage \notin {"shortcut", "atspi"}
  BY <1>3 DEF PathInv, NotTyped
<1>5. call.typed = Len(Text) /\ ~KeySent
  BY <1>1, <1>2, <1>4
<1>6. Cardinality(Entries(n, "keys")) = Sent
  BY <1>2, <1>3 DEF CountInv
<1> QED
  BY <1>3, <1>5, <1>6, DesktopFacts DEF Sent, Text

\* A call that has typed something has been submitted.
LEMMA TypedIsSubmitted ==
  ASSUME TypeInv, CallsInv, [Next]_vars, NEW n \in DOMAIN submitted',
         Entries(n, "keys") # {}
  PROVE  n \in DOMAIN submitted
<1>1. Now \in Nat /\ Len(submitted) \in Nat /\ Now <= Len(submitted)
  BY DEF TypeInv, TypeOK, CallInv, Now
<1>2. n \in Nat /\ (n \in DOMAIN submitted \/ n = Len(submitted) + 1)
  BY SubmittedStays
<1>3. n <= Now
  <2>1. n > Now => Entries(n, "keys") = {}
    BY <1>2, LaterIsEmpty DEF NotTyped
  <2> QED
    BY <1>1, <1>2, <2>1
<1>4. n # Len(submitted) + 1
  BY <1>1, <1>3
<1> QED
  BY <1>2, <1>4

LEMMA PrefixQuiet ==
  ASSUME TypeInv, CallsInv, PathInv, ModifiersWork, CountInv, [Next]_vars,
         NEW n \in DOMAIN submitted', n \in DOMAIN submitted => PrefixOf(n),
         Entries(n, "keys")' = Entries(n, "keys"),
         \A i \in Entries(n, "keys") : screen'[i] = screen[i]
  PROVE  PrefixOf(n)'
<1>1. CASE Entries(n, "keys") = {}
  <2>1. Cardinality({}) = 0
    BY FS_EmptySet
  <2>2. Len(submitted'[n]) \in Nat
    BY SubmittedStays
  <2>3. Entries(n, "keys")' = {}
    BY <1>1
  <2>4. \A K : K = Entries(n, "keys")' =>
          K = {} /\ Cardinality(K) <= Len(submitted'[n])
    BY <2>1, <2>2, <2>3
  <2> QED
    BY <2>3, <2>4 DEF PrefixOf
<1>2. CASE Entries(n, "keys") # {}
  <2>1. n \in DOMAIN submitted
    BY <1>2, TypedIsSubmitted
  <2>2. PrefixOf(n) /\ submitted'[n] = submitted[n]
    BY <2>1, SubmittedStays
  <2>3. n \in DOMAIN results /\ results[n] = "ok" =>
          Cardinality(Entries(n, "keys")) = Len(submitted[n])
    BY <1>2, <2>2 DEF PrefixOf
  <2>4. n \in DOMAIN results' /\ results'[n] = "ok" =>
          Cardinality(Entries(n, "keys")) = Len(submitted[n])
    BY <1>2, <2>3, SucceededIsWhole
  <2> QED
    BY <2>2, <2>4, PrefixKept
<1> QED
  BY <1>1, <1>2

\* An entry is one of its own call only.
LEMMA EntriesExtended ==
  ASSUME TypeInv, NEW m, NEW way, NEW w, screen' = Append(screen, Entry(m, way, w))
  PROVE  /\ Entries(m, way)' = Entries(m, way) \cup {Len(screen) + 1}
         /\ \A n : n # m => Entries(n, way)' = Entries(n, way)
<1>1. \A n, by : Entries(n, by)' = Entries(n, by) \cup
        (IF n = m /\ by = way THEN {Len(screen) + 1} ELSE {})
  BY EntriesAdded
<1>2. Entries(m, way)' = Entries(m, way) \cup {Len(screen) + 1}
  BY <1>1
<1>3. ASSUME NEW n, n # m
      PROVE  Entries(n, way)' = Entries(n, way)
  BY <1>1, <1>3
<1> QED
  BY <1>2, <1>3

\* The new entry is the last one.
LEMMA EntriesRanked ==
  ASSUME TypeInv, NEW m, NEW w, screen' = Append(screen, Entry(m, "keys", w))
  PROVE  /\ Cardinality(Entries(m, "keys")') = Cardinality(Entries(m, "keys")) + 1
         /\ \A i \in Entries(m, "keys") :
              Rank(i, Entries(m, "keys")') = Rank(i, Entries(m, "keys"))
         /\ Rank(Len(screen) + 1, Entries(m, "keys")') = Cardinality(Entries(m, "keys")) + 1
         /\ \A i \in Entries(m, "keys")' : i \in Entries(m, "keys") \/ i = Len(screen) + 1
<1> DEFINE L == Len(screen)
           S == Entries(m, "keys")
           T == Entries(m, "keys")'
<1>1. L \in Nat /\ S \in SUBSET (1..L)
  BY EntriesFinite
<1>2. T = S \cup {L + 1}
  BY EntriesExtended
<1> HIDE DEF L, S, T
<1>3. /\ Cardinality(T) = Cardinality(S) + 1
      /\ \A i \in S : Rank(i, T) = Rank(i, S)
      /\ Rank(L + 1, T) = Cardinality(S) + 1
  <2>1. \A l, s, t : l \in Nat /\ s \in SUBSET (1..l) /\ t = s \cup {l + 1} =>
          /\ Cardinality(t) = Cardinality(s) + 1
          /\ \A i \in s : Rank(i, t) = Rank(i, s)
          /\ Rank(l + 1, t) = Cardinality(s) + 1
    <3> TAKE l, s, t
    <3>1. HAVE l \in Nat /\ s \in SUBSET (1..l) /\ t = s \cup {l + 1}
    <3> QED
      BY ONLY <3>1, RankAdded
  <2>2. L \in Nat /\ S \in SUBSET (1..L) /\ T = S \cup {L + 1} =>
          /\ Cardinality(T) = Cardinality(S) + 1
          /\ \A i \in S : Rank(i, T) = Rank(i, S)
          /\ Rank(L + 1, T) = Cardinality(S) + 1
    BY ONLY <2>1, Zenon
  <2> QED
    BY <1>1, <1>2, <2>2
<1>4. \A i \in T : i \in S \/ i = L + 1
  BY <1>2
<1> QED
  BY <1>3, <1>4 DEF L, S, T

\* A call that goes on, or fails, has no success.
LEMMA NoSuccess ==
  ASSUME TypeInv, results' = results \/ results' = Append(results, "failed")
  PROVE  \A n : n \in DOMAIN results' /\ results'[n] = "ok" =>
                  n \in DOMAIN results /\ results[n] = "ok"
<1>1. results' = Append(results, "failed") => results'[Len(results) + 1] = "failed"
  BY ResultsGrow
<1>2. /\ \A n \in DOMAIN results : results'[n] = results[n]
      /\ \A n \in DOMAIN results' : n \in DOMAIN results \/ n = Len(results) + 1
      /\ Len(results) + 1 \notin DOMAIN results
  BY ResultsGrow
<1> QED
  BY <1>1, <1>2

\* A step that types the next character of the call's text.
LEMMA PrefixAdded ==
  ASSUME TypeInv, call.stage # "idle", call.typed < Len(Text),
         Cardinality(Entries(call.n, "keys")) = call.typed,
         \A n \in DOMAIN submitted : PrefixOf(n), NEW w,
         w = Text[call.typed + 1] \/ Wide(Text[call.typed + 1]),
         screen' = Append(screen, Entry(call.n, "keys", w)),
         UNCHANGED submitted, results' = results \/ results' = Append(results, "failed")
  PROVE  /\ \A n \in DOMAIN submitted' : PrefixOf(n)'
         /\ \A m : m = call.n => Cardinality(Entries(m, "keys")') = call.typed + 1
<1>1. /\ call.n \in DOMAIN submitted /\ Text = submitted[call.n]
      /\ call.typed \in Nat /\ Len(Text) \in Nat
      /\ call.n = Len(results) + 1 /\ Len(results) \in Nat /\ DOMAIN results = 1..Len(results)
  BY TextTypes DEF TypeInv, TypeOK, CallInv
<1>2. \A n : n \in DOMAIN results' /\ results'[n] = "ok" =>
                  n \in DOMAIN results /\ results[n] = "ok"
  BY NoSuccess
<1>3. /\ screen'[Len(screen) + 1].what = w
      /\ \A i \in DOMAIN screen : screen'[i] = screen[i]
  BY EntriesAdded
<1>4. \A n : \A i \in Entries(n, "keys") : screen'[i] = screen[i]
  BY <1>3 DEF Entries
<1>5. ASSUME NEW m, m = call.n
      PROVE  /\ Cardinality(Entries(m, "keys")') = call.typed + 1
             /\ PrefixOf(m)'
  <2>1. PrefixOf(m) /\ submitted[m] = Text /\ submitted'[m] = Text
    BY <1>1, <1>5
  <2>2. \A i \in Entries(m, "keys") : \/ screen[i].what = Text[Rank(i, Entries(m, "keys"))]
                                      \/ Wide(Text[Rank(i, Entries(m, "keys"))])
    BY <2>1 DEF PrefixOf
  <2>3. /\ Cardinality(Entries(m, "keys")') = call.typed + 1
        /\ Cardinality(Entries(m, "keys")') <= Len(Text)
        /\ \A i \in Entries(m, "keys")' :
             \/ screen'[i].what = Text[Rank(i, Entries(m, "keys")')]
             \/ Wide(Text[Rank(i, Entries(m, "keys")')])
    <3> DEFINE L == Len(screen)
               S == Entries(m, "keys")
               T == Entries(m, "keys")'
    <3>1. /\ Cardinality(T) = Cardinality(S) + 1
          /\ \A i \in S : Rank(i, T) = Rank(i, S)
          /\ Rank(L + 1, T) = Cardinality(S) + 1
          /\ \A i \in T : i \in S \/ i = L + 1
      BY <1>5, EntriesRanked
    <3>2. /\ Len(Text) \in Nat /\ call.typed \in Nat /\ call.typed < Len(Text)
          /\ Cardinality(S) = call.typed
      BY <1>1, <1>5
    <3>3. screen'[L + 1].what = Text[call.typed + 1] \/ Wide(Text[call.typed + 1])
      BY <1>3
    <3>4. \A i \in S : screen'[i] = screen[i]
      BY <1>4
    <3>5. \A i \in S : screen[i].what = Text[Rank(i, S)] \/ Wide(Text[Rank(i, S)])
      BY <2>2
    <3> HIDE DEF L, S, T
    <3>6. Cardinality(T) = call.typed + 1 /\ Cardinality(T) <= Len(Text)
      BY <3>1, <3>2
    <3>7. ASSUME NEW i \in S
          PROVE  screen'[i].what = Text[Rank(i, T)] \/ Wide(Text[Rank(i, T)])
      <4>1. Rank(i, T) = Rank(i, S) /\ screen'[i] = screen[i]
        BY <3>1, <3>4
      <4>2. screen[i].what = Text[Rank(i, S)] \/ Wide(Text[Rank(i, S)])
        BY <3>5
      <4> QED
        BY <4>1, <4>2
    <3>8. Rank(L + 1, T) = call.typed + 1
      BY <3>1, <3>2
    <3>9. \A i \in T : screen'[i].what = Text[Rank(i, T)] \/ Wide(Text[Rank(i, T)])
      BY <3>1, <3>3, <3>7, <3>8
    <3> QED
      BY <3>6, <3>9 DEF T
  <2>4. ~(m \in DOMAIN results' /\ results'[m] = "ok")
    BY <1>1, <1>2, <1>5
  <2>5. PrefixOf(m)'
    BY <2>1, <2>3, <2>4 DEF PrefixOf
  <2> QED
    BY <2>3, <2>5
<1>6. ASSUME NEW n \in DOMAIN submitted', n # call.n
      PROVE  PrefixOf(n)'
  <2>1. Entries(n, "keys")' = Entries(n, "keys")
    BY <1>6, EntriesExtended
  <2>2. n \in DOMAIN submitted /\ submitted' = submitted /\ PrefixOf(n)
    OBVIOUS
  <2>3. n \in DOMAIN results' /\ results'[n] = "ok" /\ Entries(n, "keys") # {} =>
          Cardinality(Entries(n, "keys")) = Len(submitted[n])
    BY <1>2, <2>2 DEF PrefixOf
  <2>4. \A i \in Entries(n, "keys") : screen'[i] = screen[i]
    BY <1>4
  <2> QED
    BY <2>1, <2>2, <2>3, <2>4, PrefixKept
<1> QED
  BY <1>5, <1>6

\* The key of a character, pressed alone, types it.
LEMMA TypedChar ==
  ASSUME TypeInv, HeldInv, KeyDown, call.stage = "typing", badKeys' = {}, badKeys = {},
         focus # NoWindow
  PROVE  /\ screen' = Append(screen, Entry(call.n, "keys", Text[call.typed + 1]))
         /\ chord'.step = "up" /\ chord.step = "press"
         /\ call.typed < Len(Text) /\ UNCHANGED <<call, results, submitted>>
<1> DEFINE char == Text[call.typed + 1]
           p == LayoutPlace(char)
<1>1. /\ chord # NoChord /\ chord.step = "press" /\ chord.i > Len(chord.mods)
      /\ UNCHANGED <<call, results, submitted>>
      /\ chord = [mods |-> chord.mods, key |-> chord.key, step |-> chord.step,
                  i |-> chord.i, failed |-> chord.failed]
  BY KeyStepChord, ChordFields DEF KeyDown, KeyStep, Stepping, hostVars
<1>2. ModifiersWork
  BY DEF ModifiersWork
<1>3. chord.mods = <<>> /\ \A name \in Modifiers : ~Down(held, name)
  BY <1>1, <1>2, TypingIsPlain
<1>4. /\ call.typed < Len(Text) /\ OnLayout(char)
      /\ chord.mods = p.mods /\ chord.key = p.key
  BY <1>1 DEF TypeInv, ChordInv, PlaceOf
<1> HIDE DEF char
<1>5. p \in Places(char)
  BY <1>4, LayoutPlaceIsPlace
<1>6. chord.key # 0 /\ KeysymToChar(Layout[chord.key][0]) = char /\ char # 0
  <2>1. p.key \in Nat \ {0} /\ KeysymToChar(Layout[p.key][p.slot]) = char
        /\ (p.mods = <<>> => p.slot = 0)
    BY <1>5, PlaceTypes
  <2> QED
    BY <1>3, <1>4, <2>1 DEF OnLayout
<1>7. chord' = [chord EXCEPT !.step = "up"] /\ Struck(chord.key)
  <2>1. ~KeyFails(chord.key)
    BY <1>6 DEF KeyFails
  <2> QED
    BY <2>1 DEF KeyDown
<1>8. CharTyped(chord.key, held) = char /\ ~Down(held, "Control_L")
  BY <1>3, <1>6 DEF CharTyped, Modifiers
<1>9. screen' = Append(screen, Entry(call.n, "keys", char))
  BY <1>6, <1>7, <1>8 DEF Struck, Entry
<1>10. chord'.step = "up"
  BY <1>1, <1>7
<1> QED
  BY <1>1, <1>4, <1>9, <1>10 DEF char

\* The down event of SendInput.
LEMMA TypedUnit ==
  ASSUME TypeInv, SendUnit, focus # NoWindow, screen' # screen
  PROVE  /\ \E w : /\ screen' = Append(screen, Entry(call.n, "keys", w))
                   /\ w = Text[call.typed + 1] \/ Wide(Text[call.typed + 1])
         /\ call.stage = "units" /\ call.typed < Len(Text)
         /\ UNCHANGED submitted
         /\ \/ results' = results /\ call' = [call EXCEPT !.typed = @ + 1]
            \/ results' = Append(results, "failed") /\ call' = Idle
<1>1. /\ call.stage = "units" /\ call.typed # Len(Text) /\ UNCHANGED submitted
      /\ screen' = Append(screen, Entry(call.n, "keys", CodeUnit(Text[call.typed + 1])))
      /\ \/ results' = results /\ call' = [call EXCEPT !.typed = @ + 1]
         \/ results' = Append(results, "failed") /\ call' = Idle
  BY DEF SendUnit, At, Return, Entry, hostVars
<1>2. call.typed \in Nat /\ Len(Text) \in Nat /\ call.typed <= Len(Text) /\ Text \in Seq(Nat)
  BY <1>1, TextTypes DEF TypeInv, CallInv
<1>3. call.typed < Len(Text)
  BY <1>1, <1>2
<1>4. Text[call.typed + 1] \in Nat
  BY <1>2, <1>3, ElementOfSeq
<1>5. CodeUnit(Text[call.typed + 1]) = Text[call.typed + 1] \/ Wide(Text[call.typed + 1])
  BY <1>4 DEF CodeUnit, Wide
<1> QED
  BY <1>1, <1>3, <1>5

LEMMA TypedStep ==
  TypeInv /\ HeldInv /\ CallsInv /\ PathInv /\ TypedInv /\ [Next]_vars => TypedInv'
<1> SUFFICES ASSUME TypeInv, HeldInv, CallsInv, PathInv, TypedInv, [Next]_vars, Undamaged'
             PROVE  /\ focus' # NoWindow /\ CountInv'
                    /\ \A n \in DOMAIN submitted' : PrefixOf(n)'
  BY DEF TypedInv
<1>1. Undamaged /\ badKeys = {} /\ badKeys' = {} /\ ModifiersWork
  BY FailuresStay DEF Undamaged, ModifiersWork
<1>2. focus # NoWindow /\ CountInv /\ \A n \in DOMAIN submitted : PrefixOf(n)
  BY <1>1 DEF TypedInv
<1>3. focus' # NoWindow
  <2>1. ~MoveFocus
    BY DEF MoveFocus, Happens, Undamaged
  <2>2. focus' = focus
    BY <2>1 DEF Next, Submit, WorkerStep, TakeCall, BeginPaste, GiveUpClipboard,
       SendShortcut, KeyStep, PressModifier, KeyDown, KeyUp, ReleaseModifier, EndChord,
       InsertByAtspi, AtspiUnavailable, BeginTyping, TypeNext, BeginUnits, SendUnit,
       GtkStep, RunSet, OnOwnerChange, ForeignCopy, ReadClipboard, Struck, vars,
       desktopVars
  <2> QED
    BY <1>2, <2>2
<1>4. call.typed \in Nat
      /\ call \in [n : Numbers, stage : Stages, mode : AllModes, by : Numbers, typed : Nat]
  BY DesktopFacts DEF TypeInv, TypeOK
<1>5. CASE KeyDown /\ call.stage = "typing"
  <2>1. /\ screen' = Append(screen, Entry(call.n, "keys", Text[call.typed + 1]))
        /\ chord'.step = "up" /\ chord.step = "press"
        /\ call.typed < Len(Text) /\ UNCHANGED <<call, results, submitted>>
    BY <1>1, <1>2, <1>5, TypedChar
  <2>2. Cardinality(Entries(call.n, "keys")) = call.typed
    BY <1>2, <1>4, <1>5, <2>1 DEF CountInv, Sent, KeySent
  <2>3. /\ \A n \in DOMAIN submitted' : PrefixOf(n)'
        /\ \A m : m = call.n => Cardinality(Entries(m, "keys")') = call.typed + 1
    BY <1>2, <1>5, <2>1, <2>2, PrefixAdded
  <2>4. CountInv'
    <3>1. PICK m : m = call.n
      OBVIOUS
    <3>2. Cardinality(Entries(m, "keys")') = call.typed + 1 /\ m = call'.n
      BY <2>1, <2>3, <3>1
    <3>3. Sent' = call.typed + 1
      BY <1>5, <2>1 DEF Sent, KeySent
    <3> QED
      BY <3>2, <3>3 DEF CountInv
  <2> QED
    BY <1>3, <2>3, <2>4
<1>6. CASE SendUnit /\ screen' # screen
  <2>1. PICK w : /\ screen' = Append(screen, Entry(call.n, "keys", w))
                 /\ w = Text[call.typed + 1] \/ Wide(Text[call.typed + 1])
    BY <1>2, <1>6, TypedUnit
  <2>2. /\ call.stage = "units" /\ call.typed < Len(Text) /\ UNCHANGED submitted
        /\ \/ results' = results /\ call' = [call EXCEPT !.typed = @ + 1]
           \/ results' = Append(results, "failed") /\ call' = Idle
    BY <1>2, <1>6, TypedUnit
  <2>3. Cardinality(Entries(call.n, "keys")) = call.typed
    BY <1>2, <1>4, <2>2 DEF CountInv, Sent, KeySent
  <2>4. /\ \A n \in DOMAIN submitted' : PrefixOf(n)'
        /\ \A m : m = call.n => Cardinality(Entries(m, "keys")') = call.typed + 1
    BY <1>2, <2>1, <2>2, <2>3, PrefixAdded
  <2>5. CountInv'
    <3>1. CASE call' = Idle
      BY <3>1 DEF CountInv, Idle
    <3>2. CASE call' = [call EXCEPT !.typed = @ + 1]
      <4>1. PICK m : m = call.n
        OBVIOUS
      <4>2. call'.n = m /\ call'.typed = call.typed + 1 /\ call'.stage = "units"
        BY <1>4, <2>2, <3>2, <4>1
      <4>3. Cardinality(Entries(m, "keys")') = call.typed + 1
        BY <2>4, <4>1
      <4>4. Sent' = call.typed + 1
        BY <1>4, <4>2 DEF Sent, KeySent
      <4> QED
        BY <4>2, <4>3, <4>4 DEF CountInv
    <3> QED
      BY <2>2, <3>1, <3>2
  <2> QED
    BY <1>3, <2>4, <2>5
<1>7. CASE ~(KeyDown /\ call.stage = "typing") /\ ~(SendUnit /\ screen' # screen)
  <2>1. screen' = screen \/ \E m, w : \E way \in {"paste", "atspi"} :
                              screen' = Append(screen, Entry(m, way, w))
    <3>1. KeyDown => screen' = screen
      BY <1>1, <1>7, KeyDownEffect
    <3> QED
      BY <1>7, <3>1, ScreenAdds
  <2>2. call.stage # "idle" /\ call'.stage # "idle" => call'.n = call.n /\ Sent' = Sent
    <3>1. SendUnit => call'.stage = "idle"
      <4>1. SUFFICES ASSUME SendUnit, call'.stage # "idle"
                     PROVE  FALSE
        OBVIOUS
      <4>2. \E w : screen' = Append(screen, Entry(call.n, "keys", w))
        <5>1. call'.stage # "idle" => ~Return("ok") /\ ~Return("failed")
          BY DEF Return, Idle
        <5> QED
          BY <1>2, <4>1, <5>1 DEF SendUnit, Entry
      <4>3. PICK w : screen' = Append(screen, Entry(call.n, "keys", w))
        BY <4>2
      <4>4. DOMAIN screen' = 1..Len(screen) + 1 /\ DOMAIN screen = 1..Len(screen)
        BY <4>3, EntriesAdded
      <4>5. Len(screen) + 1 \in DOMAIN screen' /\ Len(screen) + 1 \notin DOMAIN screen
        BY <4>4, DesktopFacts
      <4> QED
        BY <1>7, <4>1, <4>5
    <3> QED
      BY <1>7, <3>1, SentStays
  <2>3. \A n : /\ Entries(n, "keys")' = Entries(n, "keys")
               /\ \A i \in Entries(n, "keys") : screen'[i] = screen[i]
    BY <2>1, KeysSame
  <2>4. CountInv'
    BY <1>2, <2>2, <2>3, CountQuiet
  <2>5. \A n \in DOMAIN submitted' : PrefixOf(n)'
    BY <1>1, <1>2, <2>3, PrefixQuiet
  <2> QED
    BY <1>3, <2>4, <2>5
<1> QED
  BY <1>5, <1>6, <1>7

\* Of one call an application receives text along one path only, along the
\* clipboard or AT-SPI at most once, and key by key a beginning of the text,
\* all of it if the call succeeds: for every text, layout, number of calls and
\* trouble, where no event of a modifier failed, or no key event and no focus
\* was lost.
THEOREM TextsAreTypedOnce == Spec => []TypedOnce
<1>1. PathInv /\ TypeInv => OnePathPerCall
  <2> SUFFICES ASSUME PathInv, TypeInv, ModifiersWork, NEW n \in DOMAIN submitted
               PROVE  OnePath(n)
    BY DEF OnePathPerCall, OnePath, NoPastes, NotTyped
  <2>1. n \in Nat
    BY DEF TypeInv, TypeOK
  <2> QED
    BY <2>1 DEF PathInv
<1>2. TypedInv => TypedIsPrefix
  BY DEF TypedInv, Undamaged, PrefixOf, TypedIsPrefix
<1>3. Spec => []TypedInv
  BY SpecTypes, SpecHeld, SpecPaths, TypedInit, TypedStep, PTL DEF Spec
<1> QED
  BY <1>1, <1>2, <1>3, SpecTypes, SpecPaths, PTL DEF TypedOnce

-----------------------------------------------------------------------------
(* The lineage of an accessible.                                           *)

\* The nodes from the desktop on, in the order they are visited: what holds of
\* a node if it holds of its parent holds of all.
LEMMA TreeInduction ==
  ASSUME NEW t, IsTree(t), NEW P,
         \A x \in Nodes : (t.parent[x] # 0 => t.parent[x] \in P) => x \in P
  PROVE  Nodes \subseteq P
<1> SUFFICES ASSUME ~(Nodes \subseteq P)
             PROVE  FALSE
  OBVIOUS
<1> DEFINE T == {x \in Nodes : x \notin P}
<1>1. T \in SUBSET Nat /\ T # {} /\ T \subseteq Nodes
  <2>1. \A x \in Nodes : x \in Nat
    BY NodesAssumption, FS_CardinalityType
  <2> QED
    BY <2>1
<1>2. PICK m \in T : \A n \in T : m <= n
  BY <1>1, LeastNat
<1>3. m \in Nodes /\ m \in Nat /\ t.parent[m] \in Nodes \cup {0} /\ t.parent[m] < m
  BY <1>1, <1>2 DEF IsTree
<1>4. t.parent[m] # 0 => t.parent[m] \in P
  BY <1>1, <1>2, <1>3
<1> QED
  BY <1>2, <1>3, <1>4

Up(t, f, x) == IF t.parent[x] = 0 THEN <<x>> ELSE <<x>> \o f[t.parent[x]]

\* The recursive definition of the lineages has a solution.
LEMMA UpExists ==
  ASSUME NEW t, IsTree(t)
  PROVE  \E f : f = [x \in Nodes |-> Up(t, f, x)]
<1> DEFINE N == Cardinality(Nodes)
           Solved(n) == \E f : f = [x \in 1..n |-> Up(t, f, x)]
           T == {n \in Nat : n <= N /\ ~Solved(n)}
<1>1. N \in Nat /\ Nodes = 1..N
  BY NodesAssumption, FS_CardinalityType
<1> HIDE DEF N
<1>2. Solved(0)
  <2>1. 1..0 = {}
    OBVIOUS
  <2> DEFINE e == [x \in 1..0 |-> 0]
  <2>2. e = [x \in 1..0 |-> Up(t, e, x)]
    BY <2>1
  <2> QED
    BY <2>2
<1>3. ASSUME NEW n \in Nat, n < N, Solved(n)
      PROVE  Solved(n + 1)
  <2>1. PICK f : f = [x \in 1..n |-> Up(t, f, x)]
    BY <1>3
  <2> DEFINE g == [x \in 1..n + 1 |-> Up(t, f, x)]
  <2>2. \A x \in 1..n : g[x] = f[x]
    BY <2>1
  <2>3. \A x \in 1..n + 1 : t.parent[x] # 0 => t.parent[x] \in 1..n
    <3> SUFFICES ASSUME NEW x \in 1..n + 1, t.parent[x] # 0
                 PROVE  t.parent[x] \in 1..n
      OBVIOUS
    <3>1. x \in Nodes
      BY <1>1, <1>3
    <3>2. t.parent[x] \in 1..N /\ t.parent[x] < x
      BY <1>1, <3>1 DEF IsTree
    <3> QED
      BY <1>1, <3>2
  <2>4. \A x \in 1..n + 1 : Up(t, f, x) = Up(t, g, x)
    BY <2>2, <2>3 DEF Up
  <2>5. g = [x \in 1..n + 1 |-> Up(t, g, x)]
    BY <2>4
  <2> QED
    BY <2>5
<1> HIDE DEF Solved
<1>4. T = {}
  <2> SUFFICES ASSUME T # {}
               PROVE  FALSE
    OBVIOUS
  <2>1. PICK m \in T : \A n \in T : m <= n
    BY LeastNat
  <2>2. m \in Nat /\ m <= N /\ ~Solved(m)
    BY <2>1
  <2>3. m # 0
    BY <1>2, <2>2
  <2>4. m - 1 \in Nat /\ m - 1 < N /\ m - 1 <= N /\ (m - 1) + 1 = m
    BY <1>1, <2>2, <2>3
  <2>5. Solved(m - 1)
    BY <2>1, <2>4
  <2>6. Solved((m - 1) + 1)
    BY <1>3, <2>4, <2>5
  <2> QED
    BY <2>2, <2>4, <2>6
<1>5. Solved(N)
  BY <1>1, <1>4
<1> QED
  BY <1>1, <1>5 DEF Solved

\* A lineage begins with the node and goes on as its parent's.
LEMMA LineageUp ==
  ASSUME NEW t, IsTree(t), NEW x \in Nodes
  PROVE  /\ t.parent[x] = 0 => Lineage(t, x) = <<x>>
         /\ t.parent[x] # 0 => Lineage(t, x) = <<x>> \o Lineage(t, t.parent[x])
<1> DEFINE up[y \in Nodes] ==
             IF t.parent[y] = 0 THEN <<y>> ELSE <<y>> \o up[t.parent[y]]
<1>1. up = [y \in Nodes |-> IF t.parent[y] = 0 THEN <<y>> ELSE <<y>> \o up[t.parent[y]]]
  BY UpExists DEF Up
<1>2. \A y : Lineage(t, y) = up[y]
  BY DEF Lineage
<1> QED
  BY <1>1, <1>2

LEMMA LineageTypes ==
  ASSUME NEW t, IsTree(t), NEW x \in Nodes
  PROVE  /\ Lineage(t, x) \in Seq(Nodes) /\ Len(Lineage(t, x)) \in Nat
         /\ Len(Lineage(t, x)) >= 1 /\ Lineage(t, x)[1] = x
<1> DEFINE P == {y \in Nodes : Lineage(t, y) \in Seq(Nodes)}
<1>1. \A y \in Nodes : (t.parent[y] # 0 => t.parent[y] \in P) => y \in P
  <2> SUFFICES ASSUME NEW y \in Nodes, t.parent[y] # 0 => t.parent[y] \in P
               PROVE  Lineage(t, y) \in Seq(Nodes)
    OBVIOUS
  <2>1. <<y>> \in Seq(Nodes)
    OBVIOUS
  <2>2. CASE t.parent[y] = 0
    BY <2>1, <2>2, LineageUp
  <2>3. CASE t.parent[y] # 0
    <3>1. Lineage(t, t.parent[y]) \in Seq(Nodes)
      BY <2>3
    <3> QED
      BY <2>1, <2>3, <3>1, LineageUp, ConcatProperties
  <2> QED
    BY <2>2, <2>3
<1>2. \A y \in Nodes : Lineage(t, y) \in Seq(Nodes)
  BY <1>1, TreeInduction
<1>3. CASE t.parent[x] = 0
  <2> DEFINE l == Lineage(t, x)
  <2>1. l = <<x>>
    BY <1>3, LineageUp
  <2>2. l \in Seq(Nodes)
    BY <1>2
  <2> HIDE DEF l
  <2>3. Len(l) \in Nat /\ Len(l) >= 1 /\ l[1] = x
    BY <2>1
  <2> QED
    BY <2>2, <2>3, Zenon DEF l
<1>4. CASE t.parent[x] # 0
  <2> DEFINE p == t.parent[x]
             l == Lineage(t, p)
             m == Lineage(t, x)
  <2>1. p \in Nodes
    BY <1>4 DEF IsTree
  <2>2. l \in Seq(Nodes)
    BY <1>2, <2>1
  <2>3. m = <<x>> \o l
    BY <1>4, LineageUp
  <2> HIDE DEF l, m
  <2>4. <<x>> \in Seq(Nodes) /\ Len(<<x>>) = 1 /\ Len(l) \in Nat /\ <<x>>[1] = x
    BY <2>2, LenProperties
  <2>5. Len(<<x>> \o l) = 1 + Len(l) /\ (<<x>> \o l)[1] = x
    BY <2>2, <2>4, ConcatProperties
  <2>6. Len(m) \in Nat /\ Len(m) >= 1 /\ m[1] = x
    BY <2>3, <2>4, <2>5
  <2> QED
    BY <1>2, <2>6 DEF m
<1> QED
  BY <1>3, <1>4

LEMMA AncestorsUp ==
  ASSUME NEW t, IsTree(t), NEW x \in Nodes
  PROVE  /\ t.parent[x] = 0 => Ancestors(t, x) = {x} /\ Depth(t, x) = 0
         /\ t.parent[x] # 0 =>
              /\ t.parent[x] \in Nodes
              /\ Ancestors(t, x) = {x} \cup Ancestors(t, t.parent[x])
              /\ Depth(t, x) = Depth(t, t.parent[x]) + 1
              /\ \A i \in DOMAIN Lineage(t, t.parent[x]) :
                   /\ i + 1 \in DOMAIN Lineage(t, x)
                   /\ Lineage(t, x)[i + 1] = Lineage(t, t.parent[x])[i]
              /\ \A i \in DOMAIN Lineage(t, x) \ {1} :
                   /\ i - 1 \in DOMAIN Lineage(t, t.parent[x])
                   /\ Lineage(t, x)[i] = Lineage(t, t.parent[x])[i - 1]
<1>1. CASE t.parent[x] = 0
  <2>1. Lineage(t, x) = <<x>>
    BY <1>1, LineageUp
  <2>2. Ancestors(t, x) = {<<x>>[i] : i \in DOMAIN <<x>>} /\ Depth(t, x) = Len(<<x>>) - 1
    BY <2>1 DEF Ancestors, Depth
  <2>3. {<<x>>[i] : i \in DOMAIN <<x>>} = {x} /\ Len(<<x>>) - 1 = 0
    OBVIOUS
  <2> QED
    BY <1>1, <2>2, <2>3
<1>2. CASE t.parent[x] # 0
  <2> DEFINE p == t.parent[x]
             l == Lineage(t, p)
             m == Lineage(t, x)
  <2>1. p \in Nodes
    BY <1>2 DEF IsTree
  <2>2. l \in Seq(Nodes) /\ Len(l) \in Nat
    BY <2>1, LineageTypes
  <2>3. m = <<x>> \o l
    BY <1>2, LineageUp
  <2> HIDE DEF l, m, p
  <2>4. /\ Len(m) = 1 + Len(l) /\ DOMAIN m = 1..1 + Len(l) /\ DOMAIN l = 1..Len(l)
        /\ m[1] = x /\ \A i \in 1..1 + Len(l) : i # 1 => m[i] = l[i - 1]
    <3>1. <<x>> \in Seq(Nodes) /\ Len(<<x>>) = 1 /\ <<x>>[1] = x
      OBVIOUS
    <3>2. <<x>> \o l \in Seq(Nodes)
      BY <2>2, <3>1, ConcatProperties
    <3>3. /\ Len(<<x>> \o l) = 1 + Len(l)
          /\ \A i \in 1..1 + Len(l) :
               (<<x>> \o l)[i] = IF i <= 1 THEN <<x>>[i] ELSE l[i - 1]
      BY <2>2, <3>1, ConcatProperties
    <3> HIDE DEF l
    <3> QED
      BY <2>2, <2>3, <3>1, <3>2, <3>3, LenProperties
  <2>5. \A i \in DOMAIN l : i + 1 \in DOMAIN m /\ m[i + 1] = l[i]
    BY <2>2, <2>4
  <2>6. \A i \in DOMAIN m \ {1} : i - 1 \in DOMAIN l /\ m[i] = l[i - 1]
    BY <2>2, <2>4
  <2>7. {m[i] : i \in DOMAIN m} = {x} \cup {l[i] : i \in DOMAIN l}
    <3>1. 1 \in DOMAIN m
      BY <2>2, <2>4
    <3> QED
      BY <2>4, <2>5, <2>6, <3>1
  <2>8. Ancestors(t, x) = {x} \cup Ancestors(t, p)
    BY <2>7 DEF Ancestors, l, m
  <2>9. Depth(t, x) = Depth(t, p) + 1
    BY <2>2, <2>4 DEF Depth, l, m
  <2> QED
    BY <1>2, <2>1, <2>5, <2>6, <2>8, <2>9 DEF l, m, p
<1> QED
  BY <1>1, <1>2

-----------------------------------------------------------------------------
(* The window of an accessible.                                            *)

\* How deep an accessible is, and what is above it.
LEMMA DepthTypes ==
  ASSUME NEW t, IsTree(t), NEW x \in Nodes
  PROVE  /\ Depth(t, x) \in Nat /\ Depth(t, x) < x
         /\ Depth(t, x) = 0 <=> t.parent[x] = 0
         /\ x \in Ancestors(t, x) /\ Ancestors(t, x) \subseteq Nodes
<1> DEFINE P == {y \in Nodes : Depth(t, y) < y}
<1>1. \A y \in Nodes : Depth(t, y) \in Nat /\ y \in Nat \ {0}
  <2>1. \A y \in Nodes : Len(Lineage(t, y)) \in Nat /\ Len(Lineage(t, y)) >= 1
    BY LineageTypes
  <2>2. \A y \in Nodes : y \in Nat \ {0}
    BY NodesAssumption, FS_CardinalityType
  <2> QED
    BY <2>1, <2>2 DEF Depth
<1>2. \A y \in Nodes : (t.parent[y] # 0 => t.parent[y] \in P) => y \in P
  <2> SUFFICES ASSUME NEW y \in Nodes, t.parent[y] # 0 => t.parent[y] \in P
               PROVE  Depth(t, y) < y
    OBVIOUS
  <2>1. CASE t.parent[y] = 0
    BY <1>1, <2>1, AncestorsUp
  <2>2. CASE t.parent[y] # 0
    <3>1. Depth(t, y) = Depth(t, t.parent[y]) + 1 /\ t.parent[y] \in Nodes
      BY <2>2, AncestorsUp
    <3>2. Depth(t, t.parent[y]) < t.parent[y] /\ t.parent[y] < y
      BY <2>2 DEF IsTree
    <3> QED
      BY <1>1, <3>1, <3>2
  <2> QED
    BY <2>1, <2>2
<1>3. Depth(t, x) < x
  BY <1>2, TreeInduction
<1>4. Depth(t, x) = 0 <=> t.parent[x] = 0
  <2>1. t.parent[x] # 0 => Depth(t, x) = Depth(t, t.parent[x]) + 1 /\ t.parent[x] \in Nodes
    BY AncestorsUp
  <2>2. t.parent[x] = 0 => Depth(t, x) = 0
    BY AncestorsUp
  <2> QED
    BY <1>1, <2>1, <2>2
<1>5. x \in Ancestors(t, x)
  BY AncestorsUp
<1>6. Ancestors(t, x) \subseteq Nodes
  <2> DEFINE l == Lineage(t, x)
  <2>1. l \in Seq(Nodes)
    BY LineageTypes
  <2>2. \A i \in DOMAIN l : l[i] \in Nodes
    BY <2>1, ElementOfSeq
  <2> QED
    BY <2>2 DEF Ancestors
<1> QED
  BY <1>1, <1>3, <1>4, <1>5, <1>6

\* The window of an accessible is that of its parent, unless it is one itself.
LEMMA WindowUp ==
  ASSUME NEW t, IsTree(t), NEW x \in Nodes
  PROVE  /\ Depth(t, x) = 0 => WindowOf(t, x) = {} /\ Ancestors(t, x) = {x}
         /\ Depth(t, x) = 1 => WindowOf(t, x) = {x}
         /\ Depth(t, x) > 1 => WindowOf(t, x) = WindowOf(t, t.parent[x])
<1>1. Depth(t, x) \in Nat
  BY DepthTypes
<1>2. ASSUME NEW y \in Nodes, Depth(t, y) = 0
      PROVE  WindowOf(t, y) = {} /\ Ancestors(t, y) = {y}
  <2>1. Ancestors(t, y) = {y}
    BY <1>2, AncestorsUp, DepthTypes
  <2> QED
    BY <1>2, <2>1 DEF WindowOf
<1>3. CASE Depth(t, x) >= 1
  <2>1. t.parent[x] # 0
    BY <1>3, DepthTypes
  <2>2. /\ t.parent[x] \in Nodes /\ Ancestors(t, x) = {x} \cup Ancestors(t, t.parent[x])
        /\ Depth(t, x) = Depth(t, t.parent[x]) + 1
    BY <2>1, AncestorsUp
  <2>3. WindowOf(t, x) = {y \in {x} : Depth(t, y) = 1} \cup WindowOf(t, t.parent[x])
    BY <2>2 DEF WindowOf
  <2>4. Depth(t, t.parent[x]) \in Nat
    BY <2>2, DepthTypes
  <2>5. CASE Depth(t, x) = 1
    BY <1>2, <2>2, <2>3, <2>4, <2>5
  <2>6. CASE Depth(t, x) > 1
    BY <2>3, <2>6
  <2> QED
    BY <1>1, <1>3, <2>5, <2>6
<1> QED
  BY <1>1, <1>2, <1>3

\* What is above an accessible, except the desktop, is in the same window.
LEMMA SameWindow ==
  ASSUME NEW t, IsTree(t), NEW x \in Nodes, NEW y \in Ancestors(t, x), Depth(t, y) >= 1
  PROVE  WindowOf(t, y) = WindowOf(t, x)
<1> DEFINE P == {z \in Nodes : \A a \in Ancestors(t, z) :
                   Depth(t, a) >= 1 => WindowOf(t, a) = WindowOf(t, z)}
<1>1. \A z \in Nodes : (t.parent[z] # 0 => t.parent[z] \in P) => z \in P
  <2> SUFFICES ASSUME NEW z \in Nodes, t.parent[z] # 0 => t.parent[z] \in P,
                      NEW a \in Ancestors(t, z), Depth(t, a) >= 1, a # z
               PROVE  WindowOf(t, a) = WindowOf(t, z)
    OBVIOUS
  <2>1. t.parent[z] # 0 /\ a \in Ancestors(t, t.parent[z])
    BY AncestorsUp
  <2>2. t.parent[z] \in Nodes /\ Depth(t, z) = Depth(t, t.parent[z]) + 1
    BY <2>1, AncestorsUp
  <2>3. WindowOf(t, a) = WindowOf(t, t.parent[z])
    BY <2>1
  <2>4. Depth(t, t.parent[z]) \in Nat
    BY <2>2, DepthTypes
  <2>5. Depth(t, t.parent[z]) # 0
    <3>1. Depth(t, t.parent[z]) = 0 => Ancestors(t, t.parent[z]) = {t.parent[z]}
      BY <2>2, WindowUp
    <3> QED
      BY <2>1, <3>1
  <2>6. Depth(t, z) > 1
    BY <2>2, <2>4, <2>5
  <2> QED
    BY <2>3, <2>6, WindowUp
<1> QED
  BY <1>1, TreeInduction

\* Below the desktop an accessible has one window, which is above it.
LEMMA OneWindow ==
  ASSUME NEW t, IsTree(t), NEW x \in Nodes, Depth(t, x) >= 1
  PROVE  \E w \in Ancestors(t, x) : WindowOf(t, x) = {w} /\ Depth(t, w) = 1
<1> DEFINE P == {z \in Nodes : Depth(t, z) >= 1 =>
                   \E w \in Nodes : WindowOf(t, z) = {w}}
<1>1. \A z \in Nodes : (t.parent[z] # 0 => t.parent[z] \in P) => z \in P
  <2> SUFFICES ASSUME NEW z \in Nodes, t.parent[z] # 0 => t.parent[z] \in P,
                      Depth(t, z) >= 1
               PROVE  \E w \in Nodes : WindowOf(t, z) = {w}
    OBVIOUS
  <2>1. Depth(t, z) \in Nat
    BY DepthTypes
  <2>2. CASE Depth(t, z) = 1
    BY <2>2, WindowUp
  <2>3. CASE Depth(t, z) > 1
    <3>1. t.parent[z] # 0
      BY <2>3, DepthTypes
    <3>2. t.parent[z] \in Nodes /\ Depth(t, z) = Depth(t, t.parent[z]) + 1
      BY <3>1, AncestorsUp
    <3>3. Depth(t, t.parent[z]) \in Nat
      BY <3>2, DepthTypes
    <3>4. \E w \in Nodes : WindowOf(t, t.parent[z]) = {w}
      BY <2>3, <3>1, <3>2, <3>3
    <3> QED
      BY <2>3, <3>4, WindowUp
  <2> QED
    BY <2>1, <2>2, <2>3
<1>2. PICK w \in Nodes : WindowOf(t, x) = {w}
  BY <1>1, TreeInduction
<1> QED
  BY <1>2 DEF WindowOf

\* The further up the lineage, the nearer to the desktop.
LEMMA LineageDepth ==
  ASSUME NEW t, IsTree(t), NEW x \in Nodes, NEW i \in DOMAIN Lineage(t, x)
  PROVE  Depth(t, Lineage(t, x)[i]) = Depth(t, x) + 1 - i
<1> DEFINE P == {z \in Nodes : \A j \in DOMAIN Lineage(t, z) :
                   Depth(t, Lineage(t, z)[j]) = Depth(t, z) + 1 - j}
<1>1. \A z \in Nodes : (t.parent[z] # 0 => t.parent[z] \in P) => z \in P
  <2> SUFFICES ASSUME NEW z \in Nodes, t.parent[z] # 0 => t.parent[z] \in P,
                      NEW j \in DOMAIN Lineage(t, z)
               PROVE  Depth(t, Lineage(t, z)[j]) = Depth(t, z) + 1 - j
    OBVIOUS
  <2>1. Depth(t, z) \in Nat /\ Lineage(t, z)[1] = z
    BY DepthTypes, LineageTypes
  <2>2. j \in Nat
    <3>1. Lineage(t, z) \in Seq(Nodes) /\ Len(Lineage(t, z)) \in Nat
      BY LineageTypes
    <3>2. DOMAIN Lineage(t, z) = 1..Len(Lineage(t, z))
      BY <3>1, LenProperties
    <3> QED
      BY <3>1, <3>2
  <2>3. CASE j = 1
    BY <2>1, <2>3
  <2>4. CASE j # 1
    <3>1. t.parent[z] # 0
      <4>1. t.parent[z] = 0 => Lineage(t, z) = <<z>>
        BY LineageUp
      <4>2. DOMAIN <<z>> = {1}
        OBVIOUS
      <4> QED
        BY <2>4, <4>1, <4>2
    <3>2. /\ t.parent[z] \in Nodes /\ Depth(t, z) = Depth(t, t.parent[z]) + 1
          /\ j - 1 \in DOMAIN Lineage(t, t.parent[z])
          /\ Lineage(t, z)[j] = Lineage(t, t.parent[z])[j - 1]
      BY <2>4, <3>1, AncestorsUp
    <3>3. Depth(t, Lineage(t, z)[j]) = Depth(t, t.parent[z]) + 1 - (j - 1)
      BY <3>1, <3>2
    <3>4. Depth(t, t.parent[z]) \in Nat
      BY <3>2, DepthTypes
    <3> QED
      BY <2>2, <3>2, <3>3, <3>4
  <2> QED
    BY <2>3, <2>4
<1> QED
  BY <1>1, TreeInduction

-----------------------------------------------------------------------------
(* The choice of an accessible.                                            *)

\* A function that is bounded below has a least value.
LEMMA LeastBy ==
  ASSUME NEW S, S # {}, NEW f, \A x \in S : f[x] \in Int,
         NEW B \in Nat, \A x \in S : f[x] + B >= 0
  PROVE  \E m \in S : \A y \in S : f[m] <= f[y]
<1> DEFINE T == {f[x] + B : x \in S}
<1>1. T \in SUBSET Nat /\ T # {}
  OBVIOUS
<1>2. PICK v \in T : \A w \in T : v <= w
  BY <1>1, LeastNat
<1>3. PICK m \in S : v = f[m] + B
  BY <1>2
<1>4. ASSUME NEW y \in S
      PROVE  f[m] <= f[y]
  <2>1. f[y] + B \in T
    OBVIOUS
  <2>2. f[m] + B <= f[y] + B
    BY <1>2, <1>3, <2>1
  <2> QED
    BY <2>2
<1> QED
  BY <1>4

Leasts(S, f) == {x \in S : \A y \in S : f[x] <= f[y]}

\* Of a set of accessibles one comes first in the order of keys that end with
\* the number.
LEMMA LeastKey ==
  ASSUME NEW S \in SUBSET Nodes, S # {}, NEW a, NEW b, NEW c, NEW d, NEW B \in Nat,
         \A x \in Nodes : /\ a[x] \in Int /\ b[x] \in Int /\ c[x] \in Int /\ d[x] \in Int
                          /\ a[x] + B >= 0 /\ b[x] + B >= 0
                          /\ c[x] + B >= 0 /\ d[x] + B >= 0
  PROVE  \E m \in S : \A y \in S \ {m} :
           Less(<<a[m], b[m], c[m], d[m], m>>, <<a[y], b[y], c[y], d[y], y>>)
<1> DEFINE S1 == Leasts(S, a)
           S2 == Leasts(S1, b)
           S3 == Leasts(S2, c)
           S4 == Leasts(S3, d)
<1>1. S1 # {} /\ S1 \subseteq S
  BY LeastBy DEF Leasts
<1>2. S2 # {} /\ S2 \subseteq S1
  <2> HIDE DEF S1
  <2> QED
    BY <1>1, LeastBy DEF Leasts
<1>3. S3 # {} /\ S3 \subseteq S2
  <2> HIDE DEF S1, S2
  <2> QED
    BY <1>1, <1>2, LeastBy DEF Leasts
<1>4. S4 # {} /\ S4 \subseteq S3
  <2> HIDE DEF S1, S2, S3
  <2> QED
    BY <1>1, <1>2, <1>3, LeastBy DEF Leasts
<1>5. \A x \in Nodes : x \in Nat
  BY NodesAssumption, FS_CardinalityType
<1>6. S4 \in SUBSET Nat
  BY <1>1, <1>2, <1>3, <1>4, <1>5
<1>7. PICK m \in S4 : \A y \in S4 : m <= y
  BY <1>4, <1>6, LeastNat
<1>8. m \in S3 /\ m \in S2 /\ m \in S1 /\ m \in S
  BY <1>1, <1>2, <1>3, <1>4
<1>9. ASSUME NEW y \in S \ {m}
      PROVE  Less(<<a[m], b[m], c[m], d[m], m>>, <<a[y], b[y], c[y], d[y], y>>)
  <2>1. /\ a[m] <= a[y]
        /\ a[m] = a[y] => y \in S1
    BY <1>8 DEF Leasts
  <2>2. y \in S1 => /\ b[m] <= b[y]
                    /\ b[m] = b[y] => y \in S2
    BY <1>8 DEF Leasts
  <2>3. y \in S2 => /\ c[m] <= c[y]
                    /\ c[m] = c[y] => y \in S3
    BY <1>8 DEF Leasts
  <2>4. y \in S3 => /\ d[m] <= d[y]
                    /\ d[m] = d[y] => y \in S4
    BY <1>8 DEF Leasts
  <2>5. y \in S4 => m < y
    BY <1>5, <1>7, <1>8
  <2>6. y \in Nodes /\ m \in Nodes
    BY <1>8
  <2> HIDE DEF S1, S2, S3, S4
  <2>7. \/ a[m] < a[y]
        \/ a[m] = a[y] /\ b[m] < b[y]
        \/ a[m] = a[y] /\ b[m] = b[y] /\ c[m] < c[y]
        \/ a[m] = a[y] /\ b[m] = b[y] /\ c[m] = c[y] /\ d[m] < d[y]
        \/ a[m] = a[y] /\ b[m] = b[y] /\ c[m] = c[y] /\ d[m] = d[y] /\ m < y
    BY <2>1, <2>2, <2>3, <2>4, <2>5, <2>6
  <2> QED
    BY <1>5, <2>6, <2>7 DEF Less
<1> QED
  BY <1>8, <1>9

\* The focused accessible that is chosen, and the best text below an accessible.
LEMMA Chosen ==
  ASSUME NEW t, IsTree(t)
  PROVE  /\ Anchor(t) # 0 => Anchor(t) \in Nodes
         /\ \A node \in Nodes :
              LET texts == {x \in Nodes \ {node} : t.text[x] /\ node \in Ancestors(t, x)}
              IN /\ texts = {} => Below(t, node) = 0
                 /\ texts # {} => Below(t, node) \in texts
<1> DEFINE N == Cardinality(Nodes)
           deep == [x \in Nodes |-> -Depth(t, x)]
           focused == [x \in Nodes |-> No(t.focused[x])]
           editable == [x \in Nodes |-> No(t.editable[x])]
           role == [x \in Nodes |-> No(t.role[x] \in EditableRoles)]
<1>1. N \in Nat /\ Nodes = 1..N
  BY NodesAssumption, FS_CardinalityType
<1>2. \A x \in Nodes : /\ deep[x] \in Int /\ deep[x] + N >= 0
                       /\ focused[x] \in Int /\ focused[x] + N >= 0
                       /\ editable[x] \in Int /\ editable[x] + N >= 0
                       /\ role[x] \in Int /\ role[x] + N >= 0
  <2>1. \A x \in Nodes : Depth(t, x) \in Nat /\ Depth(t, x) < x
    BY DepthTypes
  <2>2. \A flag : No(flag) \in Int /\ No(flag) >= 0
    BY DEF No
  <2> QED
    BY <1>1, <2>1, <2>2
<1>3. \A x \in Nodes : t.role[x] \in Int /\ t.role[x] + N >= 0
  BY <1>1 DEF IsTree
<1> HIDE DEF N
<1>4. ASSUME Anchor(t) # 0
      PROVE  Anchor(t) \in Nodes
  <2> DEFINE S == {x \in Nodes : t.focused[x]}
  <2>1. S # {}
    BY <1>4 DEF Anchor
  <2>2. \E m \in S : \A y \in S \ {m} :
          Less(<<editable[m], role[m], deep[m], t.role[m], m>>,
               <<editable[y], role[y], deep[y], t.role[y], y>>)
    <3>1. S \in SUBSET Nodes
      OBVIOUS
    <3> HIDE DEF S, editable, role, deep
    <3> QED
      BY <1>1, <1>2, <1>3, <2>1, <3>1, LeastKey
  <2>3. \E m \in S : \A y \in S \ {m} : Less(AnchorKey(t, m), AnchorKey(t, y))
    BY <2>2 DEF AnchorKey
  <2>4. (CHOOSE x \in S : \A y \in S \ {x} : Less(AnchorKey(t, x), AnchorKey(t, y))) \in S
    BY <2>3
  <2> QED
    BY <2>1, <2>4 DEF Anchor
<1>5. ASSUME NEW node \in Nodes, NEW S,
             S = {x \in Nodes \ {node} : t.text[x] /\ node \in Ancestors(t, x)}
      PROVE  /\ S = {} => Below(t, node) = 0
             /\ S # {} => Below(t, node) \in S
  <2>1. CASE S = {}
    BY <1>5, <2>1 DEF Below
  <2>2. CASE S # {}
    <3>1. \E m \in S : \A y \in S \ {m} :
            Less(<<focused[m], editable[m], role[m], t.role[m], m>>,
                 <<focused[y], editable[y], role[y], t.role[y], y>>)
      <4>1. S \in SUBSET Nodes
        BY <1>5
      <4> HIDE DEF editable, role, focused
      <4> QED
        BY <1>1, <1>2, <1>3, <2>2, <4>1, LeastKey
    <3>2. \A x \in S : x \in Nodes
      BY <1>5
    <3>3. \E m \in S : \A y \in S \ {m} : Less(CandidateKey(t, m), CandidateKey(t, y))
      BY <3>1, <3>2 DEF CandidateKey
    <3>4. (CHOOSE x \in S : \A y \in S \ {x} :
             Less(CandidateKey(t, x), CandidateKey(t, y))) \in S
      BY <3>3
    <3>5. Below(t, node) = CHOOSE x \in S : \A y \in S \ {x} :
                             Less(CandidateKey(t, x), CandidateKey(t, y))
      BY <1>5, <2>2 DEF Below
    <3> QED
      BY <2>2, <3>4, <3>5
  <2> QED
    BY <2>1, <2>2
<1> QED
  BY <1>4, <1>5

\* The text goes to the focused window if that one has an editable text.
LEMMA NoTreeStrays ==
  ASSUME NEW t, IsTree(t)
  PROVE  ~Strays(t)
<1> SUFFICES ASSUME Target(t) # 0, WindowOf(t, Anchor(t)) # {},
                    NEW x \in Nodes, t.text[x],
                    WindowOf(t, x) = WindowOf(t, Anchor(t))
             PROVE  WindowOf(t, Target(t)) = WindowOf(t, Anchor(t))
  BY DEF Strays
<1> DEFINE a == Anchor(t)
           line == Lineage(t, a)
           First(S) == CHOOSE i \in S : \A j \in S : i <= j
           direct == {i \in DOMAIN line : t.text[line[i]]}
           below == {i \in DOMAIN line : Below(t, line[i]) # 0}
<1>1. a # 0 /\ a \in Nodes
  <2>1. a # 0
    <3> SUFFICES ASSUME a = 0
                 PROVE  FALSE
      OBVIOUS
    <3>1. Target(t) = 0
      BY DEF Target
    <3> QED
      BY <3>1
  <2> QED
    BY <2>1, Chosen
<1>2. Target(t) = CASE direct # {} -> line[First(direct)]
                    [] direct = {} /\ below # {} -> Below(t, line[First(below)])
                    [] OTHER -> 0
  BY <1>1 DEF Target
<1>3. line \in Seq(Nodes) /\ Len(line) \in Nat /\ DOMAIN line = 1..Len(line)
  BY <1>1, LineageTypes, LenProperties
<1>4. \A i \in DOMAIN line : line[i] \in Nodes /\ line[i] \in Ancestors(t, a)
  BY <1>3, ElementOfSeq DEF Ancestors
<1>5. \A S \in SUBSET (DOMAIN line) : S # {} =>
        First(S) \in S /\ \A j \in S : First(S) <= j
  <2> SUFFICES ASSUME NEW S \in SUBSET (DOMAIN line), S # {}
               PROVE  First(S) \in S /\ \A j \in S : First(S) <= j
    OBVIOUS
  <2>1. S \in SUBSET Nat
    BY <1>3
  <2>2. \E i \in S : \A j \in S : i <= j
    BY <2>1, LeastNat
  <2> QED
    BY <2>2
<1>6. \A y \in Nodes : Depth(t, y) \in Nat /\ (t.text[y] => Depth(t, y) >= 1)
  BY DepthTypes DEF IsTree
<1>7. Depth(t, a) >= 1
  BY <1>1, <1>6, WindowUp
<1>8. PICK w \in Ancestors(t, a) : WindowOf(t, a) = {w} /\ Depth(t, w) = 1
  BY <1>1, <1>7, OneWindow
<1> HIDE DEF First
<1>9. CASE direct # {}
  <2> DEFINE i == First(direct)
  <2>1. i \in DOMAIN line /\ t.text[line[i]]
    BY <1>5, <1>9
  <2> HIDE DEF i
  <2>2. line[i] \in Nodes /\ line[i] \in Ancestors(t, a) /\ Depth(t, line[i]) >= 1
    BY <1>4, <1>6, <2>1
  <2>3. WindowOf(t, line[i]) = WindowOf(t, a)
    BY <1>1, <2>2, SameWindow
  <2>4. Target(t) = line[i]
    BY <1>2, <1>9 DEF i
  <2> QED
    BY <2>3, <2>4
<1>10. CASE direct = {}
  <2>1. PICK k \in DOMAIN line : line[k] = w
    BY <1>8 DEF Ancestors
  <2>2. w \in Nodes /\ w \in Ancestors(t, x) /\ x # w
    <3>1. w \in WindowOf(t, x)
      BY <1>8
    <3>2. w \in Ancestors(t, x)
      BY <3>1 DEF WindowOf
    <3>3. ~t.text[w]
      BY <1>10, <2>1
    <3> QED
      BY <1>4, <2>1, <3>2, <3>3
  <2>3. Below(t, w) # 0
    <3>1. x \in {y \in Nodes \ {w} : t.text[y] /\ w \in Ancestors(t, y)}
      BY <2>2
    <3>2. Below(t, w) \in Nodes
      BY <2>2, <3>1, Chosen
    <3> QED
      BY <3>2, NodesAssumption, FS_CardinalityType
  <2>4. k \in below
    BY <2>1, <2>3
  <2> DEFINE i == First(below)
  <2>5. i \in DOMAIN line /\ Below(t, line[i]) # 0 /\ i <= k
    BY <1>5, <2>4
  <2>6. Target(t) = Below(t, line[i])
    BY <1>2, <1>10, <2>4
  <2> HIDE DEF i
  <2> DEFINE node == line[i]
             y == Below(t, node)
  <2>7. node \in Nodes /\ node \in Ancestors(t, a)
    BY <1>4, <2>5
  <2>8. Depth(t, node) >= 1
    <3>1. Depth(t, node) = Depth(t, a) + 1 - i /\ Depth(t, w) = Depth(t, a) + 1 - k
      BY <1>1, <2>1, <2>5, LineageDepth
    <3> QED
      BY <1>1, <1>3, <1>6, <1>8, <2>1, <2>5, <3>1
  <2>9. WindowOf(t, node) = WindowOf(t, a)
    BY <1>1, <2>7, <2>8, SameWindow
  <2>10. y \in Nodes /\ node \in Ancestors(t, y)
    BY <2>5, <2>7, Chosen
  <2>11. WindowOf(t, node) = WindowOf(t, y)
    BY <2>8, <2>10, SameWindow
  <2> QED
    BY <2>6, <2>9, <2>11
<1> QED
  BY <1>9, <1>10

LEMMA NoAimStrays == \A aim \in Aims : ~aim.strays
BY TreesAssumption, NoTreeStrays DEF Aims

\* AT-SPI never types into a window that lacks the focus while the focused one
\* has an editable text, whatever the accessible trees are and answer: the
\* accessibles of _candidate_accessibles stand in the order that sees to it.
THEOREM AtspiStaysInWindow == Spec => []StaysInWindow
<1>1. Init => StaysInWindow
  BY DEF Init, StaysInWindow
<1>2. StaysInWindow /\ [Next]_vars => StaysInWindow'
  <2> SUFFICES ASSUME ~strayed, [Next]_vars
               PROVE  ~strayed'
    BY DEF StaysInWindow
  <2>1. CASE InsertByAtspi
    BY <2>1, NoAimStrays DEF InsertByAtspi
  <2>2. CASE ~InsertByAtspi
    BY <2>2 DEF Next, Submit, WorkerStep, TakeCall, BeginPaste, GiveUpClipboard,
       SendShortcut, KeyStep, PressModifier, KeyDown, KeyUp, ReleaseModifier, EndChord,
       AtspiUnavailable, BeginTyping, TypeNext, BeginUnits, SendUnit, GtkStep, RunSet,
       OnOwnerChange, ForeignCopy, MoveFocus, ReadClipboard, Struck, vars, desktopVars
  <2> QED
    BY <2>1, <2>2
<1> QED
  BY <1>1, <1>2, PTL DEF Spec
=============================================================================
