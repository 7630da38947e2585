--------------------------- MODULE KeyboardLayout ---------------------------
(***************************************************************************)
(* X11CtypesBackend of host/injector.py: which key, with which modifiers,  *)
(* types a character on the current keyboard layout.  A character is its   *)
(* code point; 0 is no character, no keysym and no keycode.                *)
(***************************************************************************)
EXTENDS Integers, Sequences

CONSTANTS
  Keycodes,     \* the keycodes of the display
  Layout,       \* XGetKeyboardMapping: the keysyms of each key, by slot
  KeycodeOf,    \* XKeysymToKeycode: the key of each keysym name on the layout
  Unprintable   \* the characters str.isprintable() refuses

Slots == 0..3
Modifiers == {"Control_L", "Shift_L", "ISO_Level3_Shift"}

\* The keysym names the code uses that XStringToKeysym knows.  It compares
\* them letter for letter: "shift" and "altgr" are not among them.
KeysymNames == Modifiers \cup {"v", "a", "Insert", "BackSpace", "Mode_switch"}

ASSUME LayoutAssumption ==
  /\ Keycodes \subseteq Nat \ {0}
  /\ Layout \in [Keycodes -> [Slots -> Nat]]
  /\ DOMAIN KeycodeOf \subseteq KeysymNames
  /\ \A name \in DOMAIN KeycodeOf : KeycodeOf[name] \in Keycodes
  /\ \A x, y \in DOMAIN KeycodeOf : KeycodeOf[x] = KeycodeOf[y] => x = y
  /\ "Shift_L" \in DOMAIN KeycodeOf

\* _keycode_for_name: 0 stands for unknown_keysym and for unmapped_keysym.
KeycodeForName(name) ==
  IF name \in DOMAIN KeycodeOf THEN KeycodeOf[name] ELSE 0

\* _keysym_to_char: Latin-1 keysyms and Unicode keysyms; the legacy keysyms of
\* other alphabets (EuroSign is 16#20AC) and dead keys are no characters.
KeysymToChar(keysym) ==
  LET char == CASE keysym \in 32..255 \ 127..159 -> keysym
                [] keysym \div 16777216 = 1 -> keysym % 16777216
                [] OTHER -> 0
  IN IF char \in Unprintable THEN 0 ELSE char

\* Insert is a key of its own, which types no character.
ASSUME InsertAssumption ==
  "Insert" \in DOMAIN KeycodeOf =>
    \A slot \in Slots : KeysymToChar(Layout[KeycodeOf["Insert"]][slot]) = 0

\* _modifiers_for_slot: names of the code's own, in the order they are pressed.
ModifiersForSlot(slot) ==
  CASE slot = 0 -> <<>>
    [] slot = 1 -> <<"shift">>
    [] slot = 2 -> <<"altgr">>
    [] slot = 3 -> <<"shift", "altgr">>

\* _load_modifier_keycodes and _modifiers_available.
AvailableModifiers ==
  {"shift"} \cup
    {m \in {"altgr"} :
      {"ISO_Level3_Shift", "Mode_switch"} \cap DOMAIN KeycodeOf # {}}

\* Faulty variant: every character is taken for one its key types alone.
PlacesOfAnySlot(char) ==
  {[key |-> k, mods |-> <<>>, slot |-> 0] : k \in
    {x \in Keycodes : \E s \in Slots : KeysymToChar(Layout[x][s]) = char}}

\* The keys and slots of the layout that type char.
Places(char) ==
  {p \in [key : Keycodes, slot : Slots, mods : {ModifiersForSlot(s) : s \in Slots}] :
    /\ p.mods = ModifiersForSlot(p.slot)
    /\ KeysymToChar(Layout[p.key][p.slot]) = char
    /\ \A i \in DOMAIN p.mods : p.mods[i] \in AvailableModifiers}

OnLayout(char) == char # 0 /\ Places(char) # {}

\* _build_layout_char_map keeps the first place with the fewest modifiers.
LayoutPlace(char) ==
  CHOOSE p \in Places(char) : \A q \in Places(char) \ {p} :
    \/ Len(p.mods) < Len(q.mods)
    \/ /\ Len(p.mods) = Len(q.mods)
       /\ p.key < q.key \/ (p.key = q.key /\ p.slot < q.slot)

-----------------------------------------------------------------------------
\* The X server: what pressing the key types while these keys are held down.
Down(held, name) == KeycodeForName(name) \in held

CharTyped(key, held) ==
  LET slot == (IF Down(held, "Shift_L") THEN 1 ELSE 0)
                + (IF Down(held, "ISO_Level3_Shift") THEN 2 ELSE 0)
  IN KeysymToChar(Layout[key][slot])
=============================================================================
