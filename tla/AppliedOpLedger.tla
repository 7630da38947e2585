-------------------------- MODULE AppliedOpLedger --------------------------
(***************************************************************************)
(* host/dedupe.py: the bounded, persistent ledger of applied operations,   *)
(* an OrderedDict from (client_id, op_id) to the digest of the text, kept  *)
(* in least-recently-used order and written as a whole to one JSON file.   *)
(*                                                                         *)
(* An OrderedDict is represented by the function it is (digest) and by the *)
(* strict total order of its keys (older): <<x, y>> \in older says that x  *)
(* comes before y.  Digests are collision-free, so the digest of a text is *)
(* the text itself; Legacy is the digest None of an entry loaded from an   *)
(* old file that listed bare keys.                                         *)
(***************************************************************************)
EXTENDS Protocol

CONSTANTS
  MaxEntries,  \* AppliedOpLedger.max_entries
  Legacy       \* the digest of an entry written by an older host

ASSUME LedgerAssumption == MaxEntries \in Nat \ {0} /\ Legacy \notin Texts

VARIABLES
  ledger,      \* self._entries
  diskLedger,  \* the contents of applied_ops.json
  unavailable  \* self.unavailable_reason is not None

ledgerVars == <<ledger, diskLedger, unavailable>>

Key == Clients \X OpId
Keys(l) == DOMAIN l.digest

LedgerOf(l) ==
  /\ Keys(l) \subseteq Key
  /\ l = [digest |-> l.digest, older |-> l.older]
  /\ l.digest \in [Keys(l) -> Texts \cup {Legacy}]
  /\ l.older \subseteq Keys(l) \X Keys(l)

EmptyLedger == [digest |-> [x \in {} |-> Legacy], older |-> {}]

LedgerTypeOK ==
  /\ LedgerOf(ledger)
  /\ LedgerOf(diskLedger)
  /\ unavailable \in BOOLEAN

LedgerInit ==
  /\ ledger = EmptyLedger
  /\ diskLedger = EmptyLedger
  /\ unavailable = FALSE

\* Faulty variant: the key also keeps the place it had.
AddAtEnd(l, key) ==
  [l EXCEPT !.older = @ \cup {<<x, key>> : x \in Keys(l) \ {key}}]

\* OrderedDict.move_to_end
MoveToEnd(l, key) ==
  [l EXCEPT !.older =
     {pair \in @ : pair[1] # key} \cup {<<x, key>> : x \in Keys(l) \ {key}}]

\* The entries whose key is in S, in the order they had.
Only(l, S) ==
  [digest |-> [x \in S |-> l.digest[x]],
   older  |-> {pair \in l.older : pair[1] \in S /\ pair[2] \in S}]

\* The loop of popitem(last=False), and the slice raw[-max_entries:].
Newest(l) ==
  Only(l, {x \in Keys(l) :
             Cardinality({pair \in l.older : pair[1] = x}) < MaxEntries})

\* record, up to the call of _persist.
Put(l, key, text) ==
  Newest(MoveToEnd(
    [digest |-> [x \in Keys(l) \cup {key} |->
                   IF x = key THEN text ELSE l.digest[x]],
     older  |-> l.older], key))

\* Faulty variant: the operation identifier is left out of the key.
StatusOfClient(key, text) ==
  CASE unavailable -> "unavailable"
    [] ~unavailable /\ ~\E x \in Keys(ledger) : x[1] = key[1] -> "missing"
    [] ~unavailable /\ \E x \in Keys(ledger) : x[1] = key[1] -> "match"

\* Faulty variant: another text under the same identifier is a new operation.
StatusWithoutConflict(key, text) ==
  CASE unavailable -> "unavailable"
    [] ~unavailable /\ key \notin Keys(ledger) -> "missing"
    [] ~unavailable /\ key \in Keys(ledger) ->
         IF ledger.digest[key] \in {Legacy, text} THEN "match" ELSE "missing"

\* status
Status(key, text) ==
  CASE unavailable -> "unavailable"
    [] ~unavailable /\ key \notin Keys(ledger) -> "missing"
    [] ~unavailable /\ key \in Keys(ledger) ->
         IF ledger.digest[key] \in {Legacy, text} THEN "match" ELSE "conflict"

\* The ledger after status has looked key up.
Touched(key) ==
  IF ~unavailable /\ key \in Keys(ledger) THEN MoveToEnd(ledger, key) ELSE ledger

\* What _persist writes: entries without a digest are left out.
Persisted(l) == Only(l, {x \in Keys(l) : l.digest[x] # Legacy})

\* record, when the ledger is unusable: nothing is remembered.
RecordSkipped == unavailable /\ UNCHANGED ledgerVars

\* Faulty variants: the entry is not kept in memory, the file is not written,
\* the file is written before the entry is added.
RecordOnFileOnly(key, text) ==
  /\ ~unavailable
  /\ diskLedger' = Persisted(Put(ledger, key, text))
  /\ UNCHANGED <<ledger, unavailable>>
RecordInMemoryOnly(key, text) ==
  /\ ~unavailable
  /\ ledger' = Put(ledger, key, text)
  /\ UNCHANGED <<diskLedger, unavailable>>
RecordTooEarly(key, text) ==
  /\ ~unavailable
  /\ ledger' = Put(ledger, key, text)
  /\ diskLedger' = Persisted(ledger)
  /\ UNCHANGED unavailable

\* record, when _persist succeeds.
RecordOk(key, text) ==
  /\ ~unavailable
  /\ ledger' = Put(ledger, key, text)
  /\ diskLedger' = Persisted(ledger')
  /\ UNCHANGED unavailable

\* record, when _persist fails: before the new file replaced the old one, or
\* after it (the directory could not be synced).
RecordFails(key, text) ==
  /\ ~unavailable
  /\ ledger' = Put(ledger, key, text)
  /\ diskLedger' \in {diskLedger, Persisted(ledger')}
  /\ unavailable' = TRUE

\* _load, in a fresh process.
LoadOk ==
  /\ ledger' = Newest(diskLedger)
  /\ unavailable' = FALSE
  /\ UNCHANGED diskLedger

LoadFails ==
  /\ ledger' = EmptyLedger
  /\ unavailable' = TRUE
  /\ UNCHANGED diskLedger
=============================================================================
