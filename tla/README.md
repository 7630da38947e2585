# VibeMic in TLA+

VibeMic types on a desktop what a user dictates on a phone. The phone keeps a
durable queue of text chunks and sends them, one at a time, over a WebSocket; the
desktop host types each one into the focused window and acknowledges it. Both ends
crash, connections break or fall silent, answers arrive late, and the promise of
`protocol/LOSSLESS_PROTOCOL.md` is that nothing is lost silently and that ordinary
retries are not typed twice. This directory models that machinery, model-checks it
with TLC and proves its central invariants with TLAPS.

All paths below are relative to the repository; `server.py`, `session.py`,
`dedupe.py`, `protocol.py`, `injector.py`, `service.py` and `identity.py` are in
`windows_host/host/`, `MainActivity.kt` is in
`android_client/app/src/main/java/com/realtimeinput/client/`.

## 1. The system

| component | state | operations | talks to |
|---|---|---|---|
| **Phone: queue and connection** (`MainActivity.kt` 95-133, 230-341, 500-540, 604-990) | delivery FIFO and in-flight operation, connection state, session and token, next sequence number, current socket, three timers | append, drain, answers, ACK timeout, heartbeat, reconnect, session recovery, route switch, pause/resume, process death | host over the wire; UI thread runs everything |
| **Phone: draft** (541-688, `DeliveryOp.kt`, `InputSanitizer.kt`) | draft, processed baseline, saved preferences | text changes become chunks; recovery after a restart | the queue |
| **Phone: endpoints** (134-540, `ServerEndpoint.kt`) | candidates, active address, discovered and remembered addresses, pinned server identity, posted dials | connect, disconnect, settings, discovery, fallback to the next candidate, hello_ok, auth_ok | the connection, the host's identity |
| **Transport** (OkHttp, aiohttp) | connections and frames in flight | dial, send, deliver, reset, silence | both ends |
| **Session manager** (`session.py`) | the one active session: token, client, last sequence number, last seen, snapshot | authenticate, validate, heartbeat, timeout, expect_next_seq | server |
| **Ledger** (`dedupe.py`) | LRU map of applied operations, its file, the "unavailable" flag | status, record, load, persist | server, disk |
| **Host server** (`server.py`) | per-connection state, injector worker queue | hello, auth, ping, text_insert | all of the above, the injector |
| **text_replace** (`server.py` 81-90, 189-316, 498-528) | pending snapshot, quiet-window timer, apply task | coalesce, apply the appended suffix, answer all | sessions, the worker |
| **Injectors** (`injector.py`) | paste mode, clipboard and its GTK thread, keys held down | set_paste_mode, inject_text, append_text, fallbacks | the worker thread, the desktop |
| **Host service** (`service.py`, `tray_app.py`) | thread, event loop, runner, two events | start, stop, the service thread | server |
| **Identity** (`identity.py`) | a file | load or create | server, phone |

**What is hard.** A coroutine of the host is interrupted only where it awaits, and
`_on_text_insert` awaits the worker between asking the ledger and writing to it.
The phone's UI thread runs callbacks of sockets that have been replaced since. An
ACK races the ACK timeout. Authentication evicts whoever holds the session. The
ledger's file and its memory diverge when a write fails. Sequence numbers restart
with every session and are consumed by failures. Nothing on the phone polls: a
queue that is not drained by the right event is never drained. The worker types while
the GTK thread owns the clipboard and the application reads it when it likes. The tray
waits for its service thread for ten seconds at most and then shares its fields with
the next one. A dial the phone has posted cannot be taken back. `PROJECT.json`
lists each hazard at its line, with the properties that cover it.

**What makes each component correct.** The phone never forgets a chunk before the
desktop shows it, removes only what the matching ACK names, and always has
something that will move it forward. The host acknowledges only what it typed, types
each session's text in order and never again what it acknowledged. The ledger never
forgets, in memory or on file, what it may still be asked about. The whole delivers
each phone's chunks in order, with no gap. text_replace answers every snapshot once,
in order, and never believes to have shown what it has not. The draft, the baseline and
the queue agree wherever the process dies, and what was typed is queued once. An
injector types a text once, along one path, leaves no key down and finishes. A start
that succeeds listens, a stop leaves nothing behind. The phone talks to the server it
has pinned and to no other, reaches it when it can be reached, and a server keeps the
identity it has told.

## 2. The modules

| module | models | notes |
|---|---|---|
| `Protocol` | the messages, identifiers, bounds | an operation is `<<client, n>>` for the client's n-th chunk; a text is named by the chunk it is the text of; session id and token are one number |
| `Wire` | connections, external | two FIFO queues per connection, `link` states, and the budget of faults |
| `SessionManager` | `session.py` | `last_seen_ms` becomes one bit: the timeout has passed or not |
| `AppliedOpLedger` | `dedupe.py` | the LRU order is a relation between keys; digests are the texts; the file is a second ledger |
| `RealtimeHost` | `server.py` except text_replace | one action per handler, `_on_text_insert` split at its await |
| `PhoneDelivery` | `MainActivity.kt`, queue and connection | one record per phone; one action per callback, timer or tap |
| `VibeMic` | the composition | its properties, the refinement, the fairness |
| `TextDelivery` | the abstract promise | chunks in order, confirmed only when shown; the chunk in doubt may be typed again |
| `HostClients` | the host facing arbitrary clients | messages of any session, number, operation and text |
| `PhoneAlone` | the phone facing an arbitrary host | any message at any time |
| `TextReplace` | `server.py`, text_replace with text_insert beside it | its own clients, those of the legacy protocol |
| `PhoneDraft` | `MainActivity.kt`, from the input box to the queue | one phone; the connection is reduced to the removal of the head |
| `PhoneEndpoints` | `MainActivity.kt` and `ServerEndpoint.kt`, addresses and discovery | extends `ServerIdentity`; which address is dialled, which server is trusted |
| `ServerIdentity` | `identity.py` | one file per machine; identities are never repeated |
| `TextInjector` | `injector.py`, from `set_paste_mode` to the screen | the worker, the GTK thread, the desktop; a chord is sent one key event at a time |
| `KeyboardLayout` | `injector.py`, `X11CtypesBackend` | pure operators: keysyms, slots, modifiers |
| `AtspiTarget` | `injector.py`, `AtspiTextBackend` | pure operators: which node of a tree receives the text |
| `HostService` | `service.py`, the menu of `tray_app.py` | the fields shared by the tray and the service threads |
| `MC*` | instances for TLC | the fault budgets, the messages |
| `*_proofs` | theorems | see section 5 |

**How the state corresponds.** In `RealtimeHost`, `job[k]` is the stack frame of the
`_on_text_insert` coroutine of connection `k` while it awaits the worker (the message
it validated and the mode it set), `execQ` is the queue of the single-threaded
executor, `doneQ` the finished futures in the order asyncio resumes their coroutines.
`desktop` and `acked` are history. A connection whose handler awaits reads no further
message, as `handle_ws` does. In `PhoneDelivery`, the record `phone[p]` holds the
fields of the Activity: `queue` (deliveryQueue, also on disk), `inflight`, `conn`
(connectionState), `sid` (0 for the empty string), `seq`, `sock` (the current
WebSocket), `should` (shouldStayConnected), `redial` (how the next dial has been
scheduled: the removable reconnectRunnable or the lambda posted by
tryNextCandidateOrSchedule, which cannot be removed), the ACK timer and
sessionRecoveryInProgress. Actions that persist the queue keep memory and disk equal,
since `persistDeliveryState` uses `commit`; so a killed process comes back with the
same queue and everything else as at a fresh start (`Kill`).

In `TextInjector`, `call` is the frame of the worker's `append_text` (which text, at
which stage of the fallbacks, with which resolved paste mode), `chord` the key
combination being sent and how far it is, `setQueue` the idle callbacks of the GTK
loop, `notices` the owner-change signals on their way, `pastes` the shortcuts an
application has yet to act upon. `screen` is history: what arrived, for which call, along
which path. The accessible tree is chosen anew at each AT-SPI call, from all trees of
the instance. In `HostService`, the variables `thread`, `loop`, `runner` and `host` are
the fields of the one object, holding the number of the thread they belong to; `pc` is
where each service thread is. `Joined` says that `runner.cleanup`, which waits up to 60
seconds for open WebSockets, outlasts the 10 seconds of a join. In `PhoneEndpoints`,
`candidates`, `active`, `discovered`, `timer` (reconnectRunnable is scheduled) and
`lambdas` (posted dials) are fields of the Activity, `last`, `known`, `pinned`, `auto`
and `bootstrap` its preferences; `at` is the network, which may move an address.

**Callbacks of replaced sockets** do nothing (`isCurrentSocket`); `HangUp` therefore
drops what the replaced socket still had to tell. Its messages to the host are still
on their way and may be handled, or be lost (`LoseTail`).

**Abstracted.** Wording of errors, logs, statistics, timestamps, the health endpoint,
the choice between candidate addresses (only whether a dial happens), the content of
texts. Malformed messages are represented by a text or a number that `parse_insert`
refuses. For `RealtimeHost` an injection is one step that succeeds, or fails and types
nothing; `TextInjector` has what happens inside it, and shows that a failure may leave a
beginning of the text, which a retry types again. In `PhoneEndpoints` a service has one
address, the discovery listener exists exactly while automatic selection is on (a
discovery that fails to start only skips the grace wait), and preferences written with
`apply` are durable. In `HostService` a port has one listener.

**Faulty variants.** A definition whose comment begins "Faulty variant" stands
before the operator it varies. No specification uses it; it records a plausible
mistake that the properties must notice, and `PROJECT.json` names the property.

## 3. The runs

Each run names the misfortunes it explores, as a budget per kind (`Wire.FaultKinds`,
`PhoneDraft.Limits`). Injections of `text_replace` may fail at any time; otherwise the
budget is the only limit on faults. `MaxConn` and `MaxSession` bound how often a phone
may dial and authenticate, and are chosen so that every fault of the budget can be
recovered from. A run ends when its bounds are used up, so deadlock is not checked: in
the code a phone can always dial again, and a user can always type.

| run | instance | shows |
|---|---|---|
| `rivals` | 2 phones, 2 chunks each, a ledger of 3 entries (of 4 operations), 3 connections per phone, 4 sessions; one late answer, one reset | ACKs are truthful; numbers in step while phones evict each other; no chunk overtaken by a later one; eviction keeps the ledger sound; a replay only while the first handler is unrecorded; refinement of `TextDelivery` for both |
| `live` | 1 phone, 2 chunks, 7 connections, 6 sessions; one host crash, silent connection, kill of the phone, refused dial, injector failure | nothing lost; what is acknowledged is on file; everything is delivered in the end |
| `host_clients` | 1 client, 2 connections, 2 sessions, 4 arbitrary messages, a file of an older host; write, load and injector failures | types; worker order within a session; memory and file agree; nothing acknowledged is started again |
| `phone_alone` | 1 phone, 2 chunks, 3 connections, 4 arbitrary answers; a route switch, a heartbeat, a manual disconnect, a change of the paste mode | the queue is the unconfirmed tail; removal only by the matching ACK; never idle with work; a redial is always pending |
| `text_replace` | 2 clients, 2 sessions, 2 messages per session, any interleaving with inserts, any injection may fail | every snapshot answered once, in order, in the end; nothing shown that was not typed; no snapshot retypes what one has typed |
| `draft` | 4 characters; one kill, one recreation of the Activity, one clearing, two deletions | a kill costs nothing; unprocessed text is scheduled; what is typed is queued once, in order, and nothing dropped |
| `injector` | 2 texts, 6 injectors, 2 windows, 2048 accessible trees (every answer of 5 nodes under a desktop), a layout of 3 letter keys; 2 of 6 misfortunes | keys released; one path, once; no stale paste; AT-SPI stays in the window; every call ends |
| `service` | 3 service threads, phones that connect and type, every wait may run out | a successful start listens; a stop leaves nothing behind unless its wait ran out; a loop asked to stop is closed |
| `endpoints` | 3 addresses, 2 machines, 2 networks, 5 budgets of events (taps, settings, discovery, drops, kill, moves, restarts, a damaged file) | only the pinned server; what was told is on file; manual means the address that is set; a server that can be reached is reached |
| `replay`, `ledger_write`, `capitals` | the smallest instances | the disagreements of section 4 |

**Why these bounds are enough to be interesting.** Two chunks are needed for order and
gaps: the first may be in doubt while the second waits. The ledger of three entries is
smaller than the four operations of `rivals`, so that eviction happens, and large enough
that no operation is evicted before its retry: `ReplayOnlyWhileUnrecorded` needs that,
and no restart of the host. In `live`, each of the five faults ends at most one
connection: its seven connections are never used up. In `injector`, two calls are needed
for one to disturb the next, a text of three characters for a failure in the middle, a
text that is the letter of the paste shortcuts for a Control that is stuck, the
second window for a focus or an insertion that goes astray. `service` needs three
threads: the one that a stop gave up waiting for, the one that shares its fields, and
one that starts after both. `endpoints` needs two machines, so that an address can lead
to a stranger. In `text_replace`, one session can be evicted with a snapshot pending and
another applying, while the new session's first snapshot has the same number as the old
one's. The theorems of section 5 hold for every bound.

**Fairness** (`VibeMic!Fairness` and the `FairSpec` of `TextReplace`, `TextInjector`,
`HostService` and `PhoneEndpoints`). Weak fairness of: each host coroutine that can run,
the worker thread, the phone's reaction to what its socket tells it, the reconnect timer
and the ACK timer; for text_replace, of the event loop, its timer and the worker. These
are a running event loop, thread and UI queue, which execute whatever is ready. Users,
faults, the heartbeat and the passage of quiet time are not obliged to happen. For the
injectors, the worker thread and the GTK thread run; the application is not obliged to
read the clipboard. For the service, each thread runs, the tray's waits end and a text
that is being typed is finished. For the endpoints, timers expire, and a dial and each
part of the handshake have an outcome. `Reached` assumes that from some time on the
phone is to be connected and one of the addresses it would build leads to a running host
it accepts. `AllDelivered` assumes that the user leaves the phone connecting and that
the phone is not stuck on a silent connection before auth_ok (section 4).
`EveryReplaceAnswered` counts on a client that pauses: while it sends without a pause
the quiet window never ends, and the bound on sequence numbers is what makes every
client pause.

**Mutants.** For every property of every passing run, `PROJECT.json` names a change
of a modelled definition that the property detects: a dropped guard, a forgotten
reset, a record written too early or nowhere, a timer removed after it was set.

## 4. Disagreements with the documents

1. **A late answer causes a replay** (`replay`, `AtMostOnce`; `server.py:461`). The
   ledger is asked before, and written after, the await of the worker. A retry on a
   new connection meanwhile is typed again. `ReplayOnlyWhileUnrecorded` shows that
   this is the only way for the network to cause a replay.
2. **A failed ledger write is forgotten by a restart** (`ledger_write`;
   `dedupe.py:67`). "Fails closed" lasts only as long as the process.
3. **Key events cannot type a shifted character** (`capitals`; `injector.py:755`).
   The modifiers of a layout slot are pressed by the names "shift" and "altgr", which
   XStringToKeysym does not know. A text with a capital letter fails on the last
   fallback, after what precedes the letter has been typed.

More weaknesses are visible in the models, where no document promises otherwise or
where the property says exactly how far the promise goes:

- `applied_snapshot` is assigned after the await (`server.py:299`), so an insert that
  was acknowledged meanwhile is missing from it and the next snapshot types it again.
  `ReplaceNeverRetypes` shows that only what an insert typed is exposed to this.
- `onDestroy` leaves `processInputRunnable` posted (`MainActivity.kt:217`). When it
  runs, it saves the old draft, baseline and queue over those of the new Activity.
  The properties of `PhoneDraft` hold until that happens (`outlived`), so it is the
  only way to break them.
- hello and auth are sent without a timer (`MainActivity.kt:828`): a connection that
  falls silent before auth_ok is never given up. It is a premise of `AllDelivered`.
- The paste mode is set for the injector, not for the chunk (`server.py:460`): a text
  that still waits for the worker is pasted with the mode of the next message.
  `PasteIsCurrent` shows that no older mode is ever used.
- An application reads the clipboard after the call has ended, so a paste may show the
  text of a later call; `PasteIsCurrent` shows that it never shows an older one, unless
  another application or a clipboard that answers late took part.
- A Control key whose release failed stays down (`injector.py:741`), and a v that a later
  fallback types is then a paste. `KeysReleased` shows that only a failed event of a
  modifier leaves one down; `TypedOnce` and `PasteIsCurrent` hold while none has failed.
- AT-SPI may insert a text without being able to verify it, and the key events type it
  again (`injector.py:1064`); `TypedOnce` shows that no other pair of paths types twice.
  The second test of `_verify_insert` (`injector.py:382`) only reads back the caret the
  call has just set.
- On Windows a character above U+FFFF is cut to 16 bits (`injector.py:152`).
- A stop whose wait runs out clears the fields the old thread still uses
  (`service.py:48`): the next start shares `_runner` with it, and one of the two hosts
  may be left open. `StopIsClean` holds until then.
- The lambda that dials the next candidate, and the one that ends the grace wait, dial
  even after a manual disconnect (`MainActivity.kt:244`, `336`). `PhoneEndpoints` counts
  them; its properties hold with them.

## 5. The proofs

The theorems hold for all values of the constants that satisfy the modules' named
assumptions: any number of phones, chunks, connections and sessions, any fault budget,
any ledger size. The assumptions say that bounds are positive naturals, that `None` is
none of the values it stands beside, that budgets are naturals, that the messages of
`PhoneAlone` and `HostClients` are messages, that key codes are positive, that no two key
names share a key, that there is a Shift key, and that the key called Insert types no
character. Of the accessible trees they say that the nodes are numbered as they are
visited, parents before their children, and that the desktop itself is no editable text.

| theorem | module | property |
|---|---|---|
| `NothingIsLost` | `VibeMic_proofs` | `NoSilentLoss` |
| `AcksAreTruthful` | `VibeMic_proofs` | `AckImpliesInjected` |
| `NothingIsOvertaken` | `VibeMic_proofs` | `NothingOvertaken` |
| `ChunksInOrder` | `VibeMic_proofs` | `DeliversInOrder` (refinement of `TextDelivery`) |
| `NumbersInStep` | `VibeMic_proofs` | `SeqInStep` |
| `AcksAreDurable` | `VibeMic_proofs` | `AckedIsDurable` (room in the ledger, no failing write) |
| `AckedOnceForAll` | `VibeMic_proofs` | `AckedNeverRestarted` (room, no failing write or no restart) |
| `ReplayIsARace` | `VibeMic_proofs` | `ReplayOnlyWhileUnrecorded` (room, no restart) |
| `TypesHold` | `VibeMic_proofs` | `TypeOK` (proved only: no run repeats it) |
| `QueueTail` | `OneSided_proofs` | `QueueIsUnconfirmedTail` |
| `OnlyMatchingAckRemoves` | `OneSided_proofs` | `RemovedOnlyByMatchingAck` |
| `DrainNeverStalls` | `OneSided_proofs` | `NeverIdleWithWork` |
| `DialIsPending` | `OneSided_proofs` | `RedialPending` |
| `PhoneTypes` | `OneSided_proofs` | `AloneTypeOK` |
| `WorkerKeepsSeqOrder` | `OneSided_proofs` | `QueuedInSeqOrder` |
| `HostTypesHold` | `OneSided_proofs` | `ClientsTypeOK` |
| `FileKnowsTheLedger` | `OneSided_proofs` | `LedgerMatchesFile` |
| `LedgerKeepsBound` | `VibeMic_proofs` | `LedgerSound` |
| `OnlyPinned` | `PhoneEndpoints_proofs` | `PinnedServer` |
| `IdentityIsKept` | `PhoneEndpoints_proofs` | `ToldIsOnFile` |
| `ManualIsManual` | `PhoneEndpoints_proofs` | `ManualMeansBootstrap` |
| `EndpointTypes` | `PhoneEndpoints_proofs` | `TypeOK` (no address twice in a list) |
| `StopsCleanly` | `HostService_proofs` | `StopIsClean` |
| `SuccessMeansListening` | `HostService_proofs` | `StartMeansListening` |
| `KillCostsNothing` | `PhoneDraft_proofs` | `KillIsHarmless` |
| `DifferenceIsScheduled` | `PhoneDraft_proofs` | `UnprocessedIsScheduled` |
| `TypedIsQueuedOnce` | `PhoneDraft_proofs` | `TypedIsQueued` |
| `DraftTypesHold` | `PhoneDraft_proofs` | `TypeOK` (proved only) |
| `NoSnapshotTwice` | `TextReplace_proofs` | `ReplaceNeverRetypes` |
| `ReplacesAnsweredInOrder` | `TextReplace_proofs` | `AnsweredOnceInOrder` |
| `SnapshotIsTyped` | `TextReplace_proofs` | `ShownIsTyped` |
| `ReplaceTypes` | `TextReplace_proofs` | `TypeOK` |
| `TextsAreTypedOnce` | `TextInjector_proofs` | `TypedOnce` |
| `PastesAreCurrent` | `TextInjector_proofs` | `PasteIsCurrent` |
| `NoKeyStuck` | `TextInjector_proofs` | `KeysReleased` |
| `InjectorTypes` | `TextInjector_proofs` | `TypeOK` |
| `AtspiStaysInWindow` | `TextInjector_proofs` | `StaysInWindow` |

**The argument.** The phone and the host share only the wire, so each side's invariant
is proved once, over its own actions and those of the wire, and used in both
compositions it belongs to (`BothSides_proofs`).

- *Phone.* Types alone are not inductive: that a number sent fits its message needs
  that the queue is the tail of what was appended, that only its head is in flight,
  and that the phone numbers its inserts from 1 to at most the number of chunks. With
  these, an ACK removes exactly the head, and only when number and operation match.
- *Never idle.* `Ready` says what a phone waits for in every state: a dial or a retry
  when it has no connection, an answer when it has text and a session. Every path that
  gives a connection up schedules a dial and clears the operation in flight; every
  change of the queue or the session ends in `drainDeliveryQueue` (`PhoneSettles`).
- *Host.* `WorkerQueues` says that a handler that awaits is in one of the two queues,
  once, at the stage that queue expects: without it `RunInjector` might find no job.
  `NumbersConsumed` says that sessions are numbered in the order they were issued and
  that a waiting insert has a number its session has consumed; so a newly accepted
  insert of the same session has a larger one, which is `QueuedInSeqOrder`.
- *Truth of ACKs.* `RecordedIsInjected`: whatever the ledger holds, in memory or on
  file, and whatever a handler is about to acknowledge, was typed. An ACK is emitted
  from one of these two sources. Recording, eviction, failed writes and crashes only
  take from the ledger what it held or add what was typed.
- *Ledger.* `LedgerInv` (`BothSides_proofs`): both ledgers are finite strict total
  orders of at most `MaxEntries` keys, and a usable ledger knows the digests its file
  knows. Eviction keeps the keys with fewer than `MaxEntries` keys after them; in a total
  order no two keys have equally many, so at most `MaxEntries` remain (an injection into
  `0..MaxEntries - 1`, where an induction over the order would be out of reach). A file
  within the bound is therefore loaded whole, which is why a restart forgets nothing.
- *No loss.* The only step that takes a chunk from the queue is the answer to its
  matching successful ACK, and that ACK was truthful; the desktop forgets nothing. So
  `NoSilentLoss` follows from both sides' invariants together.
- *Order.* A chunk may be under way through several connections and sessions at once, so
  order needs `OrderInv`. Only the head of a phone's queue is ever sent (`PhoneSays`), so
  what was sent is at most the chunk after the last confirmed one (`HeadsOnly`), and each
  connection carries a phone's chunks in order (`LinesInOrder`). The host lets through
  the inserts of one session, of which one connection only knows (`SessionOnOneConn`), so
  what is accepted is not overtaken by what was accepted before; the worker keeps that
  order. When a new session begins, no line carries an insert that names it, and the
  first one that will is the head of the queue: nothing beyond it was ever sent. With
  `NoSilentLoss` this gives the refinement: a chunk the worker types is the last one
  confirmed or the first that is not (an older one would have been overtaken by the last
  one confirmed, which is on the desktop), with no later one shown. `Submit`, `Type` and
  `Confirm` are the three steps that are seen; every other step is a stutter.
- *Numbers in step.* `TakingTurns` says that the phone and the host take turns. `InTurn`:
  a message of the handshake is the last one of its line, and its answer the last one on
  the way back, while nothing goes the other way; a session has one insert at most on
  its way. `Conversing`: in a session, the phone's one insert is either still on its way,
  or its handler awaits the worker, or its answer is under way, and from the moment it is
  counted, `last_seq` of the session is the phone's number; before it was, one less
  (`SeqInStep`). Only a refused insert may leave the two apart, and a phone that hears
  the refusal gives up the connection. `Greeting` says that on a new connection no number
  is used before `auth_ok`, and the last part of `TakingTurns` that a session a phone has
  yet to hear of is still at zero. The proof splits at the wire: `TurnTaken` is all a
  phone may do to its record and its lines, `AnsweredTurn`, `StartedTurn` and their like
  all a handler may do. `SessionOnOneConn` rules out that another phone's insert counts.
- *The ledger is enough.* A key of the ledger is a client and an operation. `OwnerInv`:
  what is said on a connection is said by one phone, of its own chunks, and the session
  it names was given to that phone; so the key a handler looks up or records names the
  operation's own client (`OwnKey`). There are therefore no more keys than operations,
  and with room for all of them (`RoomForAll`, an assumption of these three theorems
  only) a recording evicts nothing. What a lookup, a recording or a restart may then do
  to the ledger's keys is `KeysNext`. `FileInv`: as long as no write of the file fails,
  memory and file have the same keys, and every acknowledged operation is one of them.
  `MemoryInv`: as long as no restart reads the file, what was acknowledged and what was
  typed is in memory, except what a handler has typed and not yet recorded
  (`Unrecorded`), which is the race of `ReplayOnlyWhileUnrecorded`. The hypotheses are
  needed. A handler acknowledges what it typed even when the file could not be written,
  and a restart then reads the file of before: `ledger_write` shows that run. An operation
  that is typed and not recorded when the host is killed is typed again. And an entry
  evicted is forgotten: that `rivals`, whose ledger does evict, has no replay of one is
  TLC's result, on its instance.
- *Pinned server.* `ServerInv` ties the address in use to the dial it came from: as
  long as `active` is set, the connection was dialled there under the settings of now,
  and `connectedId` is the server at its other end. The settings dialog breaks that tie
  by forgetting both, which is why an `auth_ok` that is still under way then pins
  nothing. `IdentityInv` says that a running host uses what its file holds, unless that
  was damaged; `ManualInv`, that with discovery off every list a caller hands to
  `connectInternal` holds only allowed addresses. None of them needs a bound.
- *Clean stops.* As long as no stop has given up waiting, only the thread the service
  knows is alive, and a thread with phones that ends was asked to stop and cleans up
  its own runner (`ThreadInv`, `Leaves`). So it cannot end while its worker types,
  because the tray still waits for it. For the same reason the event a start waits for
  is set by its own thread, which listens from the bind on (`StartInv`).
- *Draft.* `Mirrors`: until a destroyed Activity's runnable has run, the disk has the
  baseline and the queue of the Activity and, up to control characters, its text. A
  restart and the runnable then compute the same difference from the same values.
  `OrderedOn` is what order needs: the texts rise, nothing is newer than the last
  character typed, and every character of the text is either in the baseline or newer
  than everything queued. Edits and restarts put the last part to the test: a character
  that is in neither would be queued again. `CompleteOn`:
  while nothing was deleted or cleared, the baseline is a prefix of the text, as long as
  what was queued.
- *Replace.* `WorkInv` says that nobody waits for the worker twice and that each waiter
  is at the stage its queue expects; without it `RunWorker` and `EndApply` might find no
  request. Answers stay in order because every step moves a block of names from one of
  three parts (answered, applying, pending) to the next. For what was shown,
  `SuffixRemains` says that the pieces of a request that is being typed are on the
  screen or in its suffix. For `ReplaceNeverRetypes`, the snapshot holds whatever replaces
  have typed in its session (`SnapshotCovers`), except between the worker's success and
  the assignment (`Behind`), when the request holds it (`RequestCovers`); so a suffix,
  which is what a document without repetitions has beyond the snapshot, is new
  (`SuffixIsNew`). An insert that is typed meanwhile is not a replace's, and may go
  missing from the snapshot without breaking any of them.
- *Injectors.* `HeldInv`: a key that is down is a modifier the combination has pressed,
  the key it strikes, or one of which an event failed; `KeysReleased` is its case
  between two combinations. `ClipInv`: inside `set_text`, exactly one of three is true
  (its callback is queued; the owner-change it will cause is under way; that signal has
  been taken), and outside nothing of it is left, because nobody else takes the
  clipboard and no wait has timed out. So the shortcut finds the text of its own call.
  `PathInv`: a call that has not sent its shortcut has pasted nothing, one that has not
  left AT-SPI has typed nothing, and sending a shortcut is what separates them: it ends
  in success or in a failure that tries no other path. That needs every modifier event
  to work, since a v typed while Control is stuck is a paste. `TypedInv` counts: what
  the applications got key by key is `call.typed` characters, and one more between the
  press and the release of a key; with no key held that does not belong to it, the key
  found for a character types that character (`TypingIsPlain`, `LayoutPlaceIsPlace`: the
  least place in the order of the code exists, by well-founded induction).
- *Windows.* A parent has a smaller number than its child, so a node for which a
  statement about lineages fails would have a least one, and its parent, for which it
  holds, refutes it (`TreeInduction`); this is how the recursive function behind
  `Lineage` is shown to exist and its properties are shown. All ancestors of a node but
  the desktop are in the node's window (`SameWindow`), which has one accessible
  (`OneWindow`), and the further up a lineage, the nearer to the desktop
  (`LineageDepth`). So a search below an ancestor that comes no later in the lineage than
  the window finds a node of that window. The focused node and the candidate exist as
  least elements of their orders: the keys are compared component by component, and each
  component has a least value (`LeastKey`).
- *Lists of addresses.* `TypeOK` of `PhoneEndpoints` says that `distinctBy` returns a
  list without repetitions, whatever was merged. `Kept` finds the i-th position by its
  rank; that every rank up to their number is somebody's (`AllRanked`) is shown by a
  least rank that is nobody's (`LeastNat`). The rest is what the code hands to whom:
  an address is dialled exactly while the phone is not down (`LinkOK`).

**Only model-checked.** Liveness (`AllDelivered`, `EveryReplaceAnswered`,
`EveryCallEnds`, `StopTakesEffect`, `Reached`) needs fairness and ENABLED, which are
beyond the prover. Where a proof needs an induction over numbers or over a tree, it
takes the least counterexample instead, which the library's well-founded sets give
without an operator parameter. No module declares a RECURSIVE operator.

## 6. Not modelled

- **Injectors**: `replace_text` and `get_text`, which the host never calls; the walk up
  the X window tree to the window whose class names a terminal (`Terminals` is its
  result); findDescendant, used where findAllDescendants raises.
- **AT-SPI in the accessible's own code**: what a tree answers is any combination, the
  same throughout one call.
- **The saved text of the view itself** (onSaveInstanceState), which Android restores
  after onCreate: it equals the draft. The base64 lines of the queue's file.
- **The composition of endpoints and delivery**: `PhoneDelivery` has a dial that
  happens or is refused, and a route that is switched; `PhoneEndpoints` has which
  address that is. Silent connections are in the first only.
- **RealtimeHost.close** with a text_replace under way: it cancels the timer and the
  task at the end of the process or of the service.
- **An identity without a file** (`path is None`): used by tests only.
- **Configuration**: constants of the models.
- **User interface, packaging, statistics, logging, previews**: nothing depends on
  them.

## 7. Plan

Done: the delivery core (phone, wire, host, ledger, composition), its environment
models, text_replace, the phone's draft, its endpoints with the identity file, the
injectors, the host service, and theorems about all of these. Next, in this order:

1. `RealtimeHost` with injections that fail after a beginning of the text was typed.
