----------------------------- MODULE HostService -----------------------------
(***************************************************************************)
(* host/service.py and the tray's menu (host/tray_app.py): a host runs on  *)
(* an event loop in a thread of its own, which the tray starts and stops.  *)
(*                                                                         *)
(* The tray's thread and the service threads share the fields of one       *)
(* HostService object without a lock.  Each wait of the tray ends after    *)
(* 10 seconds whatever the other thread does, and then the fields are free *)
(* for the next start while the old thread goes on.                        *)
(***************************************************************************)
EXTENDS Naturals, FiniteSets

CONSTANTS
  MaxStarts    \* bound: service threads ever started

ASSUME ServiceAssumption == MaxStarts \in Nat \ {0}

Threads == 1..MaxStarts

VARIABLES
  pc,          \* where each service thread is
  stopAsked,   \* threads whose loop has loop.stop among its callbacks
  cleaning,    \* the host whose runner each thread's _shutdown cleans up
  listening,   \* threads whose host listens on the port
  connected,   \* threads whose host has a phone's WebSocket open
  typing,      \* threads whose host's worker is typing
  closed,      \* threads whose host has been closed (RealtimeHost.close)
  thread, loop, runner, host,  \* the fields, by the thread they belong to; 0 is None
  started, startError,         \* self._started is set; self._start_error is not None
  tray,        \* what the tray's thread waits for: "idle", "start" or "join"
  abandoned    \* history: threads a stop gave up waiting for

fields == <<thread, loop, runner, host, started, startError>>
serving == <<listening, connected, typing, closed>>
vars == <<pc, stopAsked, cleaning, serving, fields, tray, abandoned>>

Stages ==
  {"none", "created", "startup", "binding", "bound", "running", "shutdown",
   "cleanup", "dead"}

TypeOK ==
  /\ pc \in [Threads -> Stages]
  /\ cleaning \in [Threads -> 0..MaxStarts]
  /\ \A S \in {stopAsked, listening, connected, typing, closed, abandoned} :
       S \subseteq Threads
  /\ {thread, loop, runner, host} \subseteq 0..MaxStarts
  /\ started \in BOOLEAN /\ startError \in BOOLEAN
  /\ tray \in {"idle", "start", "join"}
  /\ tray # "idle" => thread # 0
  /\ host = runner

Init ==
  /\ pc = [t \in Threads |-> "none"]
  /\ cleaning = [t \in Threads |-> 0]
  /\ stopAsked = {} /\ listening = {} /\ connected = {} /\ typing = {}
  /\ closed = {} /\ abandoned = {}
  /\ thread = 0 /\ loop = 0 /\ runner = 0 /\ host = 0
  /\ started = FALSE /\ startError = FALSE
  /\ tray = "idle"

Alive(t) == pc[t] \notin {"none", "dead"}
IsRunning == thread # 0 /\ Alive(thread)
Goto(t, stage) == pc' = [pc EXCEPT ![t] = stage]

-----------------------------------------------------------------------------
\* The tray: one menu callback at a time.

\* Faulty variant: the event of the previous start stays set.
StartUncleared ==
  /\ tray = "idle" /\ ~IsRunning
  /\ \E t \in Threads :
       /\ pc[t] = "none" /\ \A u \in Threads : u < t => pc[u] # "none"
       /\ thread' = t /\ Goto(t, "created")
  /\ startError' = FALSE
  /\ tray' = "start"
  /\ UNCHANGED <<stopAsked, cleaning, serving, loop, runner, host, started, abandoned>>

\* start while a thread is alive returns at once and changes nothing.
Start ==
  /\ tray = "idle" /\ ~IsRunning
  /\ \E t \in Threads :
       /\ pc[t] = "none" /\ \A u \in Threads : u < t => pc[u] # "none"
       /\ thread' = t /\ Goto(t, "created")
  /\ started' = FALSE /\ startError' = FALSE
  /\ tray' = "start"
  /\ UNCHANGED <<stopAsked, cleaning, serving, loop, runner, host, abandoned>>

\* The wait ends with the event, or by itself; none of the fields is reset.
\* start returns normally if the event is set and there is no start error,
\* else it raises.
StartReturns ==
  /\ tray = "start"
  /\ tray' = "idle"
  /\ UNCHANGED <<pc, stopAsked, cleaning, serving, fields, abandoned>>

\* stop without a live thread or a loop returns at once; on a loop that is
\* closed call_soon_threadsafe raises.
AskStop ==
  /\ tray = "idle" /\ IsRunning /\ loop # 0
  /\ IF pc[loop] = "dead"
     THEN UNCHANGED <<stopAsked, tray>>
     ELSE stopAsked' = stopAsked \cup {loop} /\ tray' = "join"
  /\ UNCHANGED <<pc, cleaning, serving, fields, abandoned>>

\* Faulty variant: the host is not forgotten.
ForgetButHost ==
  /\ thread' = 0 /\ loop' = 0 /\ runner' = 0
  /\ started' = FALSE /\ startError' = FALSE
  /\ UNCHANGED host

\* The last assignments of stop.
Forget ==
  /\ thread' = 0 /\ loop' = 0 /\ runner' = 0 /\ host' = 0
  /\ started' = FALSE /\ startError' = FALSE

\* Faulty variant: stop does not join the thread.
StopWithoutJoin ==
  /\ tray = "join"
  /\ Forget
  /\ tray' = "idle"
  /\ UNCHANGED <<pc, stopAsked, cleaning, serving, abandoned>>

\* The join ends with the thread, or after 10 s.
StopReturns ==
  /\ tray = "join"
  /\ abandoned' = IF Alive(thread) THEN abandoned \cup {thread} ELSE abandoned
  /\ Forget
  /\ tray' = "idle"
  /\ UNCHANGED <<pc, stopAsked, cleaning, serving>>

-----------------------------------------------------------------------------
\* A service thread.
NewLoop(t) ==
  /\ pc[t] = "created"
  /\ loop' = t /\ Goto(t, "startup")
  /\ UNCHANGED <<stopAsked, cleaning, serving, thread, runner, host, started,
                 startError, tray, abandoned>>

\* _startup up to its first await: build_app reads or creates the files of the
\* host, and may fail.
BuildApp(t) ==
  /\ pc[t] = "startup"
  /\ host' = t /\ runner' = t /\ Goto(t, "binding")
  /\ UNCHANGED <<stopAsked, cleaning, serving, thread, loop, started, startError,
                 tray, abandoned>>

\* The exception handler of _thread_main.
StartupFails(t) ==
  /\ startError' = TRUE /\ started' = TRUE
  /\ Goto(t, "shutdown")
  /\ UNCHANGED <<stopAsked, cleaning, serving, thread, loop, runner, host, tray, abandoned>>

BuildFails(t) == pc[t] = "startup" /\ StartupFails(t)

\* Only one socket listens on the port; another program may have taken it.
\* BindFails also stands for a loop.stop during the startup, which makes
\* run_until_complete raise.
Bind(t) ==
  /\ pc[t] = "binding" /\ listening = {}
  /\ listening' = {t} /\ Goto(t, "bound")
  /\ UNCHANGED <<stopAsked, cleaning, connected, typing, closed, fields, tray, abandoned>>

BindFails(t) == pc[t] = "binding" /\ StartupFails(t)

AnnounceStarted(t) ==
  /\ pc[t] = "bound"
  /\ started' = TRUE /\ Goto(t, "running")
  /\ UNCHANGED <<stopAsked, cleaning, serving, thread, loop, runner, host,
                 startError, tray, abandoned>>

LoopStops(t) ==
  /\ pc[t] = "running" /\ t \in stopAsked
  /\ Goto(t, "shutdown")
  /\ UNCHANGED <<stopAsked, cleaning, serving, fields, tray, abandoned>>

\* _shutdown takes the runner the field holds now, and its site stops
\* listening.
BeginCleanup(t) ==
  /\ pc[t] = "shutdown"
  /\ cleaning' = [cleaning EXCEPT ![t] = runner]
  /\ listening' = listening \ {runner}
  /\ Goto(t, "cleanup")
  /\ UNCHANGED <<stopAsked, connected, typing, closed, fields, tray,
                 abandoned>>

\* runner.cleanup waits up to 60 s for the handlers of open WebSockets, longer
\* than any join does, and cancels them; a worker in the middle of a text goes
\* on.  Then the loop is closed.
Joined(t) == tray = "join" /\ thread = t

\* Faulty variant: cleanup waits for the phones however long it takes.
EndCleanupPatiently(t) ==
  /\ pc[t] = "cleanup"
  /\ cleaning[t] \notin connected \cup typing
  /\ closed' = closed \cup ({cleaning[t]} \ {0})
  /\ connected' = connected \ {cleaning[t], t}
  /\ listening' = listening \ {t}
  /\ Goto(t, "dead")
  /\ UNCHANGED <<stopAsked, cleaning, typing, fields, tray, abandoned>>

EndCleanup(t) ==
  /\ pc[t] = "cleanup"
  /\ cleaning[t] \in connected \cup typing => ~Joined(t)
  /\ closed' = closed \cup ({cleaning[t]} \ {0})
  /\ connected' = connected \ {cleaning[t], t}
  /\ listening' = listening \ {t}
  /\ Goto(t, "dead")
  /\ UNCHANGED <<stopAsked, cleaning, typing, fields, tray, abandoned>>

-----------------------------------------------------------------------------
\* Phones.  The handlers of a host run while its thread's loop runs.
LoopRuns(t) == pc[t] \in {"bound", "running", "cleanup"}

Connect(t) ==
  /\ t \in listening /\ LoopRuns(t)
  /\ connected' = connected \cup {t}
  /\ UNCHANGED <<pc, stopAsked, cleaning, listening, typing, closed, fields, tray, abandoned>>

Disconnect(t) ==
  /\ t \in connected
  /\ connected' = connected \ {t}
  /\ UNCHANGED <<pc, stopAsked, cleaning, listening, typing, closed, fields, tray, abandoned>>

StartTyping(t) ==
  /\ t \in connected \ typing /\ LoopRuns(t)
  /\ typing' = typing \cup {t}
  /\ UNCHANGED <<pc, stopAsked, cleaning, listening, connected, closed, fields, tray, abandoned>>

FinishTyping(t) ==
  /\ t \in typing
  /\ typing' = typing \ {t}
  /\ UNCHANGED <<pc, stopAsked, cleaning, listening, connected, closed, fields,
                 tray, abandoned>>

-----------------------------------------------------------------------------
\* The tray: _stop and _quit both call stop; _quit then ends the process, and
\* with it every service thread, which are daemons.
TrayStep == Start \/ StartReturns \/ AskStop \/ StopReturns

ThreadStep(t) ==
  \/ NewLoop(t) \/ BuildApp(t) \/ BuildFails(t) \/ Bind(t) \/ BindFails(t)
  \/ AnnounceStarted(t) \/ LoopStops(t) \/ BeginCleanup(t) \/ EndCleanup(t)

PhoneStep(t) == Connect(t) \/ Disconnect(t) \/ StartTyping(t) \/ FinishTyping(t)

Next == TrayStep \/ \E t \in Threads : ThreadStep(t) \/ PhoneStep(t)

Spec == Init /\ [][Next]_vars

\* Threads run, and waits end; nobody has to press a menu item or to send a
\* text.
FairSpec ==
  /\ Spec
  /\ WF_vars(StartReturns) /\ WF_vars(StopReturns)
  /\ \A t \in Threads : WF_vars(ThreadStep(t)) /\ WF_vars(FinishTyping(t))

-----------------------------------------------------------------------------
\* A start that reports success has its own host listening: the shared event
\* was set by the thread it started, not by an earlier one.
StartMeansListening ==
  [][/\ abandoned = {}
     /\ tray = "start" /\ tray' = "idle" /\ started /\ ~startError
     => thread \in listening]_vars

\* Every thread that is alive is the one the
\* service knows, or one that a stop gave up waiting for.
NoneForgotten ==
  \A t \in Threads : Alive(t) => t = thread \/ t \in abandoned

\* Two hosts type at the same time only after a stop has given up waiting for
\* a thread: otherwise the worker of a stopped host is idle before the next
\* host exists.
OneTypist == abandoned = {} => Cardinality(typing) <= 1

\* A thread that has ended has closed the host it built, unless a stop gave up
\* waiting for a thread: its runner was still in the shared field.
EndedIsClosed ==
  abandoned = {} =>
    \A t \in Threads : pc[t] = "dead" /\ t = host => t \in closed

\* What a stop may leave behind: is_running tells the truth, two hosts never
\* type against each other, and no host stays open, unless a wait of stop ran
\* out.
StopIsClean == NoneForgotten /\ OneTypist /\ EndedIsClosed

\* A loop that was asked to stop is closed in the end, whatever the phones do.
StopTakesEffect == \A t \in Threads : t \in stopAsked ~> pc[t] = "dead"
=============================================================================
