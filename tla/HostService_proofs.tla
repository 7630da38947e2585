------------------------- MODULE HostService_proofs -------------------------
(***************************************************************************)
(* A stop leaves nothing behind and a start that succeeds has a host that  *)
(* listens, as long as every stop waits for its thread: however often the  *)
(* tray starts and stops the host, wherever a startup fails and whatever   *)
(* the phones do meanwhile.                                                *)
(***************************************************************************)
EXTENDS HostService, FiniteSetTheorems, TLAPS

\* The types the argument needs.
Fields ==
  /\ pc \in [Threads -> Stages]
  /\ cleaning \in [Threads -> 0..MaxStarts]
  /\ {thread, loop, runner, host} \subseteq 0..MaxStarts
  /\ typing \subseteq Threads /\ connected \subseteq Threads /\ listening \subseteq Threads
  /\ host = runner
  /\ loop # 0 => pc[loop] # "none"

\* A thread with phones is cleaned up by itself, after it was asked to stop.
Leaves(t) ==
  /\ t \in stopAsked
  /\ pc[t] = "shutdown" => runner = t
  /\ pc[t] = "cleanup" => cleaning[t] = t

\* Where a thread is says what its host may be doing.
ThreadInv(t) ==
  /\ Alive(t) => t = thread
  /\ Alive(t) /\ t \in stopAsked => tray = "join"
  /\ t \in listening \cup connected \cup typing =>
       pc[t] \in {"bound", "running", "shutdown", "cleanup"}
  /\ pc[t] \in {"binding", "bound", "running"} => host = t
  /\ pc[t] \in {"shutdown", "cleanup"} /\ t \in listening \cup connected \cup typing =>
       Leaves(t)
  /\ pc[t] = "cleanup" /\ host = t => cleaning[t] = t
  /\ pc[t] = "dead" /\ host = t => t \in closed
  /\ pc[t] = "none" => t \notin stopAsked

\* As long as no stop has given up waiting, every thread is where it should.
ServiceInv ==
  /\ Fields /\ NoneForgotten
  /\ abandoned = {} => \A t \in Threads : ThreadInv(t)

LEMMA InitInv == Init => ServiceInv
BY ServiceAssumption
   DEF Init, ServiceInv, Fields, NoneForgotten, ThreadInv, Alive, Threads, Stages

LEMMA TrayKeeps == ServiceInv /\ TrayStep => ServiceInv'
<1> SUFFICES ASSUME ServiceInv, TrayStep
             PROVE  ServiceInv'
  OBVIOUS
<1> USE DEF ServiceInv, Fields, NoneForgotten, ThreadInv, Leaves, Alive, Stages, serving
<1>1. CASE Start
  BY <1>1 DEF Start, Goto, IsRunning, Threads
<1>2. CASE StartReturns
  BY <1>2 DEF StartReturns, fields
<1>3. CASE AskStop
  BY <1>3 DEF AskStop, IsRunning, fields, Threads
<1>4. CASE StopReturns
  <2>1. abandoned' = {} => abandoned = {} /\ \A t \in Threads : ~Alive(t)
    BY <1>4 DEF StopReturns
  <2>2. Fields' /\ NoneForgotten'
    BY <1>4, ServiceAssumption DEF StopReturns, Forget, Threads
  <2>3. ASSUME abandoned' = {}, NEW t \in Threads
        PROVE  ThreadInv(t)'
    BY <1>4, <2>1, <2>3 DEF StopReturns, Forget, Threads
  <2> QED
    BY <2>2, <2>3
<1> QED
  BY <1>1, <1>2, <1>3, <1>4 DEF TrayStep

LEMMA ThreadKeeps ==
  ASSUME ServiceInv, NEW t \in Threads, ThreadStep(t)
  PROVE  ServiceInv'
<1> USE DEF ServiceInv, Fields, NoneForgotten, ThreadInv, Leaves, Alive, Stages,
            serving, fields, Goto
<1>1. CASE NewLoop(t)
  BY <1>1 DEF NewLoop, Threads
<1>2. CASE BuildApp(t)
  BY <1>2 DEF BuildApp, Threads
<1>3. CASE BuildFails(t) \/ BindFails(t)
  <2>1. /\ pc[t] \in {"startup", "binding"} /\ pc' = [pc EXCEPT ![t] = "shutdown"]
        /\ UNCHANGED <<stopAsked, cleaning, listening, connected, typing, closed,
                       thread, loop, runner, host, tray, abandoned>>
    BY <1>3 DEF BuildFails, BindFails, StartupFails
  <2>2. Fields' /\ NoneForgotten'
    BY <2>1
  <2>3. ASSUME abandoned' = {}, NEW u \in Threads
        PROVE  ThreadInv(u)'
    BY <2>1, <2>3
  <2> QED
    BY <2>2, <2>3
<1>4. CASE Bind(t)
  BY <1>4 DEF Bind
<1>5. CASE AnnounceStarted(t)
  BY <1>5 DEF AnnounceStarted
<1>6. CASE LoopStops(t)
  BY <1>6 DEF LoopStops
<1>7. CASE BeginCleanup(t)
  BY <1>7 DEF BeginCleanup
<1>8. CASE EndCleanup(t)
  <2>1. Fields' /\ NoneForgotten'
    BY <1>8 DEF EndCleanup
  <2>2. ASSUME abandoned' = {}
        PROVE  ThreadInv(t)'
    <3>1. t \in connected \cup typing => cleaning[t] = t /\ Joined(t)
      BY <1>8, <2>2 DEF EndCleanup, Joined
    <3>2. t \notin typing
      BY <1>8, <3>1 DEF EndCleanup
    <3>3. host' = t => t \in closed'
      BY <1>8, <2>2 DEF EndCleanup, Threads
    <3> QED
      BY <1>8, <2>2, <3>2, <3>3 DEF EndCleanup
  <2>3. ASSUME abandoned' = {}, NEW u \in Threads \ {t}
        PROVE  ThreadInv(u)'
    BY <1>8, <2>3 DEF EndCleanup
  <2> QED
    BY <1>8, <2>1, <2>2, <2>3 DEF EndCleanup
<1> QED
  BY <1>1, <1>2, <1>3, <1>4, <1>5, <1>6, <1>7, <1>8 DEF ThreadStep

LEMMA PhoneKeeps ==
  ASSUME ServiceInv, NEW t \in Threads, PhoneStep(t)
  PROVE  ServiceInv'
BY DEF PhoneStep, Connect, Disconnect, StartTyping, FinishTyping, LoopRuns, fields,
       ServiceInv, Fields, NoneForgotten, ThreadInv, Leaves, Alive, Stages

LEMMA NextInv == ServiceInv /\ [Next]_vars => ServiceInv'
<1>1. ServiceInv /\ UNCHANGED vars => ServiceInv'
  BY DEF vars, serving, fields, ServiceInv, Fields, NoneForgotten, ThreadInv, Leaves, Alive
<1> QED
  BY <1>1, TrayKeeps, ThreadKeeps, PhoneKeeps DEF Next

\* After every stop that waited for its thread (HostService.stop, _shutdown),
\* is_running tells the truth, at most one worker types, and no host is open.
THEOREM StopsCleanly == Spec => []StopIsClean
<1>1. ServiceInv => StopIsClean
  <2> SUFFICES ASSUME ServiceInv
               PROVE  StopIsClean
    OBVIOUS
  <2>1. OneTypist
    <3> SUFFICES ASSUME abandoned = {}
                 PROVE  Cardinality(typing) <= 1
      BY DEF OneTypist
    <3>1. typing \subseteq {thread}
      BY DEF ServiceInv, Fields, ThreadInv, Alive
    <3>2. IsFiniteSet({thread}) /\ Cardinality({thread}) = 1
      BY FS_Singleton
    <3> QED
      BY <3>1, <3>2, FS_Subset
  <2>2. EndedIsClosed
    BY DEF EndedIsClosed, ServiceInv, ThreadInv
  <2> QED
    BY <2>1, <2>2 DEF StopIsClean, ServiceInv
<1> QED
  BY InitInv, NextInv, <1>1, PTL DEF Spec

-----------------------------------------------------------------------------
(* A start that reports success: the event it waited for was set by its    *)
(* own thread, which is therefore still running, and listens.              *)

StartInv ==
  abandoned = {} =>
    /\ tray = "start" => thread \in Threads
    /\ \A t \in Threads : pc[t] \in {"bound", "running"} => t \in listening
    /\ tray = "start" /\ started /\ ~startError => pc[thread] = "running"

LEMMA StartNext ==
  ServiceInv /\ StartInv /\ [Next]_vars => StartInv'
<1> SUFFICES ASSUME ServiceInv, StartInv, [Next]_vars, abandoned' = {}
             PROVE  StartInv'
  BY DEF StartInv
<1>1. /\ abandoned = {} /\ pc \in [Threads -> Stages]
      /\ \A t \in Threads : /\ Alive(t) => t = thread
                            /\ Alive(t) /\ t \in stopAsked => tray = "join"
  <2>1. abandoned = {}
    BY DEF Next, TrayStep, Start, StartReturns, AskStop, StopReturns, ThreadStep,
           NewLoop, BuildApp, BuildFails, BindFails, StartupFails, Bind,
           AnnounceStarted, LoopStops, BeginCleanup, EndCleanup, PhoneStep,
           Connect, Disconnect, StartTyping, FinishTyping, vars
  <2> QED
    BY <2>1 DEF ServiceInv, Fields, ThreadInv
<1> USE DEF StartInv, Alive, fields, serving, Goto
<1>2. CASE TrayStep
  BY <1>1, <1>2 DEF TrayStep, Start, StartReturns, AskStop, StopReturns, Forget, Stages
<1>3. ASSUME NEW t \in Threads, ThreadStep(t)
      PROVE  StartInv'
  <2>1. CASE NewLoop(t) \/ BuildApp(t)
    BY <1>1, <2>1 DEF NewLoop, BuildApp
  <2>2. CASE BuildFails(t) \/ BindFails(t)
    BY <1>1, <2>2 DEF BuildFails, BindFails, StartupFails
  <2>3. CASE Bind(t)
    BY <1>1, <2>3 DEF Bind
  <2>4. CASE AnnounceStarted(t)
    BY <1>1, <2>4 DEF AnnounceStarted
  <2>5. CASE LoopStops(t)
    BY <1>1, <2>5 DEF LoopStops
  <2>6. CASE BeginCleanup(t)
    BY <1>1, <2>6 DEF BeginCleanup
  <2>7. CASE EndCleanup(t)
    BY <1>1, <2>7 DEF EndCleanup
  <2> QED
    BY <1>3, <2>1, <2>2, <2>3, <2>4, <2>5, <2>6, <2>7 DEF ThreadStep
<1>4. ASSUME NEW t \in Threads, PhoneStep(t)
      PROVE  StartInv'
  BY <1>1, <1>4 DEF PhoneStep, Connect, Disconnect, StartTyping, FinishTyping
<1>5. CASE UNCHANGED vars
  BY <1>1, <1>5 DEF vars
<1> QED
  BY <1>2, <1>3, <1>4, <1>5 DEF Next

\* A start that returns without an error has its own host listening, whatever
\* an earlier thread, an earlier event or a failed startup left behind, unless
\* a stop gave up waiting for its thread (HostService.start, _thread_main).
THEOREM SuccessMeansListening == Spec => StartMeansListening
<1>1. Init => StartInv
  BY DEF Init, StartInv, Threads
<1>2. StartInv /\ [Next]_vars =>
        [/\ abandoned = {}
         /\ tray = "start" /\ tray' = "idle" /\ started /\ ~startError
         => thread \in listening]_vars
  BY DEF StartInv
<1>3. Spec => []ServiceInv
  BY InitInv, NextInv, PTL DEF Spec
<1> QED
  BY <1>1, <1>2, <1>3, StartNext, PTL DEF Spec, StartMeansListening
=============================================================================
