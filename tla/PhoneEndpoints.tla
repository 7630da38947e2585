--------------------------- MODULE PhoneEndpoints ---------------------------
(***************************************************************************)
(* MainActivity.kt and ServerEndpoint.kt: which address the phone dials    *)
(* next, and which server it takes for its own.  The phone knows addresses *)
(* by its settings, from earlier connections, from discovery and from the  *)
(* program; it pins the identity of the first server that lets it in, and  *)
(* refuses every other one until the settings name another address.        *)
(*                                                                         *)
(* PhoneDelivery has what is said on a connection and when it is given up; *)
(* here a connection goes through the handshake and may be lost.           *)
(***************************************************************************)
EXTENDS ServerIdentity, SequencesExt

CONSTANTS
  Endpoints,   \* addresses (host and port)
  Cosec,       \* those of the local network that is preferred
  Settings,    \* the addresses the user may set, DEFAULT_HOST among them
  Defaults,    \* the built-in addresses, in order
  NoEndpoint,  \* null
  NoMachine,   \* nothing answers at an address
  Networks,    \* which machine answers where, at the beginning
  MaxKnown,    \* addresses remembered (12)
  Budgets      \* bound: how often each event from outside happens

Events ==
  {"tap", "settings", "resume", "found", "lost", "drop", "reauth", "kill", "move",
   "stop", "damage"}

ASSUME EndpointsAssumption ==
  /\ Cosec \subseteq Endpoints /\ Settings \subseteq Endpoints
  /\ Defaults \in Seq(Endpoints) \ {<<>>} /\ Head(Defaults) \in Settings
  /\ NoEndpoint \notin Endpoints /\ NoMachine \notin Machines
  /\ Networks \subseteq [Endpoints -> Machines \cup {NoMachine}]
  /\ MaxKnown \in Nat \ {0}
  /\ Budgets \subseteq [Events -> Nat]

VARIABLES
  auto, bootstrap,    \* preferences: auto_select_network, connection_host and _port
  pinned,             \* preference: server_id
  last, known,        \* preferences: last_endpoint, known_endpoints
  discovered,         \* discoveredEndpoints
  resolving,          \* services found whose address is being resolved
  candidates,         \* connectionCandidates
  active,             \* activeEndpoint
  status,             \* "down", "dialing", "hello", "auth" or "authed"
  peer,               \* the server at the other end, by the identity it has
  connectedId,        \* connectedServerId
  wanted,             \* shouldReconnect
  graceUsed,          \* autoDiscoveryGraceUsed
  timer,              \* reconnectRunnable is scheduled
  lambdas,            \* connectInternal lambdas posted; nothing removes them
  at,                 \* the machine that answers at each address
  left,               \* events from outside that may still happen
  dialled,            \* history: address and settings of the current connection
  proved,             \* history: where which server let the phone in
  late                \* history: addresses discovery brought with auto off

history == <<proved, late>>
prefs == <<auto, bootstrap, pinned, last, known>>
discovery == <<discovered, resolving>>
choice == <<candidates, graceUsed>>
link == <<active, status, peer, connectedId, dialled>>
timers == <<timer, lambdas>>
vars == <<prefs, discovery, choice, link, wanted, timers, at, left, history, identityVars>>

Open == {"hello", "auth", "authed"}
Maybe(e) == e \in Endpoints \cup {NoEndpoint}
NoDial == [at |-> NoEndpoint, set |-> NoEndpoint]

TypeOK ==
  /\ IdentityTypeOK
  /\ auto \in BOOLEAN /\ bootstrap \in Settings
  /\ pinned \in Ids \cup {NoId} /\ connectedId \in Ids \cup {NoId}
  /\ last \in Seq(Endpoints) /\ known \in Seq(Endpoints)
  /\ \A s \in {last, known, discovered, candidates} :
       s \in Seq(Endpoints) /\ IsInjective(s)
  /\ Len(last) <= 1 /\ Len(known) <= MaxKnown
  /\ resolving \subseteq Endpoints
  /\ Maybe(active) /\ Maybe(dialled.at) /\ Maybe(dialled.set)
  /\ status \in Open \cup {"down", "dialing"}
  /\ peer \in Ids \cup {NoId} /\ (peer # NoId <=> status \in Open)
  /\ {wanted, graceUsed, timer} \subseteq BOOLEAN /\ lambdas \in Nat
  /\ at \in [Endpoints -> Machines \cup {NoMachine}]
  /\ left \in [Events -> Nat]
  /\ late \subseteq Endpoints

Init ==
  /\ IdentityInit
  /\ auto = TRUE /\ bootstrap = Head(Defaults)
  /\ pinned = NoId /\ last = <<>> /\ known = <<>>
  /\ discovered = <<>> /\ resolving = {} /\ candidates = <<>>
  /\ active = NoEndpoint /\ status = "down" /\ peer = NoId /\ connectedId = NoId
  /\ wanted = FALSE /\ graceUsed = FALSE /\ timer = FALSE /\ lambdas = 0
  /\ at \in Networks
  /\ left \in Budgets
  /\ dialled = NoDial /\ proved = {} /\ late = {}

Happens(event) == left[event] > 0 /\ left' = [left EXCEPT ![event] = @ - 1]

-----------------------------------------------------------------------------
\* Faulty variant: equal addresses of different sources are all kept.
AllOf(s) == s

\* The elements of a list at some positions, in their order.
Kept(s, positions) ==
  [i \in 1..Cardinality(positions) |->
     s[CHOOSE j \in positions : Cardinality({k \in positions : k <= j}) = i]]

\* distinctBy { it.key } keeps the first of equal addresses.
Distinct(s) == Kept(s, {i \in DOMAIN s : \A j \in 1..i - 1 : s[j] # s[i]})

\* An address is put into a list once.
AddFirst(s, e) == IF Contains(s, e) THEN s ELSE <<e>> \o s
AddLast(s, e) == IF Contains(s, e) THEN s ELSE Append(s, e)

\* buildConnectionCandidates
Built ==
  IF ~auto THEN <<bootstrap>>
  ELSE Distinct(discovered \o last \o <<bootstrap>> \o known \o Defaults)

\* The end of connectInternal: the first of the candidates is dialled.
Dial(list) ==
  /\ candidates' = Tail(list)
  /\ active' = Head(list) /\ status' = "dialing"
  /\ dialled' = [at |-> Head(list), set |-> bootstrap]
  /\ UNCHANGED <<peer, connectedId>>

\* connectInternal, with its candidates, the grace and the posted lambdas as
\* the caller leaves them.  It waits for discovery once, if there is nothing
\* discovered yet; the discovery listener exists exactly if auto is on.
ConnectInternal(list, grace, posted) ==
  IF status # "down"
  THEN /\ candidates' = list /\ graceUsed' = grace /\ lambdas' = posted
       /\ UNCHANGED link
  ELSE IF auto /\ ~grace /\ discovered = <<>>
  THEN /\ candidates' = list /\ graceUsed' = TRUE /\ lambdas' = posted + 1
       /\ UNCHANGED link
  ELSE /\ Dial(IF list = <<>> THEN Built ELSE list)
       /\ graceUsed' = grace /\ lambdas' = posted

\* Faulty variant: the next candidate waits for somebody to ask for it.
TryNextLater(list, pending) ==
  /\ status' = "down" /\ peer' = NoId /\ connectedId' = NoId
  /\ candidates' = list
  /\ IF wanted /\ list = <<>>
     THEN graceUsed' = FALSE /\ timer' = TRUE
     ELSE timer' = pending /\ UNCHANGED graceUsed
  /\ UNCHANGED <<active, dialled, lambdas>>

\* tryNextCandidateOrSchedule, with onDisconnected.
TryNext(list, pending) ==
  /\ status' = "down" /\ peer' = NoId /\ connectedId' = NoId
  /\ candidates' = list
  /\ \/ ~wanted /\ timer' = pending /\ UNCHANGED <<lambdas, graceUsed>>
     \/ /\ wanted /\ list # <<>>
        /\ timer' = pending /\ lambdas' = lambdas + 1 /\ UNCHANGED graceUsed
     \/ /\ wanted /\ list = <<>>
        /\ timer' = TRUE /\ graceUsed' = FALSE /\ UNCHANGED lambdas
  /\ UNCHANGED <<active, dialled>>

RestartConnection(list) == TryNext(list, FALSE)

-----------------------------------------------------------------------------
\* The user.

\* The button of a phone that is not connected.
TapConnect ==
  /\ status \notin Open
  /\ Happens("tap")
  /\ wanted' = TRUE
  /\ ConnectInternal(<<>>, FALSE, lambdas)
  /\ UNCHANGED <<prefs, discovery, timer, at, history, identityVars>>

\* disconnectManual
TapDisconnect ==
  /\ status \in Open
  /\ Happens("tap")
  /\ wanted' = FALSE /\ timer' = FALSE
  /\ candidates' = <<>> /\ graceUsed' = FALSE
  /\ active' = NoEndpoint /\ status' = "down" /\ peer' = NoId /\ connectedId' = NoId
  /\ UNCHANGED <<prefs, discovery, lambdas, dialled, at, history, identityVars>>

\* Faulty variant: the address in use is not forgotten with the server.
ForgetServerOnly ==
  /\ pinned' = NoId /\ last' = <<>> /\ known' = <<>> /\ connectedId' = NoId
  /\ UNCHANGED active

\* Another bootstrap address means another server.
ForgetServer ==
  /\ pinned' = NoId /\ last' = <<>> /\ known' = <<>> /\ connectedId' = NoId
  /\ active' = NoEndpoint

\* Faulty variant: candidates of the old settings are kept.
ResetChoiceNot == UNCHANGED choice

ResetChoice == candidates' = <<>> /\ graceUsed' = FALSE

\* The settings dialog; the connection stays as it is.
SaveSettings ==
  /\ Happens("settings")
  /\ bootstrap' \in Settings /\ auto' \in BOOLEAN
  /\ IF bootstrap' # bootstrap THEN ForgetServer
     ELSE UNCHANGED <<pinned, last, known, connectedId, active>>
  /\ ResetChoice
  /\ discovered' = IF auto' THEN discovered ELSE <<>>
  /\ UNCHANGED <<resolving, status, peer, dialled, wanted, timers, at, history,
                 identityVars>>

\* onResume of a phone that is not connected; with a connection that has died
\* it is a drop.
Resume ==
  /\ wanted /\ status = "down"
  /\ Happens("resume")
  /\ timer' = TRUE
  /\ UNCHANGED <<prefs, discovery, choice, link, wanted, lambdas, at, history,
                 identityVars>>

\* The process dies, or the Activity is destroyed, and is started again.
Kill ==
  /\ Happens("kill")
  /\ candidates' = <<>> /\ graceUsed' = FALSE /\ discovered' = <<>> /\ resolving' = {}
  /\ active' = NoEndpoint /\ status' = "down" /\ peer' = NoId /\ connectedId' = NoId
  /\ wanted' = FALSE /\ timer' = FALSE /\ lambdas' = 0
  /\ UNCHANGED <<prefs, dialled, at, history, identityVars>>

-----------------------------------------------------------------------------
\* Timers.
ReconnectTimer ==
  /\ timer
  /\ timer' = FALSE
  /\ IF wanted THEN ConnectInternal(candidates, graceUsed, lambdas)
     ELSE UNCHANGED <<choice, link, lambdas>>
  /\ UNCHANGED <<prefs, discovery, wanted, at, left, history, identityVars>>

\* A lambda asks nothing but whether there is a connection.
PostedConnect ==
  /\ lambdas > 0
  /\ ConnectInternal(candidates, graceUsed, lambdas - 1)
  /\ UNCHANGED <<prefs, discovery, wanted, timer, at, left, history, identityVars>>

-----------------------------------------------------------------------------
\* Discovery.  A service is found, and its address resolved some time later,
\* when discovery may have been stopped.
ServiceFound(e) ==
  /\ auto /\ e \notin resolving
  /\ Happens("found")
  /\ resolving' = resolving \cup {e}
  /\ UNCHANGED <<prefs, discovered, choice, link, wanted, timers, at, history,
                 identityVars>>

ServiceLost(e) ==
  /\ Contains(discovered, e)
  /\ Happens("lost")
  /\ discovered' = Kept(discovered, {i \in DOMAIN discovered : discovered[i] # e})
  /\ UNCHANGED <<prefs, resolving, choice, link, wanted, timers, at, history,
                 identityVars>>

\* ServerEndpointSelector.shouldSwitchToDiscovered
ShouldSwitch(e) ==
  /\ status # "down" /\ active # NoEndpoint
  /\ e \in Cosec /\ active \notin Cosec

\* onServiceResolved and enqueueDiscoveredEndpoint.
ServiceResolved(e) ==
  /\ e \in resolving
  /\ resolving' = resolving \ {e}
  /\ discovered' = AddLast(discovered, e)
  /\ LET list == AddFirst(candidates, e)
     IN \/ /\ active = e
           /\ UNCHANGED <<choice, link, timers>>
        \/ /\ active # e /\ ShouldSwitch(e)
           /\ RestartConnection(AddLast(list, active))
        \/ /\ active # e /\ ~ShouldSwitch(e) /\ wanted /\ status = "down"
           /\ Dial(list) /\ UNCHANGED <<graceUsed, timers>>
        \/ /\ active # e /\ ~ShouldSwitch(e) /\ ~(wanted /\ status = "down")
           /\ candidates' = list /\ UNCHANGED <<graceUsed, link, timers>>
  /\ late' = IF auto THEN late ELSE late \cup ({e, active} \ {NoEndpoint})
  /\ UNCHANGED <<prefs, wanted, at, left, proved, identityVars>>

-----------------------------------------------------------------------------
\* The connection.
Answers(e) == at[e] # NoMachine /\ Running(at[e])
PeerThere == peer # NoId /\ \E m \in Machines : serverId[m] = peer

\* onOpen: hello is sent.
Opened ==
  /\ status = "dialing" /\ Answers(dialled.at)
  /\ status' = "hello" /\ peer' = serverId[at[dialled.at]]
  /\ UNCHANGED <<prefs, discovery, choice, active, connectedId, dialled, wanted,
                 timers, at, left, history, identityVars>>

\* onFailure and onClosed, when nobody answers or the host is gone.
Refused ==
  /\ \/ status = "dialing" /\ ~Answers(dialled.at)
     \/ status \in Open /\ ~PeerThere
  /\ TryNext(candidates, timer)
  /\ UNCHANGED <<prefs, discovery, wanted, at, left, history, identityVars>>

\* The connection is lost, or the phone gives it up.
Drop ==
  /\ status # "down"
  /\ Happens("drop")
  /\ TryNext(candidates, timer) \/ RestartConnection(candidates)
  /\ UNCHANGED <<prefs, discovery, wanted, at, history, identityVars>>

\* Faulty variant: every server that has an identity will do.
AnyServer(id) == TRUE

\* The server is the one that is pinned, if one is.
Expected(id) == pinned = NoId \/ pinned = id

\* hello_ok
HelloOk ==
  /\ status = "hello" /\ PeerThere
  /\ Tell(peer)
  /\ IF Expected(peer)
     THEN /\ connectedId' = peer /\ status' = "auth"
          /\ UNCHANGED <<choice, active, peer, dialled, timers>>
     ELSE RestartConnection(candidates)
  /\ UNCHANGED <<prefs, discovery, wanted, at, left, history>>

\* rememberSuccessfulEndpoint
Remember ==
  IF active = NoEndpoint \/ connectedId = NoId THEN UNCHANGED <<pinned, last, known>>
  ELSE LET all == AddLast(known, active)
       IN /\ pinned' = connectedId
          /\ last' = <<active>>
          /\ known' = IF Len(all) > MaxKnown THEN Tail(all) ELSE all

\* auth_ok
AuthOk ==
  /\ status = "auth" /\ PeerThere
  /\ status' = "authed"
  /\ Remember
  /\ candidates' = <<>>
  /\ proved' = proved \cup {[id |-> peer, at |-> dialled.at, set |-> dialled.set]}
  /\ UNCHANGED late
  /\ UNCHANGED <<auto, bootstrap, discovery, graceUsed, active, peer, connectedId,
                 dialled, wanted, timers, at, left, identityVars>>

\* recoverSession: hello again on the same connection.
Reauth ==
  /\ status = "authed" /\ PeerThere
  /\ Happens("reauth")
  /\ status' = "hello"
  /\ UNCHANGED <<prefs, discovery, choice, active, peer, connectedId, dialled, wanted,
                 timers, at, history, identityVars>>

-----------------------------------------------------------------------------
\* The machines and the network.
HostStep(m) ==
  /\ \/ StartHost(m) /\ UNCHANGED left
     \/ StopHost(m) /\ Happens("stop")
     \/ DamageFile(m) /\ Happens("damage")
  /\ UNCHANGED <<prefs, discovery, choice, link, wanted, timers, at, history>>

\* An address goes to another machine, or to none.
Move(e) ==
  /\ Happens("move")
  /\ at' \in {[at EXCEPT ![e] = m] : m \in (Machines \cup {NoMachine}) \ {at[e]}}
  /\ UNCHANGED <<prefs, discovery, choice, link, wanted, timers, history, identityVars>>

-----------------------------------------------------------------------------
Handshake == Opened \/ Refused \/ HelloOk \/ AuthOk

Next ==
  \/ TapConnect \/ TapDisconnect \/ SaveSettings \/ Resume \/ Kill
  \/ ReconnectTimer \/ PostedConnect
  \/ \E e \in Endpoints :
       ServiceFound(e) \/ ServiceLost(e) \/ ServiceResolved(e) \/ Move(e)
  \/ Handshake \/ Drop \/ Reauth
  \/ \E m \in Machines : HostStep(m)

Spec == Init /\ [][Next]_vars

\* Timers expire, and a dial and each part of the handshake have an outcome.
FairSpec ==
  /\ Spec
  /\ WF_vars(ReconnectTimer) /\ WF_vars(PostedConnect) /\ WF_vars(Handshake)

-----------------------------------------------------------------------------
\* Text goes only to the server that is pinned.  The exception is a connection
\* that was dialled before the user set another address: it is used to its
\* end, but pins nothing.
OnlyThePinnedServer ==
  status = "authed" => peer = pinned \/ (active = NoEndpoint /\ pinned = NoId)

\* What the phone remembers, it has seen itself: at every address it takes for
\* one of its server, the pinned server has let it in, on a connection dialled
\* under the settings of now.
RememberedIsProved ==
  \A e \in ToSet(last) \cup ToSet(known) :
    [id |-> pinned, at |-> e, set |-> bootstrap] \in proved

PinnedServer == OnlyThePinnedServer /\ RememberedIsProved

\* With automatic selection off only the address that is set waits to be
\* dialled: what was known or discovered before is forgotten.  The exception
\* is a discovery still under way, and the address it interrupts.
ManualMeansBootstrap ==
  ~auto => ToSet(candidates) \subseteq {bootstrap} \cup late

\* A phone that is to be connected gets connected, again and again, if one of
\* the addresses it knows leads to its server and goes on doing so.
GoodRoute(e) ==
  /\ Answers(e)
  /\ pinned \in {NoId, serverId[at[e]]}
Reached ==
  <>[](wanted /\ \E e \in ToSet(Built) : GoodRoute(e)) => []<>(status = "authed")
=============================================================================
