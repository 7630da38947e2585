----------------------- MODULE PhoneEndpoints_proofs -----------------------
(***************************************************************************)
(* Text goes only to the pinned server, the addresses remembered are its   *)
(* own, a machine keeps the identity it told, and manual selection dials   *)
(* the address that is set: for any machines, addresses and settings, and  *)
(* any number of the events from outside.                                  *)
(***************************************************************************)
EXTENDS PhoneEndpoints, FiniteSetTheorems, SequenceTheorems,
        WellFoundedInduction, TLAPS

-----------------------------------------------------------------------------
(* The identity of a machine.                                              *)

\* An identity, on file or in use, is one its machine has made; and a host
\* that runs has the one on file, unless the file was damaged under it.
IdentityInv ==
  /\ IdentityTypeOK /\ NoId \notin told /\ ToldIsOnFile
  /\ \A m \in Machines :
       /\ idFile[m] # NoId => idFile[m].machine = m
       /\ Running(m) => serverId[m].machine = m
       /\ Running(m) => m \in damaged \/ idFile[m] = serverId[m]

LEMMA IdentityInitially == Init => IdentityInv
BY DEF Init, IdentityInit, IdentityInv, IdentityTypeOK, ToldIsOnFile, Running

LEMMA StartHostKeeps ==
  ASSUME IdentityInv, NEW m \in Machines, StartHost(m)
  PROVE  IdentityInv'
<1>1. CASE idFile[m] # NoId
  BY <1>1 DEF StartHost, IdentityInv, IdentityTypeOK, ToldIsOnFile, Running
<1>2. CASE idFile[m] = NoId
  <2> DEFINE id == [machine |-> m, number |-> made[m] + 1]
  <2>1. /\ id \in Ids /\ id.machine = m
        /\ made' \in [Machines -> Nat]
    BY <1>2 DEF StartHost, IdentityInv, IdentityTypeOK, Ids
  <2>2. /\ serverId' = [serverId EXCEPT ![m] = id]
        /\ idFile' = [idFile EXCEPT ![m] = id]
        /\ UNCHANGED <<told, damaged>>
    BY <1>2 DEF StartHost, Filed
  <2> HIDE DEF id
  <2> QED
    BY <1>2, <2>1, <2>2 DEF IdentityInv, IdentityTypeOK, ToldIsOnFile, Running
<1> QED
  BY <1>1, <1>2

LEMMA HostStepKeeps ==
  ASSUME IdentityInv, NEW m \in Machines, HostStep(m)
  PROVE  IdentityInv'
<1>1. CASE StopHost(m)
  BY <1>1 DEF StopHost, IdentityInv, IdentityTypeOK, ToldIsOnFile, Running
<1>2. CASE DamageFile(m)
  BY <1>2 DEF DamageFile, IdentityInv, IdentityTypeOK, ToldIsOnFile, Running
<1> QED
  BY <1>1, <1>2, StartHostKeeps DEF HostStep

LEMMA TellKeeps ==
  ASSUME IdentityInv, PeerThere, Tell(peer)
  PROVE  IdentityInv'
<1>1. PICK m \in Machines : serverId[m] = peer /\ Running(m)
  BY DEF PeerThere, Running
<1> QED
  BY <1>1 DEF PeerThere, Tell, IdentityInv, IdentityTypeOK, ToldIsOnFile, Running

LEMMA IdentityStep == IdentityInv /\ [Next]_vars => IdentityInv'
<1> SUFFICES ASSUME IdentityInv, [Next]_vars
             PROVE  IdentityInv'
  OBVIOUS
<1>1. CASE UNCHANGED identityVars
  BY <1>1 DEF identityVars, IdentityInv, IdentityTypeOK, ToldIsOnFile, Running
<1>2. CASE HelloOk
  BY <1>2, TellKeeps DEF HelloOk
<1>3. ASSUME NEW m \in Machines, HostStep(m)
      PROVE  IdentityInv'
  BY <1>3, HostStepKeeps
<1>4. CASE \E e \in Endpoints :
        ServiceFound(e) \/ ServiceLost(e) \/ ServiceResolved(e) \/ Move(e)
  BY <1>1, <1>4 DEF ServiceFound, ServiceLost, ServiceResolved, Move
<1>5. CASE Opened \/ Refused \/ AuthOk \/ Drop \/ Reauth
  BY <1>1, <1>5 DEF Opened, Refused, AuthOk, Drop, Reauth
<1>6. CASE \/ TapConnect \/ TapDisconnect \/ SaveSettings \/ Resume \/ Kill
           \/ ReconnectTimer \/ PostedConnect
  BY <1>1, <1>6 DEF TapConnect, TapDisconnect, SaveSettings, Resume, Kill,
                    ReconnectTimer, PostedConnect
<1>7. CASE UNCHANGED vars
  BY <1>1, <1>7 DEF vars
<1> QED
  BY <1>2, <1>3, <1>4, <1>5, <1>6, <1>7 DEF Next, Handshake

\* What a phone was told once, every later host of the machine tells again
\* (load_or_create_server_id): whenever hosts stop, and in whatever order the
\* file is read, damaged and replaced.
THEOREM IdentityIsKept == Spec => []ToldIsOnFile
<1>1. IdentityInv => ToldIsOnFile
  BY DEF IdentityInv
<1> QED
  BY IdentityInitially, IdentityStep, <1>1, PTL DEF Spec

-----------------------------------------------------------------------------
(* Lists of addresses.                                                     *)

LEMMA AddFirstSeq ==
  ASSUME NEW S, NEW s \in Seq(S), NEW e \in S
  PROVE  AddFirst(s, e) \in Seq(S) /\ AddFirst(s, e) # <<>>
<1>1. CASE Contains(s, e)
  BY <1>1, EmptySeq DEF AddFirst, Contains
<1>2. CASE ~Contains(s, e)
  <2>1. <<e>> \in Seq(S) /\ Len(<<e>>) = 1
    OBVIOUS
  <2>2. <<e>> \o s \in Seq(S) /\ Len(<<e>> \o s) = 1 + Len(s) /\ Len(s) \in Nat
    BY <2>1, ConcatProperties, LenProperties
  <2> QED
    BY <1>2, <2>2, EmptySeq DEF AddFirst
<1> QED
  BY <1>1, <1>2

LEMMA AddLastSeq ==
  ASSUME NEW S, NEW s \in Seq(S), NEW e \in S
  PROVE  AddLast(s, e) \in Seq(S)
BY AppendProperties DEF AddLast

-----------------------------------------------------------------------------
(* The server that is pinned.                                              *)

\* The addresses where the pinned server let the phone in under the settings
\* of now.
ProvedAt ==
  {e \in {r.at : r \in proved} : [id |-> pinned, at |-> e, set |-> bootstrap] \in proved}

\* The address in use is forgotten with the settings it was dialled under, and
\* connectedServerId with it.
ServerInv ==
  /\ status \in Open => peer # NoId
  /\ status # "down" /\ active # NoEndpoint =>
       active = dialled.at /\ dialled.set = bootstrap
  /\ status \in {"auth", "authed"} /\ active # NoEndpoint => connectedId = peer
  /\ status = "auth" => pinned \in {NoId, peer}
  /\ OnlyThePinnedServer
  /\ pinned = NoId => last = <<>> /\ known = <<>>
  /\ last \in Seq(ProvedAt) /\ known \in Seq(ProvedAt)

LEMMA ServerInitially == Init => ServerInv
BY EmptySeq DEF Init, Open, ServerInv, OnlyThePinnedServer

\* What happens to the connection where nothing is learnt about the server.
LinkMoves ==
  \/ UNCHANGED link
  \/ status' = "down"
  \/ status' = "dialing" /\ active' = dialled'.at /\ dialled'.set = bootstrap

LEMMA LinkMovesKeeps ==
  ASSUME ServerInv, LinkMoves, UNCHANGED prefs, UNCHANGED proved
  PROVE  ServerInv'
<1>1. ProvedAt' = ProvedAt
  BY DEF ProvedAt, prefs
<1> QED
  BY <1>1 DEF LinkMoves, ServerInv, OnlyThePinnedServer, link, prefs, Open

LEMMA ConnectInternalMoves ==
  ASSUME NEW list, NEW grace, NEW posted, ConnectInternal(list, grace, posted)
  PROVE  LinkMoves
BY DEF ConnectInternal, Dial, LinkMoves

LEMMA ServiceResolvedMoves ==
  ASSUME NEW e, ServiceResolved(e)
  PROVE  LinkMoves
<1>1. ASSUME NEW list, Dial(list)
      PROVE  LinkMoves
  BY <1>1 DEF Dial, LinkMoves
<1>2. ASSUME NEW list, RestartConnection(list)
      PROVE  LinkMoves
  BY <1>2 DEF RestartConnection, TryNext, LinkMoves
<1>3. UNCHANGED link => LinkMoves
  BY DEF LinkMoves
<1> QED
  BY <1>1, <1>2, <1>3 DEF ServiceResolved

LEMMA SaveSettingsKeeps == ServerInv /\ SaveSettings => ServerInv'
<1> SUFFICES ASSUME ServerInv, SaveSettings
             PROVE  ServerInv'
  OBVIOUS
<1>1. CASE bootstrap' # bootstrap
  BY <1>1, EmptySeq
     DEF SaveSettings, ForgetServer, ServerInv, OnlyThePinnedServer, Open
<1>2. CASE bootstrap' = bootstrap
  <2>1. ProvedAt' = ProvedAt
    BY <1>2 DEF SaveSettings, ProvedAt, history
  <2> QED
    BY <1>2, <2>1 DEF SaveSettings, ServerInv, OnlyThePinnedServer, Open
<1> QED
  BY <1>1, <1>2

LEMMA HelloOkKeeps == ServerInv /\ HelloOk => ServerInv'
<1> SUFFICES ASSUME ServerInv, HelloOk
             PROVE  ServerInv'
  OBVIOUS
<1>1. CASE Expected(peer)
  <2>1. ProvedAt' = ProvedAt
    BY DEF HelloOk, ProvedAt, prefs, history
  <2> QED
    BY <1>1, <2>1
       DEF HelloOk, Expected, ServerInv, OnlyThePinnedServer, Open, prefs
<1>2. CASE ~Expected(peer)
  BY <1>2, LinkMovesKeeps
     DEF HelloOk, RestartConnection, TryNext, LinkMoves, history
<1> QED
  BY <1>1, <1>2

\* Only here is anything remembered.
LEMMA AuthOkKeeps == ServerInv /\ AuthOk => ServerInv'
<1> SUFFICES ASSUME ServerInv, AuthOk
             PROVE  ServerInv'
  OBVIOUS
<1> DEFINE now == [id |-> peer, at |-> dialled.at, set |-> dialled.set]
<1>1. /\ status = "auth" /\ peer # NoId /\ pinned \in {NoId, peer}
      /\ status' = "authed" /\ proved' = proved \cup {now}
      /\ UNCHANGED <<bootstrap, active, peer, connectedId, dialled>>
  BY DEF AuthOk, ServerInv, Open
<1>2. CASE UNCHANGED <<pinned, last, known>> /\ active = NoEndpoint
  <2>1. ProvedAt \subseteq ProvedAt'
    BY <1>1, <1>2 DEF ProvedAt
  <2>2. last' \in Seq(ProvedAt') /\ known' \in Seq(ProvedAt')
    BY <1>2, <2>1, SeqMonotonic DEF ServerInv
  <2> QED
    BY <1>1, <1>2, <2>2 DEF ServerInv, OnlyThePinnedServer, Open
<1>3. CASE active # NoEndpoint
  <2>1. active = dialled.at /\ dialled.set = bootstrap /\ connectedId = peer
    BY <1>1, <1>3 DEF ServerInv
  <2> DEFINE all == AddLast(known, active)
  <2>2. /\ pinned' = peer /\ last' = <<active>>
        /\ known' = IF Len(all) > MaxKnown THEN Tail(all) ELSE all
    BY <1>1, <1>3, <2>1 DEF AuthOk, Remember
  <2>3. now = [id |-> pinned', at |-> active, set |-> bootstrap'] /\ now.at = active
    BY <1>1, <2>1, <2>2
  <2>4. active \in ProvedAt'
    BY <1>1, <2>3 DEF ProvedAt
  <2>5. known \in Seq(ProvedAt')
    <3>1. CASE pinned = NoId
      BY <3>1, EmptySeq DEF ServerInv
    <3>2. CASE pinned = peer
      <4>1. ProvedAt \subseteq ProvedAt'
        BY <1>1, <2>2, <3>2 DEF ProvedAt
      <4> QED
        BY <4>1, SeqMonotonic DEF ServerInv
    <3> QED
      BY <1>1, <3>1, <3>2
  <2>6. all \in Seq(ProvedAt') /\ (Len(all) > MaxKnown => all # <<>>)
    BY <2>4, <2>5, AddLastSeq, EmptySeq, EndpointsAssumption
  <2>7. known' \in Seq(ProvedAt')
    <3> HIDE DEF all
    <3> QED
      BY <2>2, <2>6, HeadTailProperties
  <2>8. last' \in Seq(ProvedAt')
    BY <2>2, <2>4
  <2> QED
    BY <1>1, <1>3, <2>1, <2>2, <2>7, <2>8 DEF ServerInv, OnlyThePinnedServer, Open
<1> QED
  BY <1>1, <1>2, <1>3 DEF AuthOk, Remember

LEMMA ServerStep == ServerInv /\ [Next]_vars => ServerInv'
<1> SUFFICES ASSUME ServerInv, [Next]_vars
             PROVE  ServerInv'
  OBVIOUS
<1>1. CASE LinkMoves /\ UNCHANGED prefs /\ UNCHANGED proved
  BY <1>1, LinkMovesKeeps
<1>2. CASE TapConnect \/ ReconnectTimer \/ PostedConnect
  BY <1>1, <1>2, ConnectInternalMoves
     DEF TapConnect, ReconnectTimer, PostedConnect, history, LinkMoves
<1>3. CASE TapDisconnect \/ Resume \/ Kill
  BY <1>1, <1>3 DEF TapDisconnect, Resume, Kill, history, LinkMoves
<1>4. CASE \E e \in Endpoints :
        ServiceFound(e) \/ ServiceLost(e) \/ ServiceResolved(e) \/ Move(e)
  BY <1>1, <1>4, ServiceResolvedMoves
     DEF ServiceFound, ServiceLost, ServiceResolved, Move, history, LinkMoves
<1>5. CASE Refused \/ Drop
  BY <1>1, <1>5 DEF Refused, Drop, RestartConnection, TryNext, history, LinkMoves
<1>6. CASE \E m \in Machines : HostStep(m)
  BY <1>1, <1>6 DEF HostStep, history, LinkMoves
<1>7. CASE UNCHANGED vars
  BY <1>1, <1>7 DEF vars, history, LinkMoves
<1>8. CASE Opened \/ Reauth
  <2>1. ProvedAt' = ProvedAt
    BY <1>8 DEF Opened, Reauth, ProvedAt, prefs, history
  <2> QED
    BY <1>8, <2>1 DEF Opened, Reauth, Answers, Running, PeerThere, ServerInv,
                      OnlyThePinnedServer, Open, prefs
<1> QED
  BY <1>2, <1>3, <1>4, <1>5, <1>6, <1>7, <1>8, SaveSettingsKeeps, HelloOkKeeps,
     AuthOkKeeps DEF Next, Handshake

\* The phone sends text only to the server it has pinned, and takes for its
\* server's only addresses where that server has let it in under the settings
\* of now (handleMessage "hello_ok" and "auth_ok", rememberSuccessfulEndpoint,
\* the settings dialog).
THEOREM OnlyPinned == Spec => []PinnedServer
<1>1. ServerInv => PinnedServer
  <2> SUFFICES ASSUME ServerInv
               PROVE  RememberedIsProved
    BY DEF ServerInv, PinnedServer
  <2>1. /\ ToSet(last) \subseteq ProvedAt
        /\ ToSet(known) \subseteq ProvedAt
    BY LenProperties, ElementOfSeq DEF ServerInv, ToSet
  <2> QED
    BY <2>1 DEF ProvedAt, RememberedIsProved
<1> QED
  BY ServerInitially, ServerStep, <1>1, PTL DEF Spec

-----------------------------------------------------------------------------
(* Manual selection.                                                       *)

ManualInv == ~auto => candidates \in Seq({bootstrap} \cup late)

LEMMA ManualInitially == Init => ManualInv
BY DEF Init, ManualInv

\* The candidates come from a list that manual selection allows.
LEMMA ConnectInternalManual ==
  ASSUME ~auto, NEW S, bootstrap \in S, NEW list \in Seq(S),
         NEW grace, NEW posted, ConnectInternal(list, grace, posted)
  PROVE  candidates' \in Seq(S)
<1>1. Built = <<bootstrap>> /\ Built \in Seq(S) /\ Built # <<>>
  BY DEF Built
<1>2. ASSUME NEW l \in Seq(S), l # <<>>, candidates' = Tail(l)
      PROVE  candidates' \in Seq(S)
  BY <1>2, HeadTailProperties
<1> QED
  BY <1>1, <1>2 DEF ConnectInternal, Dial

LEMMA ServiceResolvedManual ==
  ASSUME ManualInv, NEW e \in Endpoints, ServiceResolved(e)
  PROVE  ManualInv'
<1> SUFFICES ASSUME ~auto
             PROVE  candidates' \in Seq({bootstrap} \cup late')
  BY DEF ServiceResolved, prefs, ManualInv
<1> DEFINE S == {bootstrap} \cup late'
           list == AddFirst(candidates, e)
<1> SUFFICES candidates' \in Seq(S)
  OBVIOUS
<1>1. /\ late' = late \cup ({e, active} \ {NoEndpoint})
      /\ e # NoEndpoint /\ e \in S /\ (active # NoEndpoint => active \in S)
  BY EndpointsAssumption DEF ServiceResolved
<1>2. candidates \in Seq(S)
  BY <1>1, SeqMonotonic DEF ManualInv
<1>3. list \in Seq(S) /\ list # <<>>
  BY <1>1, <1>2, AddFirstSeq
<1>4. \/ candidates' \in {candidates, list, Tail(list)}
      \/ active # NoEndpoint /\ candidates' = AddLast(list, active)
  <2>1. ASSUME NEW l, RestartConnection(l)
        PROVE  candidates' = l
    BY <2>1 DEF RestartConnection, TryNext
  <2> HIDE DEF list
  <2> QED
    BY <2>1 DEF ServiceResolved, choice, ShouldSwitch, Dial, list
<1> HIDE DEF list, S
<1>5. CASE candidates' = AddLast(list, active) /\ active # NoEndpoint
  BY <1>1, <1>3, <1>5, AddLastSeq
<1>6. CASE candidates' \in {candidates, list, Tail(list)}
  BY <1>2, <1>3, <1>6, HeadTailProperties
<1> QED
  BY <1>4, <1>5, <1>6

LEMMA ManualStep == ManualInv /\ [Next]_vars => ManualInv'
<1> SUFFICES ASSUME ManualInv, [Next]_vars
             PROVE  ManualInv'
  OBVIOUS
<1>1. ASSUME UNCHANGED <<auto, bootstrap, late>>,
             candidates' = candidates \/ candidates' = <<>>
      PROVE  ManualInv'
  BY <1>1, EmptySeq DEF ManualInv
<1>2. ASSUME NEW list \in {<<>>, candidates}, NEW grace, NEW posted,
             ConnectInternal(list, grace, posted), UNCHANGED <<auto, bootstrap, late>>
      PROVE  ManualInv'
  <2> SUFFICES ASSUME ~auto
               PROVE  candidates' \in Seq({bootstrap} \cup late)
    BY <1>2 DEF ManualInv
  <2>1. list \in Seq({bootstrap} \cup late)
    BY EmptySeq DEF ManualInv
  <2> QED
    BY <1>2, <2>1, ConnectInternalManual
<1>3. CASE TapConnect \/ ReconnectTimer \/ PostedConnect
  BY <1>1, <1>2, <1>3
     DEF TapConnect, ReconnectTimer, PostedConnect, history, prefs, choice
<1>4. CASE TapDisconnect \/ Resume \/ Kill
  BY <1>1, <1>4 DEF TapDisconnect, Resume, Kill, history, prefs, choice
<1>5. CASE SaveSettings
  BY <1>5, EmptySeq DEF SaveSettings, ResetChoice, history, ManualInv
<1>6. ASSUME NEW e \in Endpoints,
             ServiceFound(e) \/ ServiceLost(e) \/ ServiceResolved(e) \/ Move(e)
      PROVE  ManualInv'
  BY <1>1, <1>6, ServiceResolvedManual
     DEF ServiceFound, ServiceLost, Move, history, prefs, choice
<1>7. CASE Opened \/ Refused \/ HelloOk \/ AuthOk \/ Drop \/ Reauth
  BY <1>1, <1>7 DEF Opened, Refused, HelloOk, AuthOk, Drop, Reauth,
                    RestartConnection, TryNext, Remember, history, prefs, choice
<1>8. CASE \E m \in Machines : HostStep(m)
  BY <1>1, <1>8 DEF HostStep, history, prefs, choice
<1>9. CASE UNCHANGED vars
  BY <1>1, <1>9 DEF vars, history, prefs, choice
<1> QED
  BY <1>3, <1>4, <1>5, <1>6, <1>7, <1>8, <1>9 DEF Next, Handshake

\* With automatic selection off, nothing that was known or discovered before
\* is dialled (buildConnectionCandidates, the settings dialog): whatever
\* timers, lambdas and lookups were pending when it was switched off.
THEOREM ManualIsManual == Spec => []ManualMeansBootstrap
<1>1. ManualInv => ManualMeansBootstrap
  BY LenProperties, ElementOfSeq DEF ManualInv, ManualMeansBootstrap, ToSet
<1> QED
  BY ManualInitially, ManualStep, <1>1, PTL DEF Spec

-----------------------------------------------------------------------------
(* The lists have no address twice.                                        *)

\* A set of naturals has a least one.
LEMMA LeastNat ==
  ASSUME NEW T \in SUBSET Nat, T # {}
  PROVE  \E m \in T : \A n \in T : m <= n
<1> DEFINE R == {p \in Nat \X Nat : p[1] < p[2]}
<1>1. IsWellFoundedOn(R, Nat)
  BY NatLessThanWellFounded DEF OpToRel
<1>2. PICK m \in T : \A n \in T : ~(<<n, m>> \in R)
  <2> HIDE DEF R
  <2> QED
    BY <1>1, WFMin
<1>3. \A n \in T : ~(n < m)
  BY <1>2
<1> QED
  BY <1>3

Rank(j, F) == Cardinality({k \in F : k <= j})

\* Every rank up to the size of a set is that of one of its elements.
Ranked(n) ==
  \A F \in SUBSET (1..n) : \A i \in 1..Cardinality(F) : \E j \in F : Rank(j, F) = i

LEMMA FiniteUpTo ==
  ASSUME NEW n \in Nat, NEW F \in SUBSET (1..n)
  PROVE  IsFiniteSet(F) /\ Cardinality(F) \in Nat
<1>1. IsFiniteSet(1..n)
  BY FS_Interval
<1>2. IsFiniteSet(F)
  BY <1>1, FS_Subset
<1> QED
  BY <1>2, FS_CardinalityType

LEMMA RankedGrows ==
  ASSUME NEW n \in Nat, Ranked(n)
  PROVE  Ranked(n + 1)
<1> SUFFICES ASSUME NEW F \in SUBSET (1..n + 1), NEW i \in 1..Cardinality(F)
             PROVE  \E j \in F : Rank(j, F) = i
  BY DEF Ranked
<1> DEFINE G == F \ {n + 1}
<1>1. G \in SUBSET (1..n) /\ n + 1 \notin G
  OBVIOUS
<1>2. IsFiniteSet(G) /\ Cardinality(G) \in Nat
  BY <1>1, FiniteUpTo
<1>3. \A k \in 1..Cardinality(G) : \E j \in G : Rank(j, G) = k
  BY <1>1 DEF Ranked
<1>4. CASE n + 1 \notin F
  <2>1. G = F
    BY <1>4
  <2> QED
    BY <1>3, <2>1
<1>5. CASE n + 1 \in F
  <2>1. F = G \cup {n + 1}
    BY <1>5
  <2>2. \A j \in G : Rank(j, F) = Rank(j, G)
    <3> SUFFICES ASSUME NEW j \in G
                 PROVE  Rank(j, F) = Rank(j, G)
      OBVIOUS
    <3>1. {k \in F : k <= j} = {k \in G : k <= j}
      <4>1. j \in 1..n
        BY <1>1
      <4> QED
        BY <2>1, <4>1
    <3> QED
      BY <3>1 DEF Rank
  <2>3. Rank(n + 1, F) = Cardinality(F)
    <3>1. {k \in F : k <= n + 1} = F
      <4>1. \A k \in F : k <= n + 1
        OBVIOUS
      <4> QED
        BY <4>1
    <3> QED
      BY <3>1 DEF Rank
  <2> HIDE DEF G
  <2>4. Cardinality(F) = Cardinality(G) + 1
    BY <1>1, <1>2, <2>1, FS_AddElement
  <2> QED
    BY <1>2, <1>3, <1>5, <2>1, <2>2, <2>3, <2>4
<1> QED
  BY <1>4, <1>5

LEMMA AllRanked ==
  ASSUME NEW n \in Nat
  PROVE  Ranked(n)
<1> SUFFICES ASSUME ~Ranked(n)
             PROVE  FALSE
  OBVIOUS
<1> DEFINE T == {m \in Nat : ~Ranked(m)}
<1>1. PICK m \in T : \A k \in T : m <= k
  BY LeastNat
<1>2. Ranked(0)
  <2>1. ASSUME NEW F \in SUBSET (1..0)
        PROVE  1..Cardinality(F) = {}
    <3>1. F = {}
      OBVIOUS
    <3>2. Cardinality(F) = 0
      BY <3>1, FS_EmptySet
    <3> QED
      BY <3>2
  <2> QED
    BY <2>1 DEF Ranked
<1>3. m - 1 \in Nat /\ (m - 1) + 1 = m
  BY <1>1, <1>2
<1>4. Ranked(m - 1)
  BY <1>1, <1>3
<1>5. Ranked((m - 1) + 1)
  BY <1>3, <1>4, RankedGrows
<1> QED
  BY <1>1, <1>3, <1>5

\* What is kept of a list is a list, with no address twice if no two of the
\* positions hold the same one.
LEMMA KeptTypes ==
  ASSUME NEW S, NEW s \in Seq(S), NEW F \in SUBSET DOMAIN s
  PROVE  /\ Kept(s, F) \in Seq(S)
         /\ F # {} => Kept(s, F) # <<>>
         /\ (\A j, k \in F : s[j] = s[k] => j = k) => IsInjective(Kept(s, F))
<1> DEFINE c == Cardinality(F)
           pos == [i \in 1..c |-> CHOOSE j \in F : Rank(j, F) = i]
<1>1. Len(s) \in Nat /\ DOMAIN s = 1..Len(s)
  BY LenProperties
<1>2. c \in Nat
  BY <1>1, FiniteUpTo
<1>3. \A i \in 1..c : \E j \in F : Rank(j, F) = i
  BY <1>1, AllRanked DEF Ranked
<1>4. \A i \in 1..c : pos[i] \in F /\ Rank(pos[i], F) = i
  BY <1>3
<1>5. Kept(s, F) = [i \in 1..c |-> s[pos[i]]]
  BY DEF Kept, Rank
<1> HIDE DEF pos
<1>6. \A i \in 1..c : s[pos[i]] \in S
  BY <1>4, ElementOfSeq, <1>1
<1>7. [i \in 1..c |-> s[pos[i]]] \in Seq(S)
  <2>1. [i \in 1..c |-> s[pos[i]]] \in [1..c -> S]
    BY <1>6
  <2> HIDE DEF c
  <2> QED
    BY <1>2, <2>1, SeqDef
<1>8. F # {} => c # 0
  BY <1>1, FiniteUpTo, FS_EmptySet
<1>9. c # 0 => [i \in 1..c |-> s[pos[i]]] # <<>>
  <2> HIDE DEF c
  <2>1. c # 0 => 1 \in DOMAIN [i \in 1..c |-> s[pos[i]]]
    BY <1>2
  <2>2. DOMAIN <<>> = {}
    OBVIOUS
  <2> QED
    BY <2>1, <2>2
<1>10. ASSUME \A j, k \in F : s[j] = s[k] => j = k
       PROVE  IsInjective(Kept(s, F))
  <2> SUFFICES ASSUME NEW i \in 1..c, NEW k \in 1..c, s[pos[i]] = s[pos[k]]
               PROVE  i = k
    BY <1>5 DEF IsInjective
  <2>1. pos[i] = pos[k]
    BY <1>4, <1>10
  <2> QED
    BY <1>4, <2>1
<1> QED
  BY <1>5, <1>7, <1>8, <1>9, <1>10

\* A list of addresses that has none twice.
NoneTwice(s) == s \in Seq(Endpoints) /\ IsInjective(s)

LEMMA DistinctTypes ==
  ASSUME NEW s \in Seq(Endpoints), s # <<>>
  PROVE  NoneTwice(Distinct(s)) /\ Distinct(s) # <<>>
<1> DEFINE F == {i \in DOMAIN s : \A j \in 1..i - 1 : s[j] # s[i]}
<1>1. Len(s) \in Nat /\ DOMAIN s = 1..Len(s) /\ Len(s) # 0
  BY LenProperties, EmptySeq
<1>2. 1 \in F
  BY <1>1
<1>3. \A j, k \in F : s[j] = s[k] => j = k
  BY <1>1
<1>4. Distinct(s) = Kept(s, F)
  BY DEF Distinct
<1> HIDE DEF F
<1>5. F \in SUBSET DOMAIN s
  BY DEF F
<1> QED
  BY <1>2, <1>3, <1>4, <1>5, KeptTypes DEF NoneTwice


LEMMA AddedTypes ==
  ASSUME NEW s, NoneTwice(s), NEW e \in Endpoints
  PROVE  /\ NoneTwice(AddFirst(s, e)) /\ AddFirst(s, e) # <<>>
         /\ NoneTwice(AddLast(s, e)) /\ AddLast(s, e) # <<>>
         /\ Len(AddLast(s, e)) <= Len(s) + 1
<1>1. s \in Seq(Endpoints) /\ Len(s) \in Nat /\ DOMAIN s = 1..Len(s) /\ IsInjective(s)
  BY LenProperties DEF NoneTwice
<1>2. CASE Contains(s, e)
  <2>1. s # <<>>
    BY <1>1, <1>2, EmptySeq DEF Contains
  <2>2. AddFirst(s, e) = s /\ AddLast(s, e) = s
    BY <1>2 DEF AddFirst, AddLast
  <2> QED
    BY <1>1, <2>1, <2>2
<1>3. CASE ~Contains(s, e)
  <2>1. \A i \in 1..Len(s) : s[i] # e
    BY <1>3 DEF Contains
  <2>2. AddFirst(s, e) = <<e>> \o s /\ AddLast(s, e) = Append(s, e)
    BY <1>3 DEF AddFirst, AddLast
  <2>3. /\ <<e>> \o s \in Seq(Endpoints) /\ Len(<<e>> \o s) = 1 + Len(s)
        /\ \A i \in 1..1 + Len(s) : (<<e>> \o s)[i] = IF i = 1 THEN e ELSE s[i - 1]
    <3>1. <<e>> \in Seq(Endpoints) /\ Len(<<e>>) = 1 /\ <<e>>[1] = e
      OBVIOUS
    <3>2. /\ <<e>> \o s \in Seq(Endpoints) /\ Len(<<e>> \o s) = 1 + Len(s)
          /\ \A i \in 1..1 + Len(s) :
               (<<e>> \o s)[i] = IF i <= 1 THEN <<e>>[i] ELSE s[i - 1]
      BY <1>1, <3>1, ConcatProperties
    <3> QED
      BY <1>1, <3>1, <3>2
  <2>4. NoneTwice(<<e>> \o s) /\ <<e>> \o s # <<>>
    <3> DEFINE q == <<e>> \o s
    <3>1. q \in Seq(Endpoints) /\ DOMAIN q = 1..1 + Len(s)
      BY <1>1, <2>3, LenProperties
    <3> HIDE DEF q
    <3>2. \A i, j \in 1..1 + Len(s) : q[i] = q[j] => i = j
      <4> SUFFICES ASSUME NEW i \in 1..1 + Len(s), NEW j \in 1..1 + Len(s), i # j
                   PROVE  q[i] # q[j]
        OBVIOUS
      <4>1. /\ q[i] = IF i = 1 THEN e ELSE s[i - 1]
            /\ q[j] = IF j = 1 THEN e ELSE s[j - 1]
        BY <2>3 DEF q
      <4>2. (i # 1 => i - 1 \in 1..Len(s)) /\ (j # 1 => j - 1 \in 1..Len(s))
        BY <1>1
      <4> QED
        BY <1>1, <2>1, <4>1, <4>2 DEF IsInjective
    <3>3. q # <<>>
      BY <1>1, <2>3, EmptySeq DEF q
    <3> QED
      BY <3>1, <3>2, <3>3 DEF NoneTwice, IsInjective, q
  <2>5. /\ Append(s, e) \in Seq(Endpoints) /\ Len(Append(s, e)) = Len(s) + 1
        /\ DOMAIN Append(s, e) = 1..Len(s) + 1
        /\ \A i \in 1..Len(s) + 1 : Append(s, e)[i] = IF i = Len(s) + 1 THEN e ELSE s[i]
    BY <1>1, AppendProperties, LenProperties
  <2>6. NoneTwice(Append(s, e)) /\ Append(s, e) # <<>>
    <3> DEFINE q == Append(s, e)
    <3> HIDE DEF q
    <3>1. \A i, j \in 1..Len(s) + 1 : q[i] = q[j] => i = j
      <4> SUFFICES ASSUME NEW i \in 1..Len(s) + 1, NEW j \in 1..Len(s) + 1, i # j
                   PROVE  q[i] # q[j]
        OBVIOUS
      <4>1. /\ q[i] = IF i = Len(s) + 1 THEN e ELSE s[i]
            /\ q[j] = IF j = Len(s) + 1 THEN e ELSE s[j]
        BY <2>5 DEF q
      <4>2. (i # Len(s) + 1 => i \in 1..Len(s)) /\ (j # Len(s) + 1 => j \in 1..Len(s))
        BY <1>1
      <4> QED
        BY <1>1, <2>1, <4>1, <4>2 DEF IsInjective
    <3>2. q # <<>>
      BY <1>1, <2>5, EmptySeq DEF q
    <3> QED
      BY <2>5, <3>1, <3>2 DEF NoneTwice, IsInjective, q
  <2> QED
    BY <1>1, <2>2, <2>4, <2>5, <2>6
<1> QED
  BY <1>2, <1>3

LEMMA TailTypes ==
  ASSUME NEW s, NoneTwice(s), s # <<>>
  PROVE  /\ NoneTwice(Tail(s)) /\ Head(s) \in Endpoints
         /\ Len(Tail(s)) = Len(s) - 1
<1>1. s \in Seq(Endpoints) /\ Len(s) \in Nat /\ DOMAIN s = 1..Len(s) /\ IsInjective(s)
  BY LenProperties DEF NoneTwice
<1>2. /\ Tail(s) \in Seq(Endpoints) /\ Head(s) \in Endpoints
      /\ Len(Tail(s)) = Len(s) - 1
      /\ \A i \in 1..Len(Tail(s)) : Tail(s)[i] = s[i + 1]
  BY <1>1, HeadTailProperties
<1>3. DOMAIN Tail(s) = 1..Len(s) - 1
  BY <1>2, LenProperties
<1>4. \A i, j \in 1..Len(s) - 1 : Tail(s)[i] = Tail(s)[j] => i = j
  <2> SUFFICES ASSUME NEW i \in 1..Len(s) - 1, NEW j \in 1..Len(s) - 1, i # j
               PROVE  Tail(s)[i] # Tail(s)[j]
    OBVIOUS
  <2>1. Tail(s)[i] = s[i + 1] /\ Tail(s)[j] = s[j + 1]
    BY <1>2
  <2>2. i + 1 \in 1..Len(s) /\ j + 1 \in 1..Len(s) /\ i + 1 # j + 1
    BY <1>1
  <2> QED
    BY <1>1, <2>1, <2>2 DEF IsInjective
<1> QED
  BY <1>2, <1>3, <1>4 DEF NoneTwice, IsInjective

LEMMA ShortLists ==
  /\ NoneTwice(<<>>) /\ Len(<<>>) = 0
  /\ \A e \in Endpoints : NoneTwice(<<e>>) /\ <<e>> # <<>> /\ Len(<<e>>) = 1
<1>1. NoneTwice(<<>>)
  <2>1. <<>> \in Seq(Endpoints) /\ DOMAIN <<>> = {}
    OBVIOUS
  <2> QED
    BY <2>1 DEF NoneTwice, IsInjective
<1>2. ASSUME NEW e \in Endpoints
      PROVE  NoneTwice(<<e>>)
  <2>1. <<e>> \in Seq(Endpoints) /\ DOMAIN <<e>> = {1}
    OBVIOUS
  <2> QED
    BY <2>1 DEF NoneTwice, IsInjective
<1> QED
  BY <1>1, <1>2


-----------------------------------------------------------------------------
(* The types.                                                              *)

ListsOK ==
  /\ NoneTwice(last) /\ NoneTwice(known)
  /\ NoneTwice(discovered) /\ NoneTwice(candidates)
  /\ Len(last) <= 1 /\ Len(known) <= MaxKnown

\* An address that is dialled, or was when the connection was opened, is one.
LinkOK ==
  /\ status # "down" => dialled.at \in Endpoints
  /\ Maybe(active) /\ Maybe(dialled.at) /\ Maybe(dialled.set)
  /\ status \in Open \cup {"down", "dialing"}
  /\ peer \in Ids \cup {NoId} /\ (peer # NoId <=> status \in Open)
  /\ connectedId \in Ids \cup {NoId}

SettingsOK ==
  auto \in BOOLEAN /\ bootstrap \in Settings /\ pinned \in Ids \cup {NoId}

TimersOK == wanted \in BOOLEAN /\ graceUsed \in BOOLEAN /\ timer \in BOOLEAN /\ lambdas \in Nat

WorldOK ==
  /\ resolving \subseteq Endpoints /\ late \subseteq Endpoints
  /\ at \in [Endpoints -> Machines \cup {NoMachine}]
  /\ left \in [Events -> Nat]

PhoneOK == ListsOK /\ LinkOK /\ SettingsOK /\ TimersOK /\ WorldOK

LEMMA TypeParts == IdentityTypeOK /\ PhoneOK => TypeOK
BY DEF TypeOK, PhoneOK, ListsOK, LinkOK, SettingsOK, TimersOK, WorldOK, NoneTwice

LEMMA PhoneInitially == Init => PhoneOK
<1> SUFFICES ASSUME Init
             PROVE  PhoneOK
  OBVIOUS
<1>1. ListsOK
  BY ShortLists, EndpointsAssumption DEF Init, ListsOK
<1>2. Head(Defaults) \in Settings
  BY EndpointsAssumption
<1> QED
  BY <1>1, <1>2, EndpointsAssumption
     DEF Init, PhoneOK, LinkOK, SettingsOK, TimersOK, WorldOK, Maybe, NoDial, Open

LEMMA BuiltTypes ==
  ASSUME PhoneOK
  PROVE  NoneTwice(Built) /\ Built # <<>>
<1>1. bootstrap \in Endpoints
  BY EndpointsAssumption DEF PhoneOK, SettingsOK
<1>2. CASE ~auto
  BY <1>1, <1>2, ShortLists DEF Built
<1>3. CASE auto
  <2>1. /\ discovered \in Seq(Endpoints) /\ last \in Seq(Endpoints)
        /\ known \in Seq(Endpoints) /\ Defaults \in Seq(Endpoints)
        /\ <<bootstrap>> \in Seq(Endpoints) /\ Len(<<bootstrap>>) = 1
    BY <1>1, EndpointsAssumption DEF PhoneOK, ListsOK, NoneTwice
  <2> DEFINE a == discovered \o last
             b == a \o <<bootstrap>>
             c == b \o known
             d == c \o Defaults
  <2>2. a \in Seq(Endpoints)
    BY <2>1, ConcatProperties
  <2> HIDE DEF a
  <2>3. b \in Seq(Endpoints) /\ Len(b) = Len(a) + 1
    BY <2>1, <2>2, ConcatProperties
  <2> HIDE DEF b
  <2>4. c \in Seq(Endpoints) /\ Len(c) = Len(b) + Len(known)
    BY <2>1, <2>3, ConcatProperties
  <2> HIDE DEF c
  <2>5. d \in Seq(Endpoints) /\ Len(d) = Len(c) + Len(Defaults)
    BY <2>1, <2>4, ConcatProperties
  <2> HIDE DEF d
  <2>6. Len(a) \in Nat /\ Len(known) \in Nat /\ Len(Defaults) \in Nat
    BY <2>1, <2>2, LenProperties
  <2>7. d # <<>>
    BY <2>3, <2>4, <2>5, <2>6, EmptySeq
  <2>8. Built = Distinct(d)
    BY <1>3 DEF Built, a, b, c, d
  <2> QED
    BY <2>5, <2>7, <2>8, DistinctTypes
<1> QED
  BY <1>2, <1>3

LEMMA DialTypes ==
  ASSUME PhoneOK, NEW list, NoneTwice(list), list # <<>>, status = "down", Dial(list)
  PROVE  NoneTwice(candidates') /\ LinkOK'
<1>1. NoneTwice(Tail(list)) /\ Head(list) \in Endpoints
  BY TailTypes
<1>2. bootstrap \in Endpoints
  BY EndpointsAssumption DEF PhoneOK, SettingsOK
<1> QED
  BY <1>1, <1>2 DEF Dial, PhoneOK, LinkOK, Maybe, Open

LEMMA ConnectInternalTypes ==
  ASSUME PhoneOK, NEW list, NoneTwice(list), NEW grace \in BOOLEAN, NEW posted \in Nat,
         ConnectInternal(list, grace, posted)
  PROVE  /\ NoneTwice(candidates') /\ LinkOK'
         /\ graceUsed' \in BOOLEAN /\ lambdas' \in Nat
<1>1. UNCHANGED link => LinkOK'
  BY DEF PhoneOK, LinkOK, link
<1> DEFINE l == IF list = <<>> THEN Built ELSE list
           Quiet == status # "down"
           Waits == auto /\ ~grace /\ discovered = <<>>
<1>2. NoneTwice(l) /\ l # <<>>
  BY BuiltTypes
<1>3. \/ Quiet /\ candidates' = list /\ graceUsed' = grace /\ lambdas' = posted /\ UNCHANGED link
      \/ Waits /\ candidates' = list /\ graceUsed' = TRUE /\ lambdas' = posted + 1 /\ UNCHANGED link
      \/ ~Quiet /\ Dial(l) /\ graceUsed' = grace /\ lambdas' = posted
  BY Zenon DEF ConnectInternal
<1>4. posted + 1 \in Nat /\ TRUE \in BOOLEAN
  OBVIOUS
<1> HIDE DEF l, Waits
<1>5. CASE Quiet /\ candidates' = list /\ graceUsed' = grace /\ lambdas' = posted /\ UNCHANGED link
  BY <1>1, <1>5, Zenon
<1>6. CASE Waits /\ candidates' = list /\ graceUsed' = TRUE /\ lambdas' = posted + 1 /\ UNCHANGED link
  BY <1>1, <1>4, <1>6, Zenon
<1>7. CASE ~Quiet /\ Dial(l) /\ graceUsed' = grace /\ lambdas' = posted
  <2>1. status = "down"
    BY <1>7
  <2>2. NoneTwice(candidates') /\ LinkOK'
    BY <1>2, <1>7, <2>1, DialTypes
  <2> QED
    BY <1>7, <2>2, Zenon
<1> QED
  BY <1>3, <1>5, <1>6, <1>7, Zenon

LEMMA TryNextTypes ==
  ASSUME PhoneOK, NEW list, NoneTwice(list), NEW pending \in BOOLEAN,
         TryNext(list, pending)
  PROVE  /\ NoneTwice(candidates') /\ LinkOK'
         /\ graceUsed' \in BOOLEAN /\ timer' \in BOOLEAN /\ lambdas' \in Nat
<1>1. graceUsed \in BOOLEAN /\ lambdas \in Nat /\ lambdas + 1 \in Nat
      /\ TRUE \in BOOLEAN /\ FALSE \in BOOLEAN
  BY DEF PhoneOK, TimersOK
<1>2. \/ timer' = pending /\ lambdas' = lambdas /\ graceUsed' = graceUsed
      \/ timer' = pending /\ lambdas' = lambdas + 1 /\ graceUsed' = graceUsed
      \/ timer' = TRUE /\ lambdas' = lambdas /\ graceUsed' = FALSE
  BY DEF TryNext
<1>3. graceUsed' \in BOOLEAN /\ timer' \in BOOLEAN /\ lambdas' \in Nat
  BY <1>1, <1>2, Zenon
<1> QED
  BY <1>3 DEF TryNext, PhoneOK, LinkOK, Maybe, Open

LEMMA HappensTypes ==
  ASSUME PhoneOK, NEW event \in Events, Happens(event)
  PROVE  left' \in [Events -> Nat]
BY DEF Happens, PhoneOK, WorldOK

\* A step that leaves the network and the discovery alone.
LEMMA WorldStays ==
  ASSUME PhoneOK, UNCHANGED <<resolving, late, at>>,
         left' = left \/ \E event \in Events : Happens(event)
  PROVE  WorldOK'
<1>1. left' \in [Events -> Nat]
  BY HappensTypes DEF PhoneOK, WorldOK
<1> QED
  BY <1>1 DEF PhoneOK, WorldOK

LEMMA ResolvedTypes ==
  ASSUME PhoneOK, NEW e \in Endpoints, ServiceResolved(e)
  PROVE  PhoneOK'
<1> DEFINE list == AddFirst(candidates, e)
<1>1. NoneTwice(list) /\ list # <<>> /\ NoneTwice(discovered')
  BY AddedTypes DEF PhoneOK, ListsOK, ServiceResolved
<1>2. Maybe(active) /\ NoneTwice(candidates)
  BY DEF PhoneOK, LinkOK, ListsOK
<1> HIDE DEF list
<1>3. /\ NoneTwice(candidates') /\ LinkOK'
      /\ graceUsed' \in BOOLEAN /\ timer' \in BOOLEAN /\ lambdas' \in Nat
  <2>1. CASE active = e \/ (~ShouldSwitch(e) /\ ~(wanted /\ status = "down"))
    <3>1. /\ candidates' \in {candidates, list} /\ UNCHANGED <<link, timers, graceUsed>>
      BY <2>1 DEF ServiceResolved, list, choice
    <3> QED
      BY <1>1, <1>2, <3>1 DEF PhoneOK, LinkOK, TimersOK, link, timers
  <2>2. CASE active # e /\ ShouldSwitch(e)
    <3>1. NoneTwice(AddLast(list, active))
      BY <1>1, <1>2, <2>2, AddedTypes DEF ShouldSwitch, Maybe
    <3>2. TryNext(AddLast(list, active), FALSE)
      BY <2>2 DEF ServiceResolved, RestartConnection, list
    <3> QED
      BY <3>1, <3>2, TryNextTypes
  <2>3. CASE active # e /\ ~ShouldSwitch(e) /\ wanted /\ status = "down"
    <3>1. Dial(list) /\ UNCHANGED <<graceUsed, timers>>
      BY <2>3 DEF ServiceResolved, list
    <3>2. NoneTwice(candidates') /\ LinkOK'
      BY <1>1, <2>3, <3>1, DialTypes
    <3> QED
      BY <3>1, <3>2 DEF PhoneOK, TimersOK, timers
  <2> QED
    BY <2>1, <2>2, <2>3
<1>4. /\ UNCHANGED <<auto, bootstrap, pinned, last, known, wanted, at, left>>
      /\ resolving' \subseteq resolving
      /\ late' \subseteq late \cup ({e, active} \ {NoEndpoint})
  BY DEF ServiceResolved, prefs
<1>5. ListsOK' /\ SettingsOK' /\ TimersOK'
  BY <1>1, <1>3, <1>4 DEF PhoneOK, ListsOK, SettingsOK, TimersOK
<1>6. WorldOK'
  BY <1>2, <1>4 DEF PhoneOK, WorldOK, Maybe
<1> QED
  BY <1>3, <1>5, <1>6 DEF PhoneOK

LEMMA LostTypes ==
  ASSUME PhoneOK, NEW e \in Endpoints, ServiceLost(e)
  PROVE  PhoneOK'
<1> DEFINE F == {i \in DOMAIN discovered : discovered[i] # e}
<1>1. discovered \in Seq(Endpoints) /\ IsInjective(discovered)
  BY DEF PhoneOK, ListsOK, NoneTwice
<1>2. F \in SUBSET DOMAIN discovered /\ \A j, k \in F : discovered[j] = discovered[k] => j = k
  BY <1>1 DEF IsInjective
<1>3. discovered' = Kept(discovered, F)
  BY DEF ServiceLost
<1> HIDE DEF F
<1>4. NoneTwice(discovered')
  BY <1>1, <1>2, <1>3, KeptTypes DEF NoneTwice
<1>5. /\ UNCHANGED <<prefs, resolving, choice, link, wanted, timers, at, history>>
      /\ Happens("lost") /\ "lost" \in Events
  BY DEF ServiceLost, Events
<1>6. WorldOK'
  BY <1>5, WorldStays DEF history
<1> QED
  BY <1>4, <1>5, <1>6 DEF PhoneOK, ListsOK, LinkOK, SettingsOK, TimersOK, prefs,
     choice, link, timers

LEMMA OpenedTypes ==
  ASSUME PhoneOK, IdentityTypeOK, Opened
  PROVE  PhoneOK'
<1>1. /\ dialled.at \in Endpoints /\ at[dialled.at] # NoMachine
      /\ serverId[at[dialled.at]] # NoId
  BY DEF Opened, Answers, Running, PhoneOK, LinkOK
<1>2. at[dialled.at] \in Machines
  BY <1>1 DEF PhoneOK, WorldOK
<1>3. peer' \in Ids /\ peer' # NoId /\ status' = "hello"
  BY <1>1, <1>2 DEF Opened, IdentityTypeOK
<1>4. LinkOK'
  BY <1>1, <1>3 DEF Opened, PhoneOK, LinkOK, Open, Maybe
<1> QED
  BY <1>4 DEF Opened, PhoneOK, ListsOK, SettingsOK, TimersOK, WorldOK, prefs,
     discovery, choice, timers, history

LEMMA HelloOkTypes ==
  ASSUME PhoneOK, HelloOk
  PROVE  PhoneOK'
<1>1. /\ UNCHANGED <<prefs, discovery, wanted, at, left, history>>
      /\ status = "hello" /\ peer # NoId
  BY DEF HelloOk, PeerThere
<1>2. /\ NoneTwice(candidates') /\ LinkOK'
      /\ graceUsed' \in BOOLEAN /\ timer' \in BOOLEAN /\ lambdas' \in Nat
  <2>1. CASE Expected(peer)
    <3>1. /\ connectedId' = peer /\ status' = "auth"
          /\ UNCHANGED <<choice, active, peer, dialled, timers>>
      BY <2>1 DEF HelloOk
    <3> QED
      BY <1>1, <3>1 DEF PhoneOK, ListsOK, LinkOK, TimersOK, Maybe, Open, choice, timers
  <2>2. CASE ~Expected(peer)
    <3>1. TryNext(candidates, FALSE) /\ NoneTwice(candidates)
      BY <2>2 DEF HelloOk, RestartConnection, PhoneOK, ListsOK
    <3> QED
      BY <3>1, TryNextTypes
  <2> QED
    BY <2>1, <2>2
<1> QED
  BY <1>1, <1>2 DEF PhoneOK, ListsOK, SettingsOK, TimersOK, WorldOK, prefs, discovery,
     history

LEMMA AuthOkTypes ==
  ASSUME PhoneOK, AuthOk
  PROVE  PhoneOK'
<1>1. /\ status = "auth" /\ status' = "authed" /\ Remember
      /\ candidates' = <<>> /\ late' = late
      /\ UNCHANGED <<auto, bootstrap, discovery, graceUsed, active, peer, connectedId,
                     dialled, wanted, timers, at, left>>
  BY DEF AuthOk
<1>2. /\ NoneTwice(last') /\ NoneTwice(known') /\ pinned' \in Ids \cup {NoId}
      /\ Len(last') <= 1 /\ Len(known') <= MaxKnown
  <2>1. CASE active = NoEndpoint \/ connectedId = NoId
    BY <1>1, <2>1 DEF Remember, PhoneOK, ListsOK, SettingsOK
  <2>2. CASE ~(active = NoEndpoint \/ connectedId = NoId)
    <3> DEFINE all == AddLast(known, active)
    <3>1. active \in Endpoints /\ NoneTwice(known) /\ Len(known) <= MaxKnown
      BY <2>2 DEF PhoneOK, LinkOK, ListsOK, Maybe
    <3>2. NoneTwice(all) /\ all # <<>> /\ Len(all) <= Len(known) + 1
      BY <3>1, AddedTypes
    <3>3. /\ pinned' = connectedId /\ last' = <<active>>
          /\ known' = IF Len(all) > MaxKnown THEN Tail(all) ELSE all
      BY <1>1, <2>2 DEF Remember
    <3> HIDE DEF all
    <3>4. Len(all) \in Nat /\ Len(known) \in Nat /\ MaxKnown \in Nat
      BY <3>1, <3>2, LenProperties, EndpointsAssumption DEF NoneTwice
    <3>5. NoneTwice(known') /\ Len(known') <= MaxKnown
      BY <3>1, <3>2, <3>3, <3>4, TailTypes
    <3>6. NoneTwice(last') /\ Len(last') <= 1
      BY <3>1, <3>3, ShortLists
    <3> QED
      BY <3>3, <3>5, <3>6 DEF PhoneOK, LinkOK
  <2> QED
    BY <2>1, <2>2
<1>3. ListsOK'
  BY <1>1, <1>2, ShortLists DEF PhoneOK, ListsOK, discovery
<1>4. LinkOK'
  BY <1>1 DEF PhoneOK, LinkOK, Open, Maybe
<1> QED
  BY <1>1, <1>2, <1>3, <1>4 DEF PhoneOK, SettingsOK, TimersOK, WorldOK, discovery, timers

LEMMA UserTypes ==
  ASSUME PhoneOK, TapDisconnect \/ SaveSettings \/ Resume \/ Kill
  PROVE  PhoneOK'
<1>1. WorldOK'
  <2>1. \E event \in Events : Happens(event)
    BY DEF TapDisconnect, SaveSettings, Resume, Kill, Events
  <2>2. resolving' \subseteq resolving /\ UNCHANGED <<late, at>>
    BY DEF TapDisconnect, SaveSettings, Resume, Kill, discovery, history
  <2>3. left' \in [Events -> Nat]
    BY <2>1, HappensTypes
  <2> QED
    BY <2>2, <2>3 DEF PhoneOK, WorldOK
<1>2. CASE TapDisconnect
  BY <1>1, <1>2, ShortLists DEF TapDisconnect, PhoneOK, ListsOK, LinkOK, SettingsOK,
     TimersOK, prefs, discovery, Maybe, Open
<1>3. CASE SaveSettings
  <2>1. ListsOK'
    BY <1>3, ShortLists, EndpointsAssumption
       DEF SaveSettings, ForgetServer, ResetChoice, PhoneOK, ListsOK
  <2>2. LinkOK'
    BY <1>3 DEF SaveSettings, ForgetServer, PhoneOK, LinkOK, Maybe
  <2>3. SettingsOK' /\ TimersOK'
    BY <1>3 DEF SaveSettings, ForgetServer, ResetChoice, PhoneOK, SettingsOK, TimersOK,
       timers
  <2> QED
    BY <1>1, <2>1, <2>2, <2>3 DEF PhoneOK
<1>4. CASE Resume
  BY <1>1, <1>4 DEF Resume, PhoneOK, ListsOK, LinkOK, SettingsOK, TimersOK, prefs,
     discovery, choice, link
<1>5. CASE Kill
  BY <1>1, <1>5, ShortLists DEF Kill, PhoneOK, ListsOK, LinkOK, SettingsOK, TimersOK,
     prefs, Maybe, Open
<1> QED
  BY <1>2, <1>3, <1>4, <1>5

LEMMA ConnectTypes ==
  ASSUME PhoneOK, TapConnect \/ ReconnectTimer \/ PostedConnect
  PROVE  PhoneOK'
<1>1. WorldOK'
  <2>1. left' = left \/ \E event \in Events : Happens(event)
    BY DEF TapConnect, ReconnectTimer, PostedConnect, Events
  <2>2. UNCHANGED <<resolving, late, at>>
    BY DEF TapConnect, ReconnectTimer, PostedConnect, discovery, history
  <2> QED
    BY <2>1, <2>2, WorldStays
<1>2. /\ UNCHANGED <<prefs, discovery>>
      /\ wanted' \in BOOLEAN /\ timer' \in BOOLEAN
  BY DEF TapConnect, ReconnectTimer, PostedConnect, PhoneOK, TimersOK
<1>3. /\ NoneTwice(candidates') /\ LinkOK'
      /\ graceUsed' \in BOOLEAN /\ lambdas' \in Nat
  <2>1. CASE TapConnect
    <3>1. ConnectInternal(<<>>, FALSE, lambdas) /\ lambdas \in Nat
      BY <2>1 DEF TapConnect, PhoneOK, TimersOK
    <3> QED
      BY <3>1, ShortLists, ConnectInternalTypes
  <2>2. CASE ReconnectTimer
    <3>1. \/ ConnectInternal(candidates, graceUsed, lambdas)
          \/ UNCHANGED <<choice, link, lambdas>>
      BY <2>2 DEF ReconnectTimer
    <3>2. NoneTwice(candidates) /\ graceUsed \in BOOLEAN /\ lambdas \in Nat /\ LinkOK
      BY DEF PhoneOK, ListsOK, TimersOK
    <3>3. CASE ConnectInternal(candidates, graceUsed, lambdas)
      BY <3>2, <3>3, ConnectInternalTypes
    <3>4. CASE UNCHANGED <<choice, link, lambdas>>
      BY <3>2, <3>4 DEF choice, link, LinkOK
    <3> QED
      BY <3>1, <3>3, <3>4
  <2>3. CASE PostedConnect
    <3>1. ConnectInternal(candidates, graceUsed, lambdas - 1) /\ lambdas - 1 \in Nat
      BY <2>3 DEF PostedConnect, PhoneOK, TimersOK
    <3>2. NoneTwice(candidates) /\ graceUsed \in BOOLEAN
      BY DEF PhoneOK, ListsOK, TimersOK
    <3> QED
      BY <3>1, <3>2, ConnectInternalTypes
  <2> QED
    BY <2>1, <2>2, <2>3
<1> QED
  BY <1>1, <1>2, <1>3 DEF PhoneOK, ListsOK, SettingsOK, TimersOK, prefs, discovery

LEMMA LosesTypes ==
  ASSUME PhoneOK, Refused \/ Drop
  PROVE  PhoneOK'
<1>1. WorldOK'
  <2>1. left' = left \/ \E event \in Events : Happens(event)
    BY DEF Refused, Drop, Events
  <2>2. UNCHANGED <<resolving, late, at>>
    BY DEF Refused, Drop, discovery, history
  <2> QED
    BY <2>1, <2>2, WorldStays
<1>2. PICK pending \in BOOLEAN : TryNext(candidates, pending)
  BY DEF Refused, Drop, RestartConnection, PhoneOK, TimersOK
<1>3. NoneTwice(candidates)
  BY DEF PhoneOK, ListsOK
<1>4. /\ NoneTwice(candidates') /\ LinkOK'
      /\ graceUsed' \in BOOLEAN /\ timer' \in BOOLEAN /\ lambdas' \in Nat
  BY <1>2, <1>3, TryNextTypes
<1>5. UNCHANGED <<prefs, discovery, wanted>>
  BY DEF Refused, Drop
<1> QED
  BY <1>1, <1>4, <1>5 DEF PhoneOK, ListsOK, SettingsOK, TimersOK, prefs, discovery

LEMMA OtherTypes ==
  ASSUME PhoneOK, NEW e \in Endpoints, NEW m,
         ServiceFound(e) \/ Move(e) \/ Reauth \/ HostStep(m)
  PROVE  PhoneOK'
<1>1. /\ UNCHANGED <<prefs, discovered, choice, wanted, timers, history>>
      /\ UNCHANGED <<active, peer, connectedId, dialled>>
  BY DEF ServiceFound, Move, Reauth, HostStep, discovery, link
<1>2. left' \in [Events -> Nat]
  <2>1. left' = left \/ \E event \in Events : Happens(event)
    BY DEF ServiceFound, Move, Reauth, HostStep, Events
  <2> QED
    BY <2>1, HappensTypes DEF PhoneOK, WorldOK
<1>3. at' \in [Endpoints -> Machines \cup {NoMachine}]
  BY DEF ServiceFound, Move, Reauth, HostStep, PhoneOK, WorldOK
<1>4. resolving' \subseteq Endpoints
  BY DEF ServiceFound, Move, Reauth, HostStep, PhoneOK, WorldOK, discovery
<1>5. status' = status \/ (status = "authed" /\ status' = "hello")
  BY DEF ServiceFound, Move, Reauth, HostStep, link
<1>6. LinkOK'
  BY <1>1, <1>5 DEF PhoneOK, LinkOK, Maybe, Open
<1> QED
  BY <1>1, <1>2, <1>3, <1>4, <1>6 DEF PhoneOK, ListsOK, SettingsOK, TimersOK, WorldOK,
     prefs, choice, timers, history

LEMMA PhoneStep == PhoneOK /\ IdentityTypeOK /\ [Next]_vars => PhoneOK'
<1> SUFFICES ASSUME PhoneOK, IdentityTypeOK, [Next]_vars
             PROVE  PhoneOK'
  OBVIOUS
<1>1. CASE UNCHANGED vars
  BY <1>1 DEF vars, prefs, discovery, choice, link, timers, history, PhoneOK, ListsOK,
     LinkOK, SettingsOK, TimersOK, WorldOK
<1>2. ASSUME NEW e \in Endpoints, ServiceFound(e) \/ Move(e)
      PROVE  PhoneOK'
  BY <1>2, OtherTypes
<1>3. ASSUME NEW m \in Machines, HostStep(m)
      PROVE  PhoneOK'
  <2>1. PICK e : e \in Endpoints
    BY EndpointsAssumption DEF PhoneOK, SettingsOK
  <2> QED
    BY <1>3, <2>1, OtherTypes
<1>4. CASE Reauth
  <2>1. PICK e : e \in Endpoints
    BY EndpointsAssumption DEF PhoneOK, SettingsOK
  <2> QED
    BY <1>4, <2>1, OtherTypes
<1> QED
  BY <1>1, <1>2, <1>3, <1>4, UserTypes, ConnectTypes, LosesTypes, ResolvedTypes,
     LostTypes, OpenedTypes, HelloOkTypes, AuthOkTypes DEF Next, Handshake

\* The phone's state keeps its types; in particular no address is twice in a
\* list (distinctBy in ServerEndpointSelector, enqueueDiscoveredEndpoint and
\* rememberSuccessfulEndpoint), and no more are remembered than may be.
THEOREM EndpointTypes == Spec => []TypeOK
<1>1. IdentityInv => IdentityTypeOK
  BY DEF IdentityInv
<1> QED
  BY IdentityInitially, IdentityStep, PhoneInitially, PhoneStep, TypeParts, <1>1,
     PTL DEF Spec
=============================================================================
