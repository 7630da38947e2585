--------------------------- MODULE ServerIdentity ---------------------------
(***************************************************************************)
(* host/identity.py: the identity by which phones know a machine, whatever *)
(* address it has.  A host loads it from a file when it starts, or makes a *)
(* new one and replaces the file with it; hello_ok tells it to phones.     *)
(***************************************************************************)
EXTENDS Naturals

CONSTANTS
  Machines,  \* the machines a host runs on
  NoId       \* the empty string in place of an identity

\* uuid4 never repeats itself: an identity is its machine and a number.
Ids == [machine : Machines, number : Nat]

VARIABLES
  idFile,    \* the server_id file of each machine; NoId if none can be read
  serverId,  \* RealtimeHost.server_id of each machine; NoId while no host runs
  made,      \* identities made so far on each machine
  told,      \* history: the identities phones were told
  damaged    \* history: machines whose file has become unreadable

identityVars == <<idFile, serverId, made, told, damaged>>

IdentityTypeOK ==
  /\ idFile \in [Machines -> Ids \cup {NoId}]
  /\ serverId \in [Machines -> Ids \cup {NoId}]
  /\ made \in [Machines -> Nat]
  /\ told \subseteq Ids
  /\ damaged \subseteq Machines

IdentityInit ==
  /\ idFile = [m \in Machines |-> NoId]
  /\ serverId = [m \in Machines |-> NoId]
  /\ made = [m \in Machines |-> 0]
  /\ told = {} /\ damaged = {}

Running(m) == serverId[m] # NoId

\* Faulty variant: the new identity stays in the temporary file.
FiledUnderTmp(m, id) == UNCHANGED idFile

\* The temporary file replaces the identity file in one step; a host that dies
\* or fails before that has told its identity to nobody.
Filed(m, id) == idFile' = [idFile EXCEPT ![m] = id]

\* load_or_create_server_id, called when a RealtimeHost is built.
StartHost(m) ==
  /\ ~Running(m)
  /\ IF idFile[m] # NoId
     THEN /\ serverId' = [serverId EXCEPT ![m] = idFile[m]]
          /\ UNCHANGED <<idFile, made>>
     ELSE LET id == [machine |-> m, number |-> made[m] + 1]
          IN /\ made' = [made EXCEPT ![m] = @ + 1]
             /\ serverId' = [serverId EXCEPT ![m] = id]
             /\ Filed(m, id)
  /\ UNCHANGED <<told, damaged>>

StopHost(m) ==
  /\ Running(m)
  /\ serverId' = [serverId EXCEPT ![m] = NoId]
  /\ UNCHANGED <<idFile, made, told, damaged>>

\* The file is deleted, loses its content or cannot be opened any more.
DamageFile(m) ==
  /\ idFile[m] # NoId
  /\ idFile' = [idFile EXCEPT ![m] = NoId] /\ damaged' = damaged \cup {m}
  /\ UNCHANGED <<serverId, made, told>>

\* _on_hello answers with the identity.
Tell(id) == told' = told \cup {id} /\ UNCHANGED <<idFile, serverId, made, damaged>>

-----------------------------------------------------------------------------
\* What a phone was told once, every later host of the machine tells again: it
\* is on file, as long as the file can be read.  (A phone refuses a host whose
\* identity is not the one it has pinned.)
ToldIsOnFile ==
  \A id \in told : id.machine \in damaged \/ idFile[id.machine] = id
=============================================================================
