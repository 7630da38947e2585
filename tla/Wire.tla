-------------------------------- MODULE Wire --------------------------------
(***************************************************************************)
(* The WebSocket connections between the phones and the host, as OkHttp    *)
(* and aiohttp present them to the code under src/: each connection is a   *)
(* pair of FIFO queues, it may be refused, reset or fall silent, and an    *)
(* end that hangs up says nothing to the other end beyond end-of-stream.   *)
(*                                                                         *)
(* link[k]:  unused -> dialing -> up -> down | dead | closed               *)
(*   down    the connection failed and the phone's listener will be told   *)
(*   dead    the other end vanished without a word: nothing arrives, and   *)
(*           the phone learns of it only by sending (a write that is never *)
(*           acknowledged makes the transport fail, that is "down")        *)
(*   closed  the phone cancelled or closed it                              *)
(*                                                                         *)
(* faults counts what is left of each kind of misfortune, and of the other *)
(* events that would otherwise recur for ever, so that every run names the *)
(* events it explores.                                                     *)
(***************************************************************************)
EXTENDS Protocol

CONSTANT Budget  \* how many faults of each kind may happen

FaultKinds == {"refuse", "reset", "silent",              \* the network
               "slow", "switch", "beat", "kill", "disconnect", "radio",  \* the phone
               "inject", "persist", "load", "quiet", "crash"}    \* the host

ASSUME BudgetAssumption == Budget \in [FaultKinds -> Nat]

VARIABLES
  link,     \* the state of each connection
  toHost,   \* messages sent by the phone and not yet read by handle_ws
  toPhone,  \* messages sent by the host whose callback has not run yet
  faults    \* the faults still available

wireVars == <<link, toHost, toPhone>>

LinkState == {"unused", "dialing", "up", "down", "dead", "closed"}

WireTypeOK ==
  /\ link \in [Conns -> LinkState]
  /\ toHost \in [Conns -> Seq(HostMsg)]
  /\ toPhone \in [Conns -> Seq(PhoneMsg)]
  /\ faults \in [FaultKinds -> Nat]

WireInit ==
  /\ link = [k \in Conns |-> "unused"]
  /\ toHost = [k \in Conns |-> <<>>]
  /\ toPhone = [k \in Conns |-> <<>>]
  /\ faults = Budget

Spend(kind) ==
  /\ faults[kind] > 0
  /\ faults' = [faults EXCEPT ![kind] = @ - 1]

\* The next connection number to dial.
Fresh(k) == link[k] = "unused" /\ \A j \in Conns : j < k => link[j] # "unused"

\* webSocket.send returns true.
SendOk(k) == link[k] # "down"

\* A message the phone hands to connection k, when SendOk(k).
Transmit(k, m) ==
  /\ toHost' = IF link[k] = "up"
               THEN [toHost EXCEPT ![k] = Append(@, m)] ELSE toHost
  /\ link' = IF link[k] = "dead" THEN [link EXCEPT ![k] = "down"] ELSE link

\* The phone closes or cancels connection k, or forgets it after a failure.
\* A callback of it that still waits for the UI thread will find that the
\* socket is no longer the current one and do nothing, so it goes at once.
HangUp(k) ==
  /\ link' = [link EXCEPT ![k] = "closed"]
  /\ toPhone' = [toPhone EXCEPT ![k] = <<>>]
  /\ UNCHANGED toHost

\* What connection k carries to the phone once the host has sent m on it.
Carrying(k, m) == IF link[k] = "up" THEN Append(toPhone[k], m) ELSE toPhone[k]

-----------------------------------------------------------------------------
Refuse(k) ==
  /\ link[k] = "dialing"
  /\ Spend("refuse")
  /\ link' = [link EXCEPT ![k] = "down"]
  /\ UNCHANGED <<toHost, toPhone>>

Reset(k) ==
  /\ link[k] = "up"
  /\ Spend("reset")
  /\ link' = [link EXCEPT ![k] = "down"]
  /\ UNCHANGED <<toHost, toPhone>>

Silence(k) ==
  /\ link[k] = "up"
  /\ Spend("silent")
  /\ link' = [link EXCEPT ![k] = "dead"]
  /\ UNCHANGED <<toHost, toPhone>>

\* What a broken connection still carried to the host is lost.
LoseTail(k) ==
  /\ link[k] \in {"down", "closed"}
  /\ toHost[k] # <<>>
  /\ toHost' = [toHost EXCEPT ![k] = <<>>]
  /\ UNCHANGED <<link, toPhone, faults>>

WireNext == \E k \in Conns : Refuse(k) \/ Reset(k) \/ Silence(k) \/ LoseTail(k)
=============================================================================
