--------------------------- MODULE SessionManager ---------------------------
(***************************************************************************)
(* host/session.py: the host keeps at most one session.  A new             *)
(* authentication replaces it without asking, a session that was quiet for *)
(* longer than the timeout is dropped by check_timeout, and every          *)
(* authenticated message names the session it belongs to.                  *)
(*                                                                         *)
(* last_seen_ms is abstracted to the one bit check_timeout reads: "quiet"  *)
(* says that more than timeout_ms passed since it was refreshed.           *)
(***************************************************************************)
EXTENDS Protocol

VARIABLES
  active,      \* the current session, or None
  nextSession  \* the identifier the next session will get

sessionVars == <<active, nextSession>>

Session ==
  [sid : SessionIds, client : Clients, mode : Modes, lastSeq : 0..MaxOps + 1,
   quiet : BOOLEAN, snapshot : Seq(Texts)]

SessionTypeOK ==
  /\ active \in Session \cup {None}
  /\ nextSession \in 1..MaxSession + 1

SessionInit == active = None /\ nextSession = 1

\* validate: the message's session is the active one.
Valid(s) == active # None /\ active.sid = s

\* What validate raises for the session s.
Invalid(s) == IF active = None THEN "no_active_session" ELSE "invalid_session"

\* Faulty variant: the new session goes on with the old one's numbers.
NewSessionKeepsSeq(c, mode) ==
  [sid |-> nextSession, client |-> c, mode |-> mode,
   lastSeq |-> IF active = None THEN 0 ELSE active.lastSeq,
   quiet |-> FALSE, snapshot |-> <<>>]

NewSession(c, mode) ==
  [sid |-> nextSession, client |-> c, mode |-> mode, lastSeq |-> 0,
   quiet |-> FALSE, snapshot |-> <<>>]

\* authenticate: the new session takes the place of whatever was active.
Authenticate(c, mode) ==
  /\ nextSession \in SessionIds
  /\ active' = NewSession(c, mode)
  /\ nextSession' = nextSession + 1

\* update_heartbeat, for a valid session.
UpdateHeartbeat ==
  /\ active' = [active EXCEPT !.quiet = FALSE]
  /\ UNCHANGED nextSession

\* Faulty variant: the last number is accepted again.
IsNextOrSameSeq(seq) == seq \in {active.lastSeq, active.lastSeq + 1}

\* expect_next_seq accepts seq, for a valid session.
IsNextSeq(seq) == seq = active.lastSeq + 1

\* The session after expect_next_seq has consumed seq.
Advanced(s, seq) == [s EXCEPT !.lastSeq = seq, !.quiet = FALSE]

\* The session after applied_snapshot grew by text.
Grown(s, text) == [s EXCEPT !.snapshot = Append(@, text)]

\* More than timeout_ms pass without an authenticated message.
Quieten ==
  /\ active # None
  /\ ~active.quiet
  /\ active' = [active EXCEPT !.quiet = TRUE]
  /\ UNCHANGED nextSession

\* check_timeout, when it drops the session.
DropQuietSession ==
  /\ active # None
  /\ active.quiet
  /\ active' = None
  /\ UNCHANGED nextSession
=============================================================================
