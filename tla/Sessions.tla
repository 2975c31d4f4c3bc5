------------------------------ MODULE Sessions -------------------------------
(***************************************************************************)
(* Logging in and out, and the list of active sessions that an account     *)
(* shows (accounts.views, the JSON views and accounts.services).           *)
(*                                                                         *)
(* A browser has one session of the framework, saved with the response. A  *)
(* login leaves a row with the session's key, by which a logout finds it;  *)
(* logins by the JSON views are rows without a key.  A browser sends one   *)
(* request at a time.                                                      *)
(***************************************************************************)
EXTENDS Requests, Integers, Sequences, FiniteSets

CONSTANTS
  Browser,   \* browsers
  Member,    \* accounts, their addresses verified
  MaxKeys,   \* bound: session keys ever made
  MaxRows    \* bound: rows ever made

VARIABLES
  session,   \* session[b]: what is stored for the browser's cookie
  factor,    \* the members that have a second factor on
  listed,    \* listed[i]: the i-th row of UserSession
  made,      \* keys made so far
  hidden,    \* history: keys whose rows are off the list before their sessions end
  over       \* history: keys that were logged out

vars == <<calls, session, factor, listed, made, hidden, over>>

NoKey == 0
Nobody == Idle
Anonymous == [key |-> NoKey, user |-> Nobody, pending |-> Nobody]

Session == [key : 0..MaxKeys, user : Member \cup {Nobody}, pending : Member \cup {Nobody}]
Row == [user : Member, key : 0..MaxKeys, active : BOOLEAN]

SessionJobs ==
  [do : {"login", "record", "respond", "logout", "flush"},
   on : Browser, row : Session, old : BOOLEAN]

TypeOK ==
  /\ session \in [Browser -> Session]
  /\ factor \subseteq Member
  /\ DOMAIN listed \subseteq 1..MaxRows /\ \A i \in DOMAIN listed : listed[i] \in Row
  /\ made \in 0..MaxKeys
  /\ hidden \subseteq 1..MaxKeys /\ over \subseteq 1..MaxKeys
  /\ \A c \in Call : calls[c] # Idle => calls[c] \in SessionJobs

Init ==
  /\ session = [b \in Browser |-> Anonymous]
  /\ factor = {}
  /\ listed = <<>>
  /\ made = 0
  /\ hidden = {} /\ over = {}
  /\ calls = [c \in Call |-> Idle]

-----------------------------------------------------------------------------
Rests(b) == \A c \in Call : calls[c] # Idle => calls[c].on # b
BeginLogin(c, b, u, pending) ==
  Rests(b) /\ Begin(c, Job("login", b, [user |-> u, key |-> NoKey, pending |-> pending]))
RowsOf(u, key) == {i \in DOMAIN listed : listed[i].user = u /\ listed[i].key = key /\ listed[i].active}

Deactivate(ids) ==
  listed' = [i \in DOMAIN listed |-> IF i \in ids THEN [listed[i] EXCEPT !.active = FALSE] ELSE listed[i]]

AddRow(u, key) ==
  /\ Cardinality(DOMAIN listed) < MaxRows
  /\ listed' = Append(listed, [user |-> u, key |-> key, active |-> TRUE])

-----------------------------------------------------------------------------
(* Logging in with the browser *)

\* The right password, no second factor.
CheckPassword(c, b, u) ==
  /\ u \notin factor
  /\ BeginLogin(c, b, u, session[b].pending)
  /\ UNCHANGED <<session, factor, listed, made, hidden, over>>

\* With a second factor on the session only remembers who gave the password.
AskForCode(b, u) ==
  /\ u \in factor /\ Rests(b)
  /\ IF session[b].key # NoKey
     THEN session' = [session EXCEPT ![b].pending = u] /\ UNCHANGED made
     ELSE /\ made < MaxKeys /\ made' = made + 1
          /\ session' = [session EXCEPT ![b] = [key |-> made', user |-> Nobody, pending |-> u]]
  /\ UNCHANGED <<calls, factor, listed, hidden, over>>

\* The code counts only while the factor is on.
CheckCode(c, b) ==
  /\ session[b].pending \in factor
  /\ BeginLogin(c, b, session[b].pending, Nobody)
  /\ UNCHANGED <<session, factor, listed, made, hidden, over>>

GoogleLogin(c, b, u) ==
  /\ BeginLogin(c, b, u, session[b].pending)
  /\ UNCHANGED <<session, factor, listed, made, hidden, over>>

\* django_login: the session of another user is deleted and gets a key only
\* when it is saved; an anonymous one gets a new key at once; the user's own
\* session goes on.
SignIn(c) ==
  LET b == calls[c].on  u == calls[c].row.user IN
  /\ Does(c, "login")
  /\ \/ session[b].user = u
        /\ Goes(c, [calls[c] EXCEPT !.do = "record", !.row.key = session[b].key])
        /\ UNCHANGED <<session, made>>
     \/ session[b].user = Nobody /\ made < MaxKeys
        /\ made' = made + 1
        /\ session' = [session EXCEPT ![b] = Anonymous]
        /\ Goes(c, [calls[c] EXCEPT !.do = "record", !.row.key = made'])
     \/ session[b].user \notin {u, Nobody}
        /\ session' = [session EXCEPT ![b] = Anonymous]
        /\ Goes(c, [calls[c] EXCEPT !.do = "record", !.row.pending = Nobody])
        /\ UNCHANGED made
  /\ UNCHANGED <<factor, listed, hidden, over>>

\* Mutant: the row does not say which session it is about.
KeyRecordedBlank(job) == NoKey

KeyRecorded(job) == job.row.key

RecordLogin(c) ==
  /\ Does(c, "record")
  /\ AddRow(calls[c].row.user, KeyRecorded(calls[c]))
  /\ Goes(c, [calls[c] EXCEPT !.do = "respond"])
  /\ UNCHANGED <<session, factor, made, hidden, over>>

\* The session is saved, under a new key if it has none yet.
Respond(c) ==
  LET job == calls[c] IN
  /\ Does(c, "respond")
  /\ job.row.key = NoKey => made < MaxKeys
  /\ made' = IF job.row.key = NoKey THEN made + 1 ELSE made
  /\ session' = [session EXCEPT ![job.on] =
       [key |-> IF job.row.key = NoKey THEN made' ELSE job.row.key, user |-> job.row.user, pending |-> job.row.pending]]
  /\ hidden' = IF job.row.key = NoKey THEN hidden \cup {made'} ELSE hidden
  /\ End(c)
  /\ UNCHANGED <<factor, listed, over>>

-----------------------------------------------------------------------------
(* Logging out *)

StartLogout(c, b) ==
  /\ session[b].user # Nobody /\ Rests(b)
  /\ Begin(c, Job("logout", b, session[b]))
  /\ UNCHANGED <<session, factor, listed, made, hidden, over>>

\* Every active row of the session: logging in again has made several.
ToLogOut(u, key) == RowsOf(u, key)

TakeOffList(c) ==
  /\ Does(c, "logout")
  /\ Deactivate(ToLogOut(calls[c].row.user, calls[c].row.key))
  /\ hidden' = hidden \cup {calls[c].row.key}
  /\ Goes(c, [calls[c] EXCEPT !.do = "flush"])
  /\ UNCHANGED <<session, factor, made, over>>

Flush(c) ==
  /\ Does(c, "flush")
  /\ session' = [session EXCEPT ![calls[c].on] = Anonymous]
  /\ over' = over \cup {calls[c].row.key}
  /\ hidden' = hidden \ {calls[c].row.key}
  /\ End(c)
  /\ UNCHANGED <<factor, listed, made>>

\* A process is lost, or the response with its session is.
LoseCall(c) == calls[c] # Idle /\ End(c) /\ UNCHANGED <<session, factor, listed, made, hidden, over>>

-----------------------------------------------------------------------------
(* Without a browser's session *)

\* Tokens instead of a session: with a second factor on, the password earns a
\* token that only says who gave it, and the code is asked for next.
ApiLogin(u) ==
  /\ u \notin factor
  /\ AddRow(u, NoKey)
  /\ UNCHANGED <<calls, session, factor, made, hidden, over>>

ApiCodeLogin(u) ==
  /\ u \in factor
  /\ AddRow(u, NoKey)
  /\ UNCHANGED <<calls, session, factor, made, hidden, over>>

ApiGoogleLogin(u) ==
  /\ AddRow(u, NoKey)
  /\ UNCHANGED <<calls, session, factor, made, hidden, over>>

\* The token is taken back, and all of the user's rows are taken off the list.
ApiLogout(u) ==
  LET ids == {i \in DOMAIN listed : listed[i].user = u /\ listed[i].active} IN
  /\ ids # {}
  /\ Deactivate(ids)
  /\ hidden' = hidden \cup ({listed[i].key : i \in ids} \ {NoKey})
  /\ UNCHANGED <<calls, session, factor, made, over>>

\* The user takes a session off the list; the session itself goes on.
RevokeSession(i) ==
  /\ listed[i].active
  /\ Deactivate({i})
  /\ hidden' = hidden \cup ({listed[i].key} \ {NoKey})
  /\ UNCHANGED <<calls, session, factor, made, over>>

\* The sweep goes by last_seen_at, which is the time of the login.
CleanUpSessions(last) ==
  LET ids == {i \in 1..last : listed[i].active} IN
  /\ ids # {}
  /\ Deactivate(ids)
  /\ hidden' = hidden \cup ({listed[i].key : i \in ids} \ {NoKey})
  /\ UNCHANGED <<calls, session, factor, made, over>>

TurnFactor(u) ==
  /\ factor' = IF u \in factor THEN factor \ {u} ELSE factor \cup {u}
  /\ UNCHANGED <<calls, session, listed, made, hidden, over>>

-----------------------------------------------------------------------------
Next ==
  \/ \E c \in Call :
       \/ SignIn(c) \/ RecordLogin(c) \/ Respond(c) \/ TakeOffList(c) \/ Flush(c) \/ LoseCall(c)
       \/ \E b \in Browser : CheckCode(c, b) \/ StartLogout(c, b)
       \/ \E b \in Browser, u \in Member : CheckPassword(c, b, u) \/ GoogleLogin(c, b, u)
  \/ \E b \in Browser, u \in Member : AskForCode(b, u)
  \/ \E u \in Member : ApiLogin(u) \/ ApiCodeLogin(u) \/ ApiGoogleLogin(u) \/ ApiLogout(u) \/ TurnFactor(u)
  \/ \E i \in DOMAIN listed : RevokeSession(i) \/ CleanUpSessions(i)

Spec == Init /\ [][Next]_vars

-----------------------------------------------------------------------------
(* What holds *)

\* A browser that is signed in is on its user's list of active sessions, from
\* its first response on, unless its row was taken off by a revocation, a
\* logout of the JSON views or a logout lost half way, or it changed users; and
\* a session that was logged out is on the list no more.
SessionsListed ==
  /\ \A b \in Browser : session[b].user # Nobody =>
       session[b].key \in hidden \/ RowsOf(session[b].user, session[b].key) # {}
  /\ \A i \in DOMAIN listed : listed[i].key \in over => ~listed[i].active

=============================================================================
