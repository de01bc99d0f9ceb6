------------------------------ MODULE AuthSession ------------------------------
(***************************************************************************)
(* The Auth Service's accounts and refresh tokens: register, login, the    *)
(* rotation of a refresh token and logout, one action per await.  A        *)
(* rotation looks the token up, looks its owner up, revokes the token and  *)
(* inserts its heir in four steps that nothing ties together.  The token   *)
(* rows that descend from one login are its session.                       *)
(***************************************************************************)
CONSTANTS Emails, Tokens,
          Calls,        \* calls the service can be serving
          NoToken, Nobody

ASSUME NoTokenIsNoToken == NoToken \notin Tokens
ASSUME NobodyHasNoEmail == Nobody \notin Emails

VARIABLES account,      \* users: status of the row with this email
          token,        \* refresh_tokens: what a row is good for
          holder,       \* whose it is
          from,         \* auxiliary: the token it was exchanged for
          session,      \* auxiliary: the first token of its session
          call          \* where each call is

rows == <<token, holder, from, session>>
vars == <<account, rows, call>>

Statuses == {"ACTIVE", "INACTIVE", "SUSPENDED"}
TokenStates == {"unissued", "live", "expired", "revoked"}
Issued(t) == token[t] # "unissued"

Ends == {"idle", "ok", "rejected", "failed"}
Awaits == {"exists", "insert", "account", "password", "find", "owner", "revoke", "issue"}
Running(c) == call[c].at \in Awaits
Idle(a) == [at |-> a, op |-> "none", email |-> Nobody, token |-> NoToken]
Await(c, step) == call' = [call EXCEPT ![c].at = step]
End(c, a) == call' = [call EXCEPT ![c] = Idle(a)]

-------------------------------------------------------------------------------
Init ==
  /\ account = [e \in Emails |-> "NONE"]
  /\ token = [t \in Tokens |-> "unissued"]
  /\ holder = [t \in Tokens |-> Nobody]
  /\ from = [t \in Tokens |-> NoToken]
  /\ session = [t \in Tokens |-> t]
  /\ call = [c \in Calls |-> Idle("idle")]

Receive(c, op, e, t, step) ==
  /\ ~Running(c)
  /\ call' = [call EXCEPT ![c] = [at |-> step, op |-> op, email |-> e, token |-> t]]
  /\ UNCHANGED <<account, rows>>

Register(c, e) == Receive(c, "register", e, NoToken, "exists")
Login(c, e) == Receive(c, "login", e, NoToken, "account")

\* Only a token that was handed out can be presented; all others are refused.
Refresh(c, t) == Issued(t) /\ Receive(c, "refresh", holder[t], t, "find")
Logout(c, t) == Issued(t) /\ Receive(c, "logout", holder[t], t, "find")

EmailExists(c) ==
  /\ call[c].at = "exists"
  /\ IF account[call[c].email] # "NONE" THEN End(c, "rejected") ELSE Await(c, "insert")
  /\ UNCHANGED <<account, rows>>

\* The unique index on email lets one of two registrations win.
CreateUser(c) ==
  /\ call[c].at = "insert"
  /\ IF account[call[c].email] # "NONE"
     THEN End(c, "failed") /\ UNCHANGED account
     ELSE /\ Await(c, "issue")
          /\ account' = [account EXCEPT ![call[c].email] = "ACTIVE"]
  /\ UNCHANGED rows

FindUser(c) ==
  /\ call[c].at = "account"
  /\ IF account[call[c].email] = "ACTIVE" THEN Await(c, "password")
                                          ELSE End(c, "rejected")
  /\ UNCHANGED <<account, rows>>

\* bcrypt.compare, and if the password is right updateLastLogin.
CheckPassword(c) ==
  /\ call[c].at = "password"
  /\ Await(c, "issue") \/ End(c, "rejected")
  /\ UNCHANGED <<account, rows>>

\* Mutant: a revoked token is as good as a live one.
FindRowOnly(c) ==
  /\ call[c].at = "find"
  /\ Await(c, IF call[c].op = "refresh" THEN "owner" ELSE "revoke")
  /\ UNCHANGED <<account, rows>>

\* A refresh wants a token that is neither revoked nor expired; a logout has
\* nothing to do for one that is revoked.
FindToken(c) ==
  LET s == token[call[c].token]
  IN  /\ call[c].at = "find"
      /\ IF call[c].op = "refresh"
         THEN IF s = "live" THEN Await(c, "owner") ELSE End(c, "rejected")
         ELSE IF s = "revoked" THEN End(c, "ok") ELSE Await(c, "revoke")
      /\ UNCHANGED <<account, rows>>

\* Mutant: the owner must exist, whatever its status.
FindAnyOwner(c) ==
  /\ call[c].at = "owner"
  /\ Await(c, "revoke")
  /\ UNCHANGED <<account, rows>>

FindOwner(c) ==
  /\ call[c].at = "owner"
  /\ IF account[call[c].email] = "ACTIVE" THEN Await(c, "revoke") ELSE End(c, "rejected")
  /\ UNCHANGED <<account, rows>>

\* Mutant: the heir is inserted and the token is not revoked.
RevokeNothing(c) ==
  /\ call[c].at = "revoke"
  /\ IF call[c].op = "refresh" THEN Await(c, "issue") ELSE End(c, "ok")
  /\ UNCHANGED <<account, rows>>

\* An UPDATE by token string, whatever the row says by now.
Revoke(c) ==
  /\ call[c].at = "revoke"
  /\ token' = [token EXCEPT ![call[c].token] = "revoked"]
  /\ IF call[c].op = "refresh" THEN Await(c, "issue") ELSE End(c, "ok")
  /\ UNCHANGED <<account, holder, from, session>>

\* refreshTokenRepository.create and the answer; 40 random bytes are new.
Issue(c) ==
  /\ call[c].at = "issue"
  /\ \E t \in Tokens :
       /\ ~Issued(t)
       /\ token' = [token EXCEPT ![t] = "live"]
       /\ holder' = [holder EXCEPT ![t] = call[c].email]
       /\ from' = [from EXCEPT ![t] = call[c].token]
       /\ session' = [session EXCEPT ![t] =
                        IF call[c].op = "refresh" THEN session[call[c].token] ELSE t]
  /\ End(c, "ok")
  /\ UNCHANGED account

\* A query fails: 5xx, and what was written stays.
FailCall(c) ==
  /\ Running(c)
  /\ End(c, "failed")
  /\ UNCHANGED <<account, rows>>

AuthServiceStops ==
  /\ \E c \in Calls : Running(c)
  /\ call' = [c \in Calls |-> IF Running(c) THEN Idle("failed") ELSE call[c]]
  /\ UNCHANGED <<account, rows>>

\* expiresAt passes.
Expire(t) ==
  /\ token[t] = "live"
  /\ token' = [token EXCEPT ![t] = "expired"]
  /\ UNCHANGED <<account, holder, from, session, call>>

\* An administrator sets users.status, which no endpoint does.
SetStatus(e, s) ==
  /\ account[e] # "NONE"
  /\ account' = [account EXCEPT ![e] = s]
  /\ UNCHANGED <<rows, call>>

Handle(c) ==
  \/ EmailExists(c) \/ CreateUser(c) \/ FindUser(c) \/ CheckPassword(c)
  \/ FindToken(c) \/ FindOwner(c) \/ Revoke(c) \/ Issue(c) \/ FailCall(c)

Next ==
  \/ \E c \in Calls :
       \/ \E e \in Emails : Register(c, e) \/ Login(c, e)
       \/ \E t \in Tokens : Refresh(c, t) \/ Logout(c, t)
       \/ Handle(c)
  \/ AuthServiceStops
  \/ \E t \in Tokens : Expire(t)
  \/ \E e \in Emails, s \in Statuses : SetStatus(e, s)

Spec == Init /\ [][Next]_vars

-------------------------------------------------------------------------------
Quiet == [at : Ends, op : {"none"}, email : {Nobody}, token : {NoToken}]
Entering ==
  [at : {"exists", "insert", "issue"}, op : {"register"}, email : Emails, token : {NoToken}]
    \cup [at : {"account", "password", "issue"}, op : {"login"}, email : Emails,
          token : {NoToken}]
Presenting ==
  [at : {"find", "owner", "revoke", "issue"}, op : {"refresh"}, email : Emails,
   token : Tokens]
    \cup [at : {"find", "revoke"}, op : {"logout"}, email : Emails, token : Tokens]

TypeOK ==
  /\ account \in [Emails -> Statuses \cup {"NONE"}]
  /\ token \in [Tokens -> TokenStates]
  /\ holder \in [Tokens -> Emails \cup {Nobody}]
  /\ from \in [Tokens -> Tokens \cup {NoToken}]
  /\ session \in [Tokens -> Tokens]
  /\ call \in [Calls -> Quiet \cup Entering \cup Presenting]

(***************************************************************************)
(* A token that was exchanged is revoked: wherever a rotation is cut       *)
(* short, a token and its heir are never both good.                        *)
(***************************************************************************)
ExchangedAreRevoked ==
  \A t \in Tokens : from[t] # NoToken => token[from[t]] = "revoked"

(***************************************************************************)
(* A session whose tokens are all spent, with no rotation of it under way, *)
(* stays ended: no retried or late call brings it back.  (Logging out ends *)
(* it only if no rotation of it is under way.)                             *)
(***************************************************************************)
Rotating(c, s) ==
  /\ call[c].op = "refresh"
  /\ call[c].at \in {"owner", "revoke", "issue"}
  /\ session[call[c].token] = s

Ended(s) ==
  /\ Issued(s)
  /\ \A t \in Tokens : session[t] = s => token[t] # "live"
  /\ \A c \in Calls : ~Rotating(c, s)

EndedStaysEnded == [][\A s \in Tokens : Ended(s) => Ended(s)']_vars

(***************************************************************************)
(* An account that is not active is given no token, except by a call that  *)
(* had already found it active.                                            *)
(***************************************************************************)
Vouched(c, e) ==
  /\ call[c].email = e /\ call[c].op # "logout"
  /\ call[c].at \in {"password", "revoke", "issue"}

Barred(e) == account[e] # "ACTIVE" /\ \A c \in Calls : ~Vouched(c, e)

TokensOf(e) == {t \in Tokens : Issued(t) /\ holder[t] = e}

InactiveGetNoToken ==
  [][\A e \in Emails :
       Barred(e) /\ account'[e] # "ACTIVE" =>
         Barred(e)' /\ TokensOf(e)' \subseteq TokensOf(e)]_vars

(***************************************************************************)
(* A session has two good tokens only because one token of it was          *)
(* exchanged twice, by rotations that overlapped.                          *)
(***************************************************************************)
Twins(s) ==
  \E t, u \in Tokens : t # u /\ session[t] = s /\ from[t] = from[u] /\ from[t] # NoToken

OnlyTwinsAreBothLive ==
  \A t, u \in Tokens :
    t # u /\ token[t] = "live" /\ token[u] = "live" /\ session[t] = session[u]
      => Twins(session[t])

-------------------------------------------------------------------------------
(* What these rest on: a rotation inserts the heir of a token it has       *)
(* revoked, and a session's tokens are those of one user.                  *)
RevokedBeforeIssue ==
  \A c \in Calls :
    call[c].at = "issue" /\ call[c].op = "refresh" => token[call[c].token] = "revoked"

PresentedAreIssued ==
  \A c \in Calls : call[c].token \in Tokens => Issued(call[c].token)

RowsAgree ==
  \A t \in Tokens :
    IF Issued(t)
    THEN holder[t] \in Emails /\ Issued(session[t])
    ELSE holder[t] = Nobody /\ from[t] = NoToken /\ session[t] = t

AuthInv ==
  TypeOK /\ ExchangedAreRevoked /\ RevokedBeforeIssue /\ PresentedAreIssued /\ RowsAgree

(* And what the last one rests on: a token descends within its session,    *)
(* and a session that was not forked has one token at its end.             *)
Exchanged(t) == \E u \in Tokens : from[u] = t

DescendsInSession ==
  \A t \in Tokens : from[t] # NoToken => session[t] = session[from[t]]

ForksHaveTwins ==
  \A t, u \in Tokens :
    /\ t # u /\ Issued(t) /\ Issued(u) /\ session[t] = session[u]
    /\ ~Exchanged(t) /\ ~Exchanged(u)
    => Twins(session[t])

SessionInv == AuthInv /\ DescendsInSession /\ ForksHaveTwins
===============================================================================
