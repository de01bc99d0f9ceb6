------------------------- MODULE BrowserSession_proofs -------------------------
(***************************************************************************)
(* Refresh-token rotation in the Auth Service, for any accounts, tokens    *)
(* and overlapping calls; then the session of a browser over it, for any   *)
(* tabs.                                                                   *)
(***************************************************************************)
EXTENDS BrowserSession, TLAPS

USE NoTokenIsNoToken, NobodyHasNoEmail
USE DEF Ends, Awaits, Statuses, TokenStates, Issued, Running, Idle, Await, End, rows

LEMMA AuthInit == Init => AuthInv
  BY DEF Init, AuthInv, TypeOK, Quiet, ExchangedAreRevoked,
         RevokedBeforeIssue, PresentedAreIssued, RowsAgree

(* A step that touches no token keeps the invariant if the calls it moves  *)
(* may be where they are now, and none of them goes to insert an heir or   *)
(* presents another token.                                                 *)
LEMMA RowsUntouched ==
  ASSUME AuthInv, UNCHANGED rows, account' \in [Emails -> Statuses \cup {"NONE"}],
         call' \in [Calls -> Quiet \cup Entering \cup Presenting],
         \A c \in Calls : call'[c].op = "refresh" /\ call'[c].at = "issue"
                            => call'[c] = call[c],
         \A c \in Calls : call'[c].token \in Tokens =>
                            call'[c].token = call[c].token \/ Issued(call'[c].token)
  PROVE  AuthInv'
  BY DEF AuthInv, TypeOK, ExchangedAreRevoked, RowsAgree, RevokedBeforeIssue,
         PresentedAreIssued

LEMMA ReceiveInv ==
  ASSUME AuthInv, NEW c \in Calls, NEW op, NEW e \in Emails,
         NEW t \in Tokens \cup {NoToken}, NEW step, Receive(c, op, e, t, step),
         \/ op = "register" /\ t = NoToken /\ step = "exists"
         \/ op = "login" /\ t = NoToken /\ step = "account"
         \/ op \in {"refresh", "logout"} /\ t \in Tokens /\ Issued(t) /\ step = "find"
  PROVE  AuthInv'
<1> USE DEF Receive, AuthInv, TypeOK
<1>1. [at |-> step, op |-> op, email |-> e, token |-> t] \in Entering \cup Presenting
  BY DEF Entering, Presenting
<1>2. call' \in [Calls -> Quiet \cup Entering \cup Presenting]
  BY <1>1
<1>3. QED BY <1>2, RowsUntouched

LEMMA LookUpInv ==
  ASSUME AuthInv, NEW c \in Calls,
         \/ EmailExists(c) \/ FindUser(c) \/ CheckPassword(c) \/ FindToken(c)
         \/ FindOwner(c) \/ FailCall(c)
  PROVE  AuthInv'
<1> USE DEF AuthInv, TypeOK, EmailExists, FindUser, CheckPassword, FindToken,
            FindOwner, FailCall
<1>1. call'[c] \in Quiet \cup Entering \cup Presenting
  BY DEF Quiet, Entering, Presenting
<1>2. call' \in [Calls -> Quiet \cup Entering \cup Presenting]
  BY <1>1
<1>3. \A d \in Calls : call'[d].op = "refresh" /\ call'[d].at = "issue"
                            => call'[d] = call[d]
  BY DEF Quiet, Entering, Presenting
<1>4. \A d \in Calls : call'[d].token \in Tokens => call'[d].token = call[d].token
  BY DEF Quiet, Entering, Presenting
<1>5. UNCHANGED rows /\ account' \in [Emails -> Statuses \cup {"NONE"}]
  OBVIOUS
<1>6. QED BY <1>2, <1>3, <1>4, <1>5, RowsUntouched

LEMMA CreateUserInv ==
  ASSUME AuthInv, NEW c \in Calls, CreateUser(c)
  PROVE  AuthInv'
<1> USE DEF AuthInv, TypeOK, CreateUser
<1>1. call'[c] \in Quiet \cup Entering /\ call'[c].op # "refresh"
  BY DEF Quiet, Entering, Presenting
<1>2. call' \in [Calls -> Quiet \cup Entering \cup Presenting]
  BY <1>1
<1>3. account' \in [Emails -> Statuses \cup {"NONE"}]
  BY DEF Entering, Presenting, Quiet
<1>4. \A d \in Calls : /\ call'[d].op = "refresh" => call'[d] = call[d]
                       /\ call'[d].token \in Tokens => call'[d] = call[d]
  BY <1>1 DEF Quiet, Entering
<1>5. QED BY <1>2, <1>3, <1>4, RowsUntouched

LEMMA RevokeInv ==
  ASSUME AuthInv, NEW c \in Calls, Revoke(c)
  PROVE  AuthInv'
<1> USE DEF AuthInv, TypeOK, Revoke
<1>1. call[c] \in Presenting
  BY DEF Quiet, Entering
<1>2. call'[c] \in Quiet \cup Presenting
  BY <1>1 DEF Quiet, Presenting
<1>3. TypeOK'
  BY <1>1, <1>2
<1>4. /\ token'[call[c].token] = "revoked" /\ call[c].token \in Tokens
      /\ \A t \in Tokens : token'[t] = token[t] \/ token'[t] = "revoked"
      /\ \A t \in Tokens : Issued(t)' <=> Issued(t)
  BY <1>1 DEF Presenting, PresentedAreIssued
<1>5. ExchangedAreRevoked' /\ RowsAgree'
  BY <1>4 DEF ExchangedAreRevoked, RowsAgree
<1>6. RevokedBeforeIssue' /\ PresentedAreIssued'
  BY <1>1, <1>2, <1>4 DEF RevokedBeforeIssue, PresentedAreIssued, Presenting, Quiet
<1>7. QED BY <1>3, <1>5, <1>6

LEMMA IssueInv ==
  ASSUME AuthInv, NEW c \in Calls, Issue(c)
  PROVE  AuthInv'
<1> USE DEF AuthInv, TypeOK
<1>1. PICK t \in Tokens :
        /\ ~Issued(t)
        /\ token' = [token EXCEPT ![t] = "live"]
        /\ holder' = [holder EXCEPT ![t] = call[c].email]
        /\ from' = [from EXCEPT ![t] = call[c].token]
        /\ session' = [session EXCEPT ![t] =
                         IF call[c].op = "refresh" THEN session[call[c].token] ELSE t]
  BY DEF Issue
<1>2. /\ call' = [call EXCEPT ![c] = Idle("ok")] /\ account' = account
      /\ call[c] \in Entering \cup Presenting /\ call[c].at = "issue"
  BY DEF Issue, Quiet
<1>3. /\ call[c].email \in Emails /\ call[c].token \in Tokens \cup {NoToken}
      /\ call[c].op = "refresh" <=> call[c].token \in Tokens
  BY <1>2 DEF Entering, Presenting
<1>4. TypeOK'
  BY <1>1, <1>2, <1>3 DEF Quiet
<1>5. ExchangedAreRevoked'
  BY <1>1, <1>3, <1>2 DEF ExchangedAreRevoked, RevokedBeforeIssue
<1>6. RevokedBeforeIssue' /\ PresentedAreIssued'
  BY <1>1, <1>2 DEF RevokedBeforeIssue, PresentedAreIssued
<1>7. RowsAgree'
  BY <1>1, <1>2, <1>3 DEF RowsAgree, PresentedAreIssued
<1>8. QED BY <1>4, <1>5, <1>6, <1>7

LEMMA EnvironmentInv ==
  ASSUME AuthInv,
         \/ \E t \in Tokens : Expire(t)
         \/ \E e \in Emails, s \in Statuses : SetStatus(e, s)
         \/ AuthServiceStops
  PROVE  AuthInv'
<1> USE DEF AuthInv, TypeOK
<1>1. ASSUME NEW t \in Tokens, Expire(t) PROVE AuthInv'
  BY <1>1 DEF Expire, ExchangedAreRevoked, RevokedBeforeIssue, PresentedAreIssued,
              RowsAgree
<1>2. ASSUME NEW e \in Emails, NEW s \in Statuses, SetStatus(e, s) PROVE AuthInv'
  BY <1>2, RowsUntouched DEF SetStatus
<1>3. CASE AuthServiceStops
  <2>1. call' \in [Calls -> Quiet \cup Entering \cup Presenting]
    BY <1>3 DEF AuthServiceStops, Quiet
  <2>2. QED BY <1>3, <2>1, RowsUntouched DEF AuthServiceStops
<1>4. QED BY <1>1, <1>2, <1>3

LEMMA AuthNext == AuthInv /\ [Next]_vars => AuthInv'
<1> SUFFICES ASSUME AuthInv, [Next]_vars PROVE AuthInv'
  OBVIOUS
<1>1. ASSUME NEW c \in Calls, NEW e \in Emails, Register(c, e) \/ Login(c, e)
      PROVE  AuthInv'
  BY <1>1, ReceiveInv DEF Register, Login
<1>2. ASSUME NEW c \in Calls, NEW t \in Tokens, Refresh(c, t) \/ Logout(c, t)
      PROVE  AuthInv'
  <2>1. holder[t] \in Emails
    BY <1>2 DEF Refresh, Logout, AuthInv, RowsAgree
  <2>2. QED BY <1>2, <2>1, ReceiveInv DEF Refresh, Logout
<1>3. ASSUME NEW c \in Calls, Handle(c) PROVE AuthInv'
  BY <1>3, LookUpInv, CreateUserInv, RevokeInv, IssueInv DEF Handle
<1>4. CASE UNCHANGED vars
  BY <1>4, RowsUntouched DEF vars, AuthInv, TypeOK
<1>5. QED BY <1>1, <1>2, <1>3, <1>4, EnvironmentInv DEF Next

(* The inductive invariant of accounts, tokens and calls; in particular a  *)
(* token and its heir are never both good, wherever a rotation is cut.     *)
THEOREM AuthSafety == Spec => []AuthInv
  BY AuthInit, AuthNext, PTL DEF Spec

-------------------------------------------------------------------------------
(* A step that hands out no token ends no session's end if it starts no    *)
(* rotation of it: one starts only from a live token.                      *)
LEMMA NoRotationStarts ==
  ASSUME AuthInv, NEW s \in Tokens, Ended(s), UNCHANGED session,
         \A t \in Tokens : token'[t] = "live" => token[t] = "live",
         \A t \in Tokens : Issued(t) => Issued(t)',
         \A c \in Calls :
           /\ call'[c].op = "refresh" /\ call'[c].at \in {"owner", "revoke", "issue"}
           => /\ call[c].op = "refresh" /\ call'[c].token = call[c].token
              /\ \/ call[c].at \in {"owner", "revoke", "issue"}
                 \/ call[c].token \in Tokens /\ token[call[c].token] = "live"
  PROVE  Ended(s)'
  BY DEF Ended, Rotating

LEMMA IssueKeepsEnded ==
  ASSUME AuthInv, NEW s \in Tokens, Ended(s), NEW c \in Calls, Issue(c)
  PROVE  Ended(s)'
<1> USE DEF AuthInv, TypeOK
<1>1. PICK t \in Tokens :
        /\ ~Issued(t)
        /\ token' = [token EXCEPT ![t] = "live"]
        /\ session' = [session EXCEPT ![t] =
                         IF call[c].op = "refresh" THEN session[call[c].token] ELSE t]
  BY DEF Issue
<1>2. call' = [call EXCEPT ![c] = Idle("ok")] /\ call[c].at = "issue"
  BY DEF Issue
<1>3. t # s /\ session'[t] # s
  BY <1>1, <1>2 DEF Ended, Rotating
<1>4. Issued(s)' /\ \A u \in Tokens : session'[u] = s => token'[u] # "live"
  BY <1>1, <1>3 DEF Ended
<1>5. \A d \in Calls : ~Rotating(d, s)'
  <2> SUFFICES ASSUME NEW d \in Calls, Rotating(d, s)' PROVE FALSE
    OBVIOUS
  <2>1. d # c /\ call'[d] = call[d]
    BY <1>2 DEF Rotating
  <2>2. call[d].token \in Tokens
    BY <2>1 DEF Rotating, Quiet, Entering, Presenting
  <2>3. session'[call[d].token] = session[call[d].token]
    BY <1>1, <2>2 DEF PresentedAreIssued
  <2>4. QED BY <2>1, <2>3 DEF Rotating, Ended
<1>6. QED BY <1>4, <1>5 DEF Ended

LEMMA EndedNext ==
  ASSUME AuthInv, [Next]_vars, NEW s \in Tokens, Ended(s)
  PROVE  Ended(s)'
<1> USE DEF AuthInv, TypeOK
<1>1. ASSUME NEW c \in Calls, NEW op, NEW e, NEW t, NEW step \in {"exists", "account", "find"},
             Receive(c, op, e, t, step)
      PROVE  Ended(s)'
  BY <1>1, NoRotationStarts DEF Receive
<1>2. ASSUME NEW c \in Calls,
             \/ EmailExists(c) \/ CreateUser(c) \/ FindUser(c) \/ CheckPassword(c)
             \/ FindToken(c) \/ FindOwner(c) \/ FailCall(c)
      PROVE  Ended(s)'
  <2>1. UNCHANGED rows /\ \A d \in Calls : d # c => call'[d] = call[d]
    BY <1>2 DEF EmailExists, CreateUser, FindUser, CheckPassword, FindToken,
                FindOwner, FailCall
  <2>2. call'[c].op = "refresh" /\ call'[c].at \in {"owner", "revoke", "issue"}
           => /\ call[c].op = "refresh" /\ call'[c].token = call[c].token
              /\ \/ call[c].at \in {"owner", "revoke", "issue"}
                 \/ call[c].token \in Tokens /\ token[call[c].token] = "live"
    BY <1>2 DEF EmailExists, CreateUser, FindUser, CheckPassword, FindToken,
                FindOwner, FailCall, Quiet, Entering, Presenting
  <2>3. QED BY <2>1, <2>2, NoRotationStarts
<1>3. ASSUME NEW c \in Calls, Revoke(c) PROVE Ended(s)'
  <2>1. /\ UNCHANGED session
        /\ \A t \in Tokens : token'[t] = "live" => token[t] = "live"
        /\ \A t \in Tokens : Issued(t) => Issued(t)'
    BY <1>3 DEF Revoke
  <2>2. /\ call[c].at = "revoke" /\ \A d \in Calls : d # c => call'[d] = call[d]
        /\ call'[c].op = "refresh" => call[c].op = "refresh" /\ call'[c].token = call[c].token
    BY <1>3 DEF Revoke, Quiet, Entering, Presenting
  <2>3. \A d \in Calls :
           /\ call'[d].op = "refresh" /\ call'[d].at \in {"owner", "revoke", "issue"}
           => /\ call[d].op = "refresh" /\ call'[d].token = call[d].token
              /\ \/ call[d].at \in {"owner", "revoke", "issue"}
                 \/ call[d].token \in Tokens /\ token[call[d].token] = "live"
    BY <2>2
  <2>4. QED BY <2>1, <2>3, NoRotationStarts
<1>4. ASSUME NEW t \in Tokens, Expire(t) PROVE Ended(s)'
  BY <1>4, NoRotationStarts DEF Expire
<1>5. ASSUME NEW e, NEW x, SetStatus(e, x) PROVE Ended(s)'
  BY <1>5, NoRotationStarts DEF SetStatus
<1>6. CASE AuthServiceStops
  BY <1>6, NoRotationStarts DEF AuthServiceStops
<1>7. CASE UNCHANGED vars
  BY <1>7, NoRotationStarts DEF vars
<1>8. QED
  BY <1>1, <1>2, <1>3, <1>4, <1>5, <1>6, <1>7, IssueKeepsEnded
     DEF Next, Handle, Register, Login, Refresh, Logout

(* A session that has ended stays ended, whatever calls are repeated.      *)
THEOREM EndedForGood == Spec => EndedStaysEnded
<1>1. AuthInv /\ [Next]_vars => [\A s \in Tokens : Ended(s) => Ended(s)']_vars
  BY EndedNext
<1>2. QED BY <1>1, AuthSafety, PTL DEF Spec, EndedStaysEnded

-------------------------------------------------------------------------------
(* Only an insertion hands out a token, and its call was vouched for; a    *)
(* call is vouched for by an account that is active.                       *)
LEMMA BarredNext ==
  ASSUME AuthInv, [Next]_vars, NEW e \in Emails, Barred(e), account'[e] # "ACTIVE"
  PROVE  Barred(e)' /\ TokensOf(e)' \subseteq TokensOf(e)
<1> USE DEF AuthInv, TypeOK, Barred, Vouched, TokensOf
<1>1. ASSUME NEW c \in Calls, NEW op, NEW x, NEW t, NEW step \in {"exists", "account", "find"},
             Receive(c, op, x, t, step)
      PROVE  Barred(e)' /\ TokensOf(e)' \subseteq TokensOf(e)
  BY <1>1 DEF Receive
<1>2. ASSUME NEW c \in Calls,
             \/ EmailExists(c) \/ CreateUser(c) \/ FindUser(c) \/ CheckPassword(c)
             \/ FindToken(c) \/ FindOwner(c) \/ FailCall(c)
      PROVE  Barred(e)' /\ TokensOf(e)' \subseteq TokensOf(e)
  <2>1. UNCHANGED rows /\ \A d \in Calls : d # c => call'[d] = call[d]
    BY <1>2 DEF EmailExists, CreateUser, FindUser, CheckPassword, FindToken,
                FindOwner, FailCall
  <2>2. ~Vouched(c, e)'
    BY <1>2 DEF EmailExists, CreateUser, FindUser, CheckPassword, FindToken,
                FindOwner, FailCall, Quiet, Entering, Presenting
  <2>3. QED BY <2>1, <2>2
<1>3. ASSUME NEW c \in Calls, Revoke(c)
      PROVE  Barred(e)' /\ TokensOf(e)' \subseteq TokensOf(e)
  <2>1. call[c].token \in Tokens /\ Issued(call[c].token)
    BY <1>3 DEF Revoke, PresentedAreIssued, Quiet, Entering, Presenting
  <2>2. TokensOf(e)' \subseteq TokensOf(e)
    BY <1>3, <2>1 DEF Revoke
  <2>3. Barred(e)'
    BY <1>3 DEF Revoke, Quiet, Entering, Presenting
  <2>4. QED BY <2>2, <2>3
<1>4. ASSUME NEW c \in Calls, Issue(c)
      PROVE  Barred(e)' /\ TokensOf(e)' \subseteq TokensOf(e)
  BY <1>4 DEF Issue, Quiet, Entering, Presenting
<1>5. ASSUME NEW t \in Tokens, Expire(t)
      PROVE  Barred(e)' /\ TokensOf(e)' \subseteq TokensOf(e)
  BY <1>5 DEF Expire
<1>6. ASSUME NEW x, NEW y, SetStatus(x, y)
      PROVE  Barred(e)' /\ TokensOf(e)' \subseteq TokensOf(e)
  BY <1>6 DEF SetStatus
<1>7. CASE AuthServiceStops
  BY <1>7 DEF AuthServiceStops
<1>8. CASE UNCHANGED vars
  BY <1>8 DEF vars
<1>9. QED
  BY <1>1, <1>2, <1>3, <1>4, <1>5, <1>6, <1>7, <1>8
     DEF Next, Handle, Register, Login, Refresh, Logout

(* Deactivating an account bites: only calls that had found it active      *)
(* already can still be given a token for it.                              *)
THEOREM DeactivationBites == Spec => InactiveGetNoToken
<1>1. AuthInv /\ [Next]_vars =>
        [\A e \in Emails :
           Barred(e) /\ account'[e] # "ACTIVE" =>
             Barred(e)' /\ TokensOf(e)' \subseteq TokensOf(e)]_vars
  BY BarredNext
<1>2. QED BY <1>1, AuthSafety, PTL DEF Spec, InactiveGetNoToken
-------------------------------------------------------------------------------
LEMMA SessionInit == Init => SessionInv
  BY AuthInit DEF Init, SessionInv, DescendsInSession, ForksHaveTwins

LEMMA TwinsRemain ==
  ASSUME AuthInv, NEW s \in Tokens, Twins(s),
         \A t \in Tokens : Issued(t) => from'[t] = from[t] /\ session'[t] = session[t]
  PROVE  Twins(s)'
  BY DEF Twins, AuthInv, RowsAgree

(* What hands out no token leaves the descent of the tokens as it is.      *)
LEMMA DescentUntouched ==
  ASSUME SessionInv, AuthInv', UNCHANGED <<from, session>>,
         \A t \in Tokens : Issued(t)' <=> Issued(t)
  PROVE  SessionInv'
  BY DEF SessionInv, DescendsInSession, ForksHaveTwins, Exchanged, Twins

LEMMA IssueForks ==
  ASSUME SessionInv, AuthInv', NEW c \in Calls, Issue(c)
  PROVE  SessionInv'
<1> USE DEF SessionInv, AuthInv, TypeOK
<1>1. PICK n \in Tokens :
        /\ ~Issued(n)
        /\ token' = [token EXCEPT ![n] = "live"]
        /\ from' = [from EXCEPT ![n] = call[c].token]
        /\ session' = [session EXCEPT ![n] =
                         IF call[c].op = "refresh" THEN session[call[c].token] ELSE n]
  BY DEF Issue
<1>2. /\ call[c].token \in Tokens \cup {NoToken}
      /\ call[c].op = "refresh" <=> call[c].token \in Tokens
      /\ call[c].token \in Tokens => Issued(call[c].token)
  BY DEF Issue, Quiet, Entering, Presenting, PresentedAreIssued
<1>3. \A t \in Tokens : from[t] # n
  BY <1>1 DEF ExchangedAreRevoked
<1>4. DescendsInSession'
  BY <1>1, <1>2, <1>3 DEF DescendsInSession
<1>5. \A t \in Tokens \ {n} :
        from'[t] = from[t] /\ session'[t] = session[t] /\ (Issued(t)' <=> Issued(t))
  BY <1>1
<1>6. \A s \in Tokens : Twins(s) => Twins(s)'
  BY <1>1, <1>5, TwinsRemain
<1>7. \A t \in Tokens : Exchanged(t) => Exchanged(t)'
  BY <1>1, <1>5 DEF Exchanged, RowsAgree
(* The new token forks its session only if the one it was exchanged for    *)
(* had an heir already.                                                    *)
<1>8. ASSUME NEW u \in Tokens, u # n, Issued(u), session[u] = session'[n], ~Exchanged(u)'
      PROVE  Twins(session[n])'
  <2>1. call[c].token \in Tokens /\ session'[n] = session[call[c].token]
    BY <1>1, <1>2, <1>8 DEF RowsAgree
  <2> DEFINE x == call[c].token
  <2>2. from'[n] = x /\ x # n /\ Issued(x)
    BY <1>1, <1>2, <2>1
  <2>3. CASE Exchanged(x)
    <3>1. PICK t \in Tokens : from[t] = x
      BY <2>3 DEF Exchanged
    <3>2. t # n /\ session[t] = session[x]
      BY <1>1, <2>1, <3>1 DEF DescendsInSession, RowsAgree
    <3>3. session'[t] = session'[n] /\ from'[t] = from'[n] /\ from'[n] # NoToken
      BY <1>5, <2>1, <2>2, <3>1, <3>2
    <3>4. QED BY <3>2, <3>3 DEF Twins
  <2>4. CASE ~Exchanged(x)
    <3>1. x # u
      BY <1>8, <2>2 DEF Exchanged
    <3>2. Twins(session[x])
      BY <1>7, <1>8, <2>1, <2>2, <2>4, <3>1 DEF ForksHaveTwins
    <3>3. QED BY <1>6, <2>1, <3>2
  <2>5. QED BY <2>3, <2>4
<1>9. ForksHaveTwins'
  <2> SUFFICES ASSUME NEW t \in Tokens, NEW u \in Tokens, t # u, Issued(t)', Issued(u)',
                      session'[t] = session'[u], ~Exchanged(t)', ~Exchanged(u)'
               PROVE  Twins(session[t])'
    BY DEF ForksHaveTwins
  <2>1. CASE t = n
    BY <1>5, <1>8, <2>1
  <2>2. CASE u = n
    BY <1>5, <1>8, <2>2
  <2>3. CASE t # n /\ u # n
    BY <1>5, <1>6, <1>7, <2>3 DEF ForksHaveTwins
  <2>4. QED BY <2>1, <2>2, <2>3
<1>10. QED BY <1>4, <1>9

LEMMA SessionNext == SessionInv /\ [Next]_vars => SessionInv'
<1> SUFFICES ASSUME SessionInv, [Next]_vars PROVE SessionInv'
  OBVIOUS
<1>1. AuthInv /\ AuthInv'
  BY AuthNext DEF SessionInv
<1>2. ASSUME NEW c \in Calls, Revoke(c) PROVE SessionInv'
  <2>1. call[c].token \in Tokens /\ Issued(call[c].token)
    BY <1>1, <1>2 DEF Revoke, AuthInv, TypeOK, Quiet, Entering, Presenting,
                      PresentedAreIssued
  <2>2. UNCHANGED <<from, session>> /\ \A t \in Tokens : Issued(t)' <=> Issued(t)
    BY <1>1, <1>2, <2>1 DEF Revoke, AuthInv, TypeOK
  <2>3. QED BY <1>1, <2>2, DescentUntouched
<1>3. ASSUME NEW t \in Tokens, Expire(t) PROVE SessionInv'
  <2>1. UNCHANGED <<from, session>> /\ \A u \in Tokens : Issued(u)' <=> Issued(u)
    BY <1>1, <1>3 DEF Expire, AuthInv, TypeOK
  <2>2. QED BY <1>1, <2>1, DescentUntouched
<1>4. CASE UNCHANGED rows
  BY <1>1, <1>4, DescentUntouched
<1>5. \/ UNCHANGED rows
      \/ \E c \in Calls : Revoke(c) \/ Issue(c)
      \/ \E t \in Tokens : Expire(t)
  BY DEF Next, Handle, Register, Login, Refresh, Logout, Receive, EmailExists, CreateUser,
         FindUser, CheckPassword, FindToken, FindOwner, FailCall, AuthServiceStops,
         SetStatus, vars
<1>6. QED BY <1>1, <1>2, <1>3, <1>4, <1>5, IssueForks

LEMMA EndsAreLive == SessionInv => OnlyTwinsAreBothLive
  BY DEF SessionInv, AuthInv, ExchangedAreRevoked, ForksHaveTwins, Exchanged,
         OnlyTwinsAreBothLive

(* However many rotations overlap: a session with two good tokens has      *)
(* twins, two tokens that one token was exchanged for.                     *)
THEOREM LiveTwins == Spec => []OnlyTwinsAreBothLive
  BY SessionInit, SessionNext, EndsAreLive, PTL DEF Spec

-------------------------------------------------------------------------------
(* The browser.                                                            *)
USE NoCallIsNoCall
USE DEF Loading, Blank, Show, Nothing

HeldInv == PageTypeOK /\ HeldAreIssued /\ AnswersAreTokens

-------------------------------------------------------------------------------
(* Every step of the browser is one of the service, or leaves it alone.    *)
LEMMA RotationStarts ==
  ASSUME PageTypeOK, NEW b \in Tabs, ProfileAnswered(b)
  PROVE  [Next]_vars
<1>1. CASE \E c \in Calls : Refresh(c, page[b].refr) /\ page[b].refr # NoToken
  <2>1. page[b].refr \in Tokens
    BY <1>1 DEF PageTypeOK
  <2>2. QED BY <1>1, <2>1 DEF Next
<1>2. CASE UNCHANGED vars
  BY <1>2
<1>3. QED BY <1>1, <1>2 DEF ProfileAnswered

LEMMA ServiceSteps == PageTypeOK /\ [BrowserNext]_browserVars => [Next]_vars
<1> SUFFICES ASSUME PageTypeOK, [BrowserNext]_browserVars PROVE [Next]_vars
  OBVIOUS
<1>1. ASSUME NEW b \in Tabs,
             \/ Load(b) \/ RotationAnswered(b) \/ SecondProfileAnswered(b) \/ LoadFails(b)
             \/ SignInAnswered(b) \/ SignInLost(b) \/ LogOut(b) \/ Close(b)
      PROVE  UNCHANGED vars
  BY <1>1 DEF Load, RotationAnswered, SecondProfileAnswered, LoadFails, SignInAnswered,
              SignInLost, LogOut, Close
<1>2. ASSUME NEW b \in Tabs, NEW e \in Emails, SignIn(b, e) PROVE Next
  BY <1>2 DEF SignIn, Next
<1>3. ASSUME NEW c \in Calls, Serve(c) PROVE Next
  BY <1>3 DEF Serve, Next, Handle
<1>4. ASSUME NEW c \in Calls, NEW t \in Tokens, LogoutElsewhere(c, t) PROVE Next
  BY <1>4 DEF LogoutElsewhere, Next
<1>5. CASE ServiceFails
  BY <1>5 DEF ServiceFails, Next, Handle
<1>6. ASSUME NEW t \in Tokens, AccessExpires(t) PROVE UNCHANGED vars
  BY <1>6 DEF AccessExpires
<1>7. CASE UNCHANGED browserVars
  BY <1>7 DEF browserVars
<1>8. QED
  BY <1>1, <1>2, <1>3, <1>4, <1>5, <1>6, <1>7, RotationStarts
     DEF BrowserNext, Ordinarily, Mishap, PageStep

-------------------------------------------------------------------------------
LEMMA BrowserStart == BrowserInit => BrowserInv
<1> SUFFICES ASSUME BrowserInit PROVE BrowserInv
  OBVIOUS
<1>1. SessionInv
  BY SessionInit DEF BrowserInit
<1>2. HeldInv
  BY DEF BrowserInit, Init, HeldInv, PageTypeOK, HeldAreIssued, AnswersAreTokens
<1>3. CalmInv /\ StoredTokenIsGood
  BY DEF BrowserInit, Init, CalmInv, CalmAccounts, CalmTab, OneAtATime, Busy,
         StoredTokenIsGood
<1>4. QED BY <1>1, <1>2, <1>3 DEF BrowserInv, HeldInv

(* No step takes a token back.                                             *)
LEMMA IssuedRemain ==
  ASSUME AuthInv, [Next]_vars, NEW t \in Tokens, Issued(t)
  PROVE  Issued(t)' /\ holder'[t] = holder[t]
<1> USE DEF AuthInv, TypeOK
<1>1. ASSUME NEW c \in Calls, Revoke(c) PROVE Issued(t)' /\ holder' = holder
  BY <1>1 DEF Revoke
<1>2. ASSUME NEW c \in Calls, Issue(c) PROVE Issued(t)' /\ holder'[t] = holder[t]
  BY <1>2 DEF Issue
<1>3. ASSUME NEW u \in Tokens, Expire(u) PROVE Issued(t)' /\ holder' = holder
  BY <1>3 DEF Expire
<1>4. \/ UNCHANGED rows
      \/ \E c \in Calls : Revoke(c) \/ Issue(c)
      \/ \E u \in Tokens : Expire(u)
  BY DEF Next, Handle, Register, Login, Refresh, Logout, Receive, EmailExists, CreateUser,
         FindUser, CheckPassword, FindToken, FindOwner, FailCall, AuthServiceStops,
         SetStatus, vars
<1>5. QED BY <1>1, <1>2, <1>3, <1>4

-------------------------------------------------------------------------------
(* A tab moves on, and the service does nothing.                           *)
Shown(b, p) ==
  /\ p \in [at : {"closed", "guest", "in", "enter"} \cup Loading, call : Calls \cup {NoCall},
            auth : Tokens \cup {NoToken}, refr : Tokens \cup {NoToken},
            user : Emails \cup {Nobody}]
  /\ Show(b, p)

LEMMA TabMoves ==
  ASSUME HeldInv, NEW b \in Tabs, NEW p, Shown(b, p), calm' \in BOOLEAN,
         UNCHANGED <<vars, stale, got>>,
         stored' \in [auth : Tokens \cup {NoToken}, refr : Tokens \cup {NoToken}],
         p.call = NoCall, p.at \notin {"rotate", "enter"},
         p.at \in {"profile", "profile2"} => p.auth \in Tokens,
         \A t \in {p.auth, p.refr, stored'.auth, stored'.refr} : t \in Tokens => Issued(t)
  PROVE  HeldInv'
<1> USE DEF HeldInv, Shown, vars
<1>1. PageTypeOK'
  BY DEF PageTypeOK
<1>2. HeldAreIssued'
  BY DEF PageTypeOK, HeldAreIssued
<1>3. AnswersAreTokens'
  BY DEF PageTypeOK, AnswersAreTokens
<1>4. QED BY <1>1, <1>2, <1>3

LEMMA ClearsHeld ==
  ASSUME HeldInv, NEW b \in Tabs, NEW a \in {"closed", "guest"}, Show(b, Blank(a)),
         stored' \in {stored, Nothing}, calm' \in BOOLEAN, UNCHANGED <<vars, stale, got>>
  PROVE  HeldInv'
<1>1. Shown(b, Blank(a))
  BY DEF Shown
<1>2. stored' \in [auth : Tokens \cup {NoToken}, refr : Tokens \cup {NoToken}]
  BY DEF HeldInv, PageTypeOK
<1>3. \A t \in {NoToken, stored'.auth, stored'.refr} : t \in Tokens => Issued(t)
  BY DEF HeldInv, HeldAreIssued
<1>4. QED BY <1>1, <1>2, <1>3, TabMoves

LEMMA SetsHeld ==
  ASSUME AuthInv, HeldInv, NEW b \in Tabs, NEW auth \in Tokens, NEW refr \in Tokens,
         Issued(auth), Issued(refr), SetSession(b, auth, refr), calm' \in BOOLEAN,
         UNCHANGED <<vars, stale, got>>
  PROVE  HeldInv'
<1>1. holder[auth] \in Emails
  BY DEF AuthInv, RowsAgree
<1>2. Shown(b, [Blank("in") EXCEPT !.user = holder[auth]])
  BY <1>1 DEF Shown, SetSession
<1>3. QED BY <1>2, TabMoves DEF SetSession

LEMMA ProfilesHeld ==
  ASSUME AuthInv, HeldInv, calm' \in BOOLEAN, NEW b \in Tabs,
         Load(b) \/ (ProfileAnswered(b) /\ UNCHANGED <<vars, got>>)
           \/ RotationAnswered(b) \/ SecondProfileAnswered(b)
  PROVE  HeldInv'
<1>0. page[b].auth \in Tokens \cup {NoToken} /\ page[b].refr \in Tokens \cup {NoToken}
  BY DEF HeldInv, PageTypeOK
<1>a. \A t \in {stored.auth, stored.refr, page[b].auth, page[b].refr} : t \in Tokens => Issued(t)
  BY DEF HeldInv, HeldAreIssued
<1>1. CASE Load(b)
  <2>1. CASE ClearSession(b)
    BY <1>1, <2>1, ClearsHeld DEF Load, ClearSession
  <2>2. CASE stored.auth # NoToken
    <3> DEFINE p == [Blank("profile") EXCEPT !.auth = stored.auth, !.refr = stored.refr]
    <3>1. Shown(b, p) /\ UNCHANGED stored /\ stored.auth \in Tokens
      BY <1>1, <2>2 DEF Load, Shown, HeldInv, PageTypeOK
    <3>2. stored \in [auth : Tokens \cup {NoToken}, refr : Tokens \cup {NoToken}]
      BY DEF HeldInv, PageTypeOK
    <3>3. QED BY <1>1, <1>a, <3>1, <3>2, TabMoves DEF Load
  <2>3. QED BY <1>1, <2>1, <2>2 DEF Load
<1>2. CASE ProfileAnswered(b) /\ UNCHANGED <<vars, got>>
  <2>1. page[b].auth \in Tokens
    BY <1>2 DEF ProfileAnswered, HeldInv, AnswersAreTokens
  <2>2. \/ ClearSession(b)
        \/ page[b].refr # NoToken /\ SetSession(b, page[b].auth, page[b].refr)
    <3>1. ASSUME NEW c \in Calls, Refresh(c, page[b].refr) PROVE FALSE
      BY <1>2, <3>1 DEF Refresh, Receive, vars, AuthInv, TypeOK
    <3>2. QED BY <1>2, <3>1 DEF ProfileAnswered
  <2>3. QED BY <1>0, <1>2, <1>a, <2>1, <2>2, ClearsHeld, SetsHeld
               DEF ProfileAnswered, ClearSession
<1>3. CASE RotationAnswered(b)
  <2> DEFINE c == page[b].call
             p == [Blank("profile2") EXCEPT !.auth = got[c], !.refr = page[b].refr]
  <2>1. CASE ClearSession(b)
    BY <1>3, <2>1, ClearsHeld DEF RotationAnswered, ClearSession
  <2>2. CASE call[c].at = "ok"
    <3>1. c \in Calls /\ got[c] \in Tokens /\ Issued(got[c])
      BY <1>3, <2>2 DEF RotationAnswered, HeldInv, AnswersAreTokens, HeldAreIssued
    <3>2. Shown(b, p) /\ stored' = [stored EXCEPT !.auth = got[c]]
      BY <1>0, <1>3, <2>2, <3>1 DEF RotationAnswered, Shown
    <3>3. stored' \in [auth : Tokens \cup {NoToken}, refr : Tokens \cup {NoToken}]
          /\ stored'.auth = got[c] /\ stored'.refr = stored.refr
      BY <3>1, <3>2 DEF HeldInv, PageTypeOK
    <3>4. QED BY <1>3, <1>a, <3>1, <3>2, <3>3, TabMoves DEF RotationAnswered
  <2>3. QED BY <1>3, <2>1, <2>2 DEF RotationAnswered
<1>4. CASE SecondProfileAnswered(b)
  <2>1. page[b].auth \in Tokens
    BY <1>4 DEF SecondProfileAnswered, HeldInv, AnswersAreTokens
  <2>2. QED BY <1>4, <1>a, <2>1, ClearsHeld, SetsHeld DEF SecondProfileAnswered, ClearSession
<1>5. QED BY <1>1, <1>2, <1>3, <1>4

LEMMA FormsHeld ==
  ASSUME AuthInv, HeldInv, calm' \in BOOLEAN, NEW b \in Tabs,
         SignInAnswered(b) \/ SignInLost(b) \/ LoadFails(b) \/ LogOut(b) \/ Close(b)
  PROVE  HeldInv'
<1>1. CASE SignInAnswered(b) /\ call[page[b].call].at = "ok"
  <2> DEFINE c == page[b].call
  <2>1. c \in Calls /\ got[c] \in Tokens /\ Issued(got[c])
    BY <1>1 DEF SignInAnswered, HeldInv, AnswersAreTokens, HeldAreIssued
  <2>2. QED BY <1>1, <2>1, SetsHeld DEF SignInAnswered
<1>2. QED
  BY <1>1, ClearsHeld DEF SignInAnswered, SignInLost, LoadFails, LogOut, Close, ClearSession

LEMMA AsksHeld ==
  ASSUME AuthInv, AuthInv', HeldInv, calm' \in BOOLEAN, NEW b \in Tabs, NEW c \in Calls,
         NEW op, NEW e, NEW t, NEW step, NEW a \in {"rotate", "enter"},
         NEW r \in Tokens \cup {NoToken},
         r \in Tokens => Issued(r),
         Receive(c, op, e, t, step), op # "logout", step \in Awaits,
         Ask(b, c, [Blank(a) EXCEPT !.refr = r]), UNCHANGED <<stored, stale>>
  PROVE  HeldInv'
<1> USE DEF HeldInv, Ask, Receive
<1>1. page' = [page EXCEPT ![b] = [at |-> a, auth |-> NoToken, refr |-> r, call |-> c,
                                   user |-> Nobody]]
  <2> DEFINE p == [at |-> a, auth |-> NoToken, refr |-> r, call |-> NoCall, user |-> Nobody]
  <2>1. [Blank(a) EXCEPT !.refr = r] = p
    OBVIOUS
  <2>2. [p EXCEPT !.call = c]
          = [at |-> a, auth |-> NoToken, refr |-> r, call |-> c, user |-> Nobody]
    OBVIOUS
  <2>3. QED BY <2>1, <2>2 DEF Ask
<1>2. PageTypeOK'
  BY <1>1 DEF PageTypeOK
<1>3. HeldAreIssued'
  BY <1>1 DEF PageTypeOK, HeldAreIssued
<1>4. call'[c].at \in Awaits /\ call'[c].op # "logout" /\ \A d \in Calls \ {c} : call'[d] = call[d]
  BY DEF AuthInv, TypeOK
<1>5. AnswersAreTokens'
  <2> SUFFICES ASSUME NEW b2 \in Tabs
               PROVE  /\ page'[b2].at \in {"profile", "profile2"} => page'[b2].auth \in Tokens
                      /\ page'[b2].call \in Calls <=> page'[b2].at \in {"rotate", "enter"}
                      /\ page'[b2].call \in Calls =>
                           /\ call'[page'[b2].call].op # "logout"
                           /\ call'[page'[b2].call].at = "ok" => got'[page'[b2].call] \in Tokens
    BY DEF AnswersAreTokens
  <2>1. CASE b2 = b
    BY <1>1, <1>4, <2>1 DEF PageTypeOK
  <2>2. CASE b2 # b
    <3>1. page'[b2] = page[b2] /\ page[b2].call # c
      BY <1>1, <2>2 DEF PageTypeOK, Awaited
    <3>2. QED BY <1>4, <3>1 DEF PageTypeOK, AnswersAreTokens
  <2>3. QED BY <2>1, <2>2
<1>6. QED BY <1>2, <1>3, <1>5

LEMMA RequestsHeld ==
  ASSUME AuthInv, AuthInv', HeldInv, calm' \in BOOLEAN, NEW b \in Tabs,
         \/ \E e \in Emails : SignIn(b, e)
         \/ ProfileAnswered(b)
  PROVE  HeldInv'
<1>1. ASSUME NEW e \in Emails, SignIn(b, e) PROVE HeldInv'
  <2>1. PICK c \in Calls : (Login(c, e) \/ Register(c, e)) /\ Ask(b, c, Blank("enter"))
    BY <1>1 DEF SignIn
  <2>2. Blank("enter") = [Blank("enter") EXCEPT !.refr = NoToken]
    OBVIOUS
  <2>3. QED BY <1>1, <2>1, <2>2, AsksHeld DEF SignIn, Login, Register
<1>2. ASSUME ProfileAnswered(b) PROVE HeldInv'
  <2>1. CASE UNCHANGED <<vars, got>>
    BY <1>2, <2>1, ProfilesHeld
  <2>2. CASE \E c \in Calls : /\ Refresh(c, page[b].refr)
                              /\ Ask(b, c, [Blank("rotate") EXCEPT !.refr = page[b].refr])
                              /\ UNCHANGED stored
    <3>1. PICK c \in Calls : /\ Refresh(c, page[b].refr)
                             /\ Ask(b, c, [Blank("rotate") EXCEPT !.refr = page[b].refr])
                             /\ UNCHANGED stored
      BY <2>2
    <3>2. page[b].refr \in Tokens \cup {NoToken}
      BY DEF HeldInv, PageTypeOK
    <3>3. QED BY <1>2, <3>1, <3>2, AsksHeld DEF ProfileAnswered, Refresh
  <2>3. QED BY <1>2, <2>1, <2>2 DEF ProfileAnswered
<1>3. QED BY <1>1, <1>2

-------------------------------------------------------------------------------
(* The service moves on, and no tab does.                                  *)
LEMMA NewToken ==
  ASSUME AuthInv, NEW c \in Calls, Issue(c)
  PROVE  LET t == CHOOSE t \in Tokens : Issued(t)' /\ ~Issued(t)
         IN  /\ t \in Tokens /\ ~Issued(t) /\ token' = [token EXCEPT ![t] = "live"]
             /\ holder' = [holder EXCEPT ![t] = call[c].email]
<1>1. PICK t \in Tokens :
        /\ ~Issued(t) /\ token' = [token EXCEPT ![t] = "live"]
        /\ holder' = [holder EXCEPT ![t] = call[c].email]
  BY DEF Issue
<1>2. \A u \in Tokens : Issued(u)' /\ ~Issued(u) <=> u = t
  BY <1>1 DEF AuthInv, TypeOK
<1>3. t = CHOOSE u \in Tokens : Issued(u)' /\ ~Issued(u)
  BY <1>2
<1>4. QED BY <1>1, <1>3

LEMMA ServiceHeld ==
  ASSUME AuthInv, [Next]_vars, HeldInv, calm' \in BOOLEAN, UNCHANGED <<stored, stale, page>>,
         got' \in [Calls -> Tokens \cup {NoToken}],
         \A c \in Calls : got'[c] # got[c] => got'[c] \in Tokens /\ Issued(got[c])',
         \A c \in Calls : Awaited(c) => /\ call[c].op # "logout" => call'[c].op # "logout"
                                        /\ call[c].op # "logout" /\ call'[c].at = "ok" =>
                                             call[c].at = "ok" \/ got'[c] \in Tokens
  PROVE  HeldInv'
<1> USE DEF HeldInv
<1>1. PageTypeOK'
  BY DEF PageTypeOK
<1>2. HeldAreIssued'
  <2>1. \A t \in Tokens : Issued(t) => Issued(t)'
    BY IssuedRemain
  <2>2. SUFFICES ASSUME NEW t \in Tokens,
                        \/ t \in stale \/ t = stored.auth \/ t = stored.refr
                        \/ \E b \in Tabs : t = page[b].auth \/ t = page[b].refr
                        \/ \E c \in Calls : t = got'[c]
                 PROVE  Issued(t)'
    BY DEF HeldAreIssued
  <2>3. CASE \E c \in Calls : t = got'[c] /\ got'[c] # got[c]
    BY <2>3
  <2>4. CASE t \in stale \/ t = stored.auth \/ t = stored.refr
    BY <2>1, <2>4 DEF HeldAreIssued
  <2>5. CASE \E b \in Tabs : t = page[b].auth \/ t = page[b].refr
    BY <2>1, <2>5 DEF HeldAreIssued
  <2>6. CASE \E c \in Calls : t = got[c]
    BY <2>1, <2>6 DEF HeldAreIssued
  <2>7. QED BY <2>2, <2>3, <2>4, <2>5, <2>6
<1>3. AnswersAreTokens'
  BY DEF AnswersAreTokens, PageTypeOK, Awaited
<1>4. QED BY <1>1, <1>2, <1>3

LEMMA ServeHeld ==
  ASSUME AuthInv, HeldInv, calm' \in BOOLEAN, NEW c \in Calls, Serve(c), [Next]_vars
  PROVE  HeldInv'
<1> USE DEF AuthInv, TypeOK
<1>1. got \in [Calls -> Tokens \cup {NoToken}] /\ UNCHANGED <<stored, stale, page>>
  BY DEF HeldInv, PageTypeOK, Serve
<1>2. CASE Issue(c)
  <2> DEFINE t == CHOOSE t \in Tokens : Issued(t)' /\ ~Issued(t)
  <2>1. t \in Tokens /\ token' = [token EXCEPT ![t] = "live"]
    BY <1>2, NewToken
  <2>2. call[c].at = "issue" /\ call' = [call EXCEPT ![c] = Idle("ok")]
    BY <1>2 DEF Issue
  <2>3. got' = IF Awaited(c) THEN [got EXCEPT ![c] = t] ELSE got
    BY <2>2 DEF Serve
  <2>4. \A d \in Calls : got'[d] # got[d] => got'[d] = t
    BY <1>1, <2>3
  <2>5. token'[t] = "live"
    BY <2>1
  <2>6. \A d \in Calls : got'[d] # got[d] => got'[d] \in Tokens /\ Issued(got[d])'
    <3> SUFFICES ASSUME NEW d \in Calls, got'[d] # got[d]
                 PROVE  got'[d] \in Tokens /\ token'[got'[d]] # "unissued"
      OBVIOUS
    <3>1. got'[d] = t
      BY <2>4
    <3>2. QED BY <2>1, <2>5, <3>1
  <2>7. got' \in [Calls -> Tokens \cup {NoToken}]
    BY <1>1, <2>1, <2>3
  <2>8. Awaited(c) => got'[c] \in Tokens
    BY <1>1, <2>1, <2>3
  <2>9. QED BY <1>1, <2>2, <2>6, <2>7, <2>8, ServiceHeld
<1>3. CASE ~Issue(c)
  <2>1. \/ EmailExists(c) \/ CreateUser(c) \/ FindUser(c) \/ CheckPassword(c)
        \/ FindToken(c) \/ FindOwner(c) \/ Revoke(c)
    BY <1>3 DEF Serve
  <2>2. call[c].at # "issue"
    BY <2>1 DEF EmailExists, CreateUser, FindUser, CheckPassword, FindToken, FindOwner, Revoke
  <2>3. got' = got
    BY <2>2 DEF Serve
  <2>4. \A d \in Calls \ {c} : call'[d] = call[d]
    BY <2>1 DEF EmailExists, CreateUser, FindUser, CheckPassword, FindToken, FindOwner, Revoke
  <2>5. /\ call[c].op # "logout" => call'[c].op # "logout"
        /\ call'[c].at = "ok" => call[c].op = "logout"
    BY <2>1 DEF EmailExists, CreateUser, FindUser, CheckPassword, FindToken, FindOwner, Revoke,
                Quiet, Entering, Presenting
  <2>6. QED BY <1>1, <2>3, <2>4, <2>5, ServiceHeld
<1>4. QED BY <1>2, <1>3

LEMMA EnvironmentHeld ==
  ASSUME AuthInv, HeldInv, calm' \in BOOLEAN, [Next]_vars,
         \/ \E c \in Calls, t \in Tokens : LogoutElsewhere(c, t)
         \/ ServiceFails
         \/ \E t \in Tokens : AccessExpires(t)
  PROVE  HeldInv'
<1> USE DEF AuthInv, TypeOK
<1>1. got \in [Calls -> Tokens \cup {NoToken}]
  BY DEF HeldInv, PageTypeOK
<1>2. ASSUME NEW c \in Calls, NEW t \in Tokens, LogoutElsewhere(c, t) PROVE HeldInv'
  BY <1>1, <1>2, ServiceHeld DEF LogoutElsewhere, Logout, Receive
<1>3. CASE ServiceFails
  <2>1. UNCHANGED <<stored, stale, page, got>>
    BY <1>3 DEF ServiceFails
  <2>2. \A c \in Calls : call'[c] = call[c] \/ call'[c] = Idle("failed")
    BY <1>3 DEF ServiceFails, FailCall, AuthServiceStops, Expire, SetStatus
  <2>3. QED BY <1>1, <2>1, <2>2, ServiceHeld
<1>4. ASSUME NEW t \in Tokens, AccessExpires(t) PROVE HeldInv'
  <2>1. Issued(t) /\ UNCHANGED <<vars, stored, page, got>> /\ stale' = stale \cup {t}
    BY <1>4 DEF AccessExpires, HeldInv, HeldAreIssued
  <2>2. PageTypeOK' /\ AnswersAreTokens'
    BY <2>1 DEF HeldInv, PageTypeOK, AnswersAreTokens, vars
  <2>3. HeldAreIssued'
    BY <2>1 DEF HeldInv, HeldAreIssued, vars
  <2>4. QED BY <2>2, <2>3 DEF HeldInv
<1>5. QED BY <1>2, <1>3, <1>4

LEMMA HeldNext == AuthInv /\ AuthInv' /\ HeldInv /\ [BrowserNext]_browserVars => HeldInv'
<1> SUFFICES ASSUME AuthInv, AuthInv', HeldInv, [BrowserNext]_browserVars PROVE HeldInv'
  OBVIOUS
<1>1. [Next]_vars
  BY ServiceSteps DEF HeldInv
<1>2. CASE BrowserNext
  <2>1. calm' \in BOOLEAN
    BY <1>2 DEF BrowserNext, HeldInv, PageTypeOK
  <2>2. ASSUME NEW b \in Tabs, PageStep(b) PROVE HeldInv'
    BY <2>1, <2>2, ProfilesHeld, RequestsHeld, FormsHeld DEF PageStep
  <2>3. ASSUME NEW b \in Tabs, LogOut(b) \/ Close(b) \/ LoadFails(b) \/ SignInLost(b)
        PROVE  HeldInv'
    BY <2>1, <2>3, FormsHeld
  <2>4. ASSUME NEW b \in Tabs, NEW e \in Emails, SignIn(b, e) PROVE HeldInv'
    BY <2>1, <2>4, RequestsHeld
  <2>5. ASSUME NEW c \in Calls, Serve(c) PROVE HeldInv'
    BY <1>1, <2>1, <2>5, ServeHeld
  <2>6. CASE \/ \E c \in Calls, t \in Tokens : LogoutElsewhere(c, t)
             \/ ServiceFails
             \/ \E t \in Tokens : AccessExpires(t)
    BY <1>1, <2>1, <2>6, EnvironmentHeld
  <2>7. QED BY <1>2, <2>2, <2>3, <2>4, <2>5, <2>6 DEF BrowserNext, Ordinarily, Mishap
<1>3. CASE UNCHANGED browserVars
  BY <1>3 DEF browserVars, vars, HeldInv, PageTypeOK, HeldAreIssued, AnswersAreTokens
<1>4. QED BY <1>2, <1>3

-------------------------------------------------------------------------------
(* While all is calm.  If a tab is at work the others are not, and nothing *)
(* is asked of them.                                                       *)
CalmState ==
  calm /\ CalmAccounts /\ OneAtATime /\ (\A b \in Tabs : CalmTab(b)) /\ StoredTokenIsGood

LEMMA IdleTabs ==
  ASSUME OneAtATime, NEW b \in Tabs, Busy(b), NEW d \in Tabs, d # b
  PROVE  CalmTab(d) /\ page[d].at \notin {"rotate", "profile2", "profile", "enter"}
  BY DEF OneAtATime, Busy, CalmTab

LEMMA CalmMoves ==
  ASSUME HeldInv, CalmState, calm', OneAtATime', NEW b \in Tabs, UNCHANGED <<vars, stale, got>>,
         \A d \in Tabs \ {b} : page'[d] = page[d],
         page[b].call \in Calls => ~Running(page[b].call),
         CalmTab(b)', StoredTokenIsGood'
  PROVE  CalmState'
<1> USE DEF CalmState, vars
<1>1. CalmAccounts'
  BY DEF CalmAccounts, Awaited
<1>2. ASSUME NEW d \in Tabs, d # b PROVE CalmTab(d)'
  BY <1>2 DEF CalmTab, HeirOf, Good
<1>3. QED BY <1>1, <1>2

LEMMA CalmClears ==
  ASSUME HeldInv, CalmState, calm', OneAtATime', NEW b \in Tabs, UNCHANGED <<vars, stale, got>>,
         page[b].call \in Calls => ~Running(page[b].call),
         NEW a \in {"closed", "guest"}, Show(b, Blank(a)),
         stored' = Nothing \/ (stored' = stored /\ page[b].at \notin {"rotate", "profile2"})
  PROVE  CalmState'
<1>1. page'[b].at = a /\ \A d \in Tabs \ {b} : page'[d] = page[d]
  BY DEF HeldInv, PageTypeOK
<1>2. CalmTab(b)'
  BY <1>1 DEF CalmTab
<1>3. StoredTokenIsGood'
  BY <1>1 DEF StoredTokenIsGood, Renewing, CalmState, vars
<1>4. QED BY <1>1, <1>2, <1>3, CalmMoves

LEMMA CalmSets ==
  ASSUME HeldInv, CalmState, calm', OneAtATime', NEW b \in Tabs, UNCHANGED <<vars, stale, got>>,
         page[b].call \in Calls => ~Running(page[b].call),
         NEW t, Good(t), SetSession(b, t, t)
  PROVE  CalmState'
<1>1. page'[b].at = "in" /\ \A d \in Tabs \ {b} : page'[d] = page[d]
  BY DEF HeldInv, PageTypeOK, SetSession
<1>2. CalmTab(b)'
  BY <1>1 DEF CalmTab
<1>3. StoredTokenIsGood'
  BY DEF StoredTokenIsGood, SetSession, Good, vars
<1>4. QED BY <1>1, <1>2, <1>3, CalmMoves

LEMMA CalmLoad ==
  ASSUME HeldInv, CalmState, calm', OneAtATime', NEW b \in Tabs, Load(b)
  PROVE  CalmState'
<1>1. page[b].call \notin Calls
  BY DEF Load, HeldInv, AnswersAreTokens
<1>2. CASE ClearSession(b)
  BY <1>1, <1>2, CalmClears DEF Load, ClearSession
<1>3. CASE stored.auth # NoToken
  <2>1. /\ page'[b].at = "profile" /\ page'[b].auth = stored.auth /\ page'[b].refr = stored.refr
        /\ stored' = stored /\ \A d \in Tabs \ {b} : page'[d] = page[d]
    <3> DEFINE p == [Blank("profile") EXCEPT !.auth = stored.auth, !.refr = stored.refr]
    <3>1. p.at = "profile" /\ p.auth = stored.auth /\ p.refr = stored.refr
      OBVIOUS
    <3>2. page' = [page EXCEPT ![b] = p] /\ stored' = stored
      BY <1>3 DEF Load
    <3>3. page'[b] = p /\ \A d \in Tabs \ {b} : page'[d] = page[d]
      BY <3>2 DEF HeldInv, PageTypeOK
    <3>4. QED BY <3>1, <3>2, <3>3
  <2>2. ~Renewing
    <3>1. ASSUME NEW d \in Tabs, page[d].at \in {"rotate", "profile2"} PROVE FALSE
      BY <2>1, <3>1 DEF Load, OneAtATime, Busy
    <3>2. QED BY <3>1 DEF Renewing
  <2>3. stored # Nothing /\ stored.refr \in Tokens \cup {NoToken}
    BY <1>3 DEF HeldInv, PageTypeOK
  <2>4. stored.auth = stored.refr /\ Good(stored.refr)
    BY <1>3, <2>2, <2>3 DEF CalmState, StoredTokenIsGood, Good
  <2>5. CalmTab(b)' /\ StoredTokenIsGood'
    BY <2>1, <2>4 DEF CalmTab, Load, Good, StoredTokenIsGood, vars
  <2>6. QED BY <1>1, <2>1, <2>5, CalmMoves DEF Load
<1>4. QED BY <1>2, <1>3 DEF Load

(* The rotation is answered, or one of the two profiles is.                *)
LEMMA CalmAnswers ==
  ASSUME HeldInv, CalmState, calm', OneAtATime', NEW b \in Tabs,
         RotationAnswered(b) \/ SecondProfileAnswered(b)
  PROVE  CalmState'
<1>1. CalmTab(b)
  BY DEF CalmState
<1>2. CASE RotationAnswered(b)
  <2> DEFINE c == page[b].call
  <2>1. ~Running(c) /\ call[c].at = "ok" /\ HeirOf(got[c], page[b].refr)
    BY <1>1, <1>2 DEF RotationAnswered, CalmTab
  <2>2. /\ page'[b].at = "profile2" /\ page'[b].auth = got[c] /\ page'[b].refr = page[b].refr
        /\ \A d \in Tabs \ {b} : page'[d] = page[d]
    <3> DEFINE p == [Blank("profile2") EXCEPT !.auth = got[c], !.refr = page[b].refr]
    <3>1. p.at = "profile2" /\ p.auth = got[c] /\ p.refr = page[b].refr
      OBVIOUS
    <3>2. page' = [page EXCEPT ![b] = p]
      BY <1>2, <2>1 DEF RotationAnswered
    <3>3. page'[b] = p /\ \A d \in Tabs \ {b} : page'[d] = page[d]
      BY <3>2 DEF HeldInv, PageTypeOK
    <3>4. QED BY <3>1, <3>3
  <2>3. CalmTab(b)' /\ StoredTokenIsGood'
    BY <1>2, <2>1, <2>2 DEF RotationAnswered, CalmTab, HeirOf, Good, StoredTokenIsGood, Renewing, vars
  <2>4. QED BY <1>2, <2>1, <2>2, <2>3, CalmMoves DEF RotationAnswered
<1>3. CASE SecondProfileAnswered(b)
  <2>1. HeirOf(page[b].auth, page[b].refr) /\ page[b].call \notin Calls
    BY <1>1, <1>3 DEF SecondProfileAnswered, CalmTab, HeldInv, AnswersAreTokens
  <2>2. QED BY <1>3, <2>1, CalmSets DEF SecondProfileAnswered, HeirOf
<1>4. QED BY <1>2, <1>3

LEMMA CalmSignInAnswered ==
  ASSUME HeldInv, CalmState, calm', OneAtATime', NEW b \in Tabs, SignInAnswered(b)
  PROVE  CalmState'
<1>1. CalmTab(b)
  BY DEF CalmState
<1>2. CASE call[page[b].call].at = "ok"
  BY <1>1, <1>2, CalmSets DEF SignInAnswered, CalmTab
<1>3. CASE call[page[b].call].at # "ok"
  BY <1>3, CalmClears DEF SignInAnswered
<1>4. QED BY <1>2, <1>3

LEMMA CalmLeaves ==
  ASSUME HeldInv, CalmState, calm', OneAtATime', NEW b \in Tabs,
         LogOut(b) \/ (~Busy(b) /\ Close(b))
  PROVE  CalmState'
<1>1. page[b].at \notin {"rotate", "enter", "profile2"}
  BY DEF LogOut, Busy
<1>2. page[b].call \notin Calls
  BY <1>1 DEF HeldInv, AnswersAreTokens
<1>3. QED BY <1>1, <1>2, CalmClears DEF LogOut, Close, ClearSession

(* A request is made: a sign-in, or the exchange of a good token.          *)
LEMMA CalmAsks ==
  ASSUME AuthInv, HeldInv, HeldInv', CalmState, calm', OneAtATime', NEW b \in Tabs, NEW c \in Calls,
         \/ \E e \in Emails : (Login(c, e) \/ Register(c, e)) /\ Ask(b, c, Blank("enter"))
         \/ /\ Refresh(c, page[b].refr) /\ Good(page[b].refr)
            /\ Ask(b, c, [Blank("rotate") EXCEPT !.refr = page[b].refr]),
         page[b].at \in {"guest", "profile"}, UNCHANGED <<stored, stale>>
  PROVE  CalmState'
<1> USE DEF CalmState, AuthInv, TypeOK
<1>1. /\ page'[b].call = c /\ page'[b].at \in {"enter", "rotate"}
      /\ page'[b].at = "rotate" => /\ Good(page[b].refr) /\ Refresh(c, page[b].refr)
                                   /\ page'[b].refr = page[b].refr
      /\ page'[b].at = "enter" => \E e \in Emails : Login(c, e) \/ Register(c, e)
      /\ \A d \in Tabs \ {b} : page'[d] = page[d]
  <2>1. CASE \E e \in Emails : (Login(c, e) \/ Register(c, e)) /\ Ask(b, c, Blank("enter"))
    <3> DEFINE p == [Blank("enter") EXCEPT !.call = c]
    <3>1. p.at = "enter" /\ p.call = c
      OBVIOUS
    <3>2. page' = [page EXCEPT ![b] = p]
      BY <2>1 DEF Ask
    <3>3. page'[b] = p /\ \A d \in Tabs \ {b} : page'[d] = page[d]
      BY <3>2 DEF HeldInv, PageTypeOK
    <3>4. QED BY <2>1, <3>1, <3>3
  <2>2. CASE Refresh(c, page[b].refr) /\ Good(page[b].refr)
             /\ Ask(b, c, [Blank("rotate") EXCEPT !.refr = page[b].refr])
    <3> DEFINE q == [Blank("rotate") EXCEPT !.refr = page[b].refr]
               p == [q EXCEPT !.call = c]
    <3>1. q = [at |-> "rotate", auth |-> NoToken, refr |-> page[b].refr, call |-> NoCall,
               user |-> Nobody]
      OBVIOUS
    <3>2. p.at = "rotate" /\ p.call = c /\ p.refr = page[b].refr
      BY <3>1
    <3>3. page' = [page EXCEPT ![b] = p]
      BY <2>2 DEF Ask
    <3>4. page'[b] = p /\ \A d \in Tabs \ {b} : page'[d] = page[d]
      BY <3>3 DEF HeldInv, PageTypeOK
    <3>5. QED BY <2>2, <3>2, <3>4
  <2>3. QED BY <2>1, <2>2
<1>2. UNCHANGED <<account, rows>> /\ call'[c].at \in {"exists", "account", "find"}
      /\ \A d \in Calls \ {c} : call'[d] = call[d]
  BY DEF Refresh, Login, Register, Receive
<1>3. \A d \in Tabs \ {b} : CalmTab(d)'
  BY <1>1 DEF OneAtATime, Busy, CalmTab
<1>4. page'[b].at = "rotate" =>
        /\ call'[c].op = "refresh" /\ call'[c].token = page[b].refr
        /\ call'[c].email = holder[page[b].refr]
  BY <1>1 DEF Refresh, Receive
<1>5. page'[b].at = "enter" => call'[c].op \in {"login", "register"}
  BY <1>1 DEF Login, Register, Receive
<1>6. CalmTab(b)'
  BY <1>1, <1>2, <1>4, <1>5 DEF CalmTab, Good
<1>7. page[b].call \notin Calls
  BY DEF HeldInv, AnswersAreTokens
<1>8. CalmAccounts'
  BY <1>1, <1>2, <1>7 DEF CalmAccounts, Awaited
<1>9. StoredTokenIsGood'
  BY <1>1, <1>2 DEF StoredTokenIsGood, Renewing
<1>10. QED BY <1>3, <1>6, <1>8, <1>9

LEMMA CalmRequests ==
  ASSUME AuthInv, HeldInv, HeldInv', CalmState, calm', OneAtATime', NEW b \in Tabs,
         \/ \E e \in Emails : SignIn(b, e)
         \/ ProfileAnswered(b)
  PROVE  CalmState'
<1>1. CASE \E e \in Emails : SignIn(b, e)
  BY <1>1, CalmAsks DEF SignIn
<1>2. CASE ProfileAnswered(b)
  <2>1. page[b].auth = page[b].refr /\ Good(page[b].refr) /\ page[b].refr # NoToken
        /\ page[b].call \notin Calls
    BY <1>2 DEF ProfileAnswered, CalmState, CalmTab, Good, HeldInv, AnswersAreTokens
  <2>2. CASE page[b].auth \notin stale
    BY <1>2, <2>1, <2>2, CalmSets DEF ProfileAnswered
  <2>3. CASE page[b].auth \in stale
    BY <1>2, <2>1, <2>3, CalmAsks DEF ProfileAnswered
  <2>4. QED BY <2>2, <2>3
<1>3. QED BY <1>1, <1>2

-------------------------------------------------------------------------------
(* The service serves the one call there is.                               *)
LEMMA CalmService ==
  ASSUME HeldInv, CalmState, calm', UNCHANGED <<stored, stale, page>>,
         NEW c \in Calls, NEW b \in Tabs, Running(c), page[b].call = c,
         \A d \in Calls \ {c} : call'[d] = call[d],
         \A e \in Emails : account'[e] = account[e] \/ account'[e] = "ACTIVE",
         \A t \in Tokens : Issued(t)' => account'[holder'[t]] = "ACTIVE",
         call'[c].at \in {"password", "issue"} => account'[call'[c].email] = "ACTIVE",
         CalmTab(b)',
         page[b].at = "rotate" \/ \A t \in Tokens : token[t] = "live" => token'[t] = "live"
  PROVE  CalmState'
<1> USE DEF CalmState
<1>1. Busy(b) /\ OneAtATime'
  BY DEF HeldInv, AnswersAreTokens, Busy, OneAtATime
<1>2. \A d \in Tabs \ {b} : CalmTab(d)'
  BY <1>1 DEF CalmTab, OneAtATime, Busy
<1>3. CalmAccounts'
  <2>1. \A d \in Calls : Awaited(d)' <=> Awaited(d)
    BY DEF Awaited
  <2>2. \A d \in Calls : Running(d)' => Awaited(d)'
    BY <2>1 DEF CalmAccounts
  <2>3. \A d \in Calls \ {c} : call[d].at \notin {"password", "issue"}
    BY <1>1, IdleTabs DEF CalmAccounts, Awaited, HeldInv, AnswersAreTokens
  <2>4. QED BY <2>2, <2>3 DEF CalmAccounts
<1>4. StoredTokenIsGood'
  BY DEF StoredTokenIsGood, Renewing, HeldInv, PageTypeOK, Nothing
<1>5. QED BY <1>1, <1>2, <1>3, <1>4

(* What a calm service does with a call that is awaited.                   *)
LEMMA CalmLookUps ==
  ASSUME AuthInv, HeldInv, CalmState, calm', NEW c \in Calls, NEW b \in Tabs, page[b].call = c,
         Serve(c), EmailExists(c) \/ FindUser(c) \/ CheckPassword(c) \/ FindToken(c)
                     \/ FindOwner(c)
  PROVE  CalmState'
<1> USE DEF AuthInv, TypeOK, CalmState, EmailExists, FindUser, CheckPassword, FindToken, FindOwner
<1>1. /\ Running(c) /\ call[c] \in Entering \cup Presenting
      /\ UNCHANGED <<account, rows, stored, stale, page, got>>
      /\ \A d \in Calls \ {c} : call'[d] = call[d]
  BY DEF Serve, Quiet
<1>2. page[b].at \in {"rotate", "enter"} /\ CalmTab(b)
  BY DEF HeldInv, AnswersAreTokens
<1>3. page[b].at = "rotate" => /\ call[c].token = page[b].refr /\ page[b].refr \in Tokens
                              /\ call[c].email = holder[page[b].refr]
                              /\ account[call[c].email] = "ACTIVE"
  BY <1>1, <1>2 DEF CalmTab, CalmAccounts, PresentedAreIssued, Entering, Presenting
<1>4. call'[c].at \in {"password", "issue"} => account'[call'[c].email] = "ACTIVE"
  BY <1>1 DEF CalmAccounts, Entering, Presenting
<1>5. CASE page[b].at = "rotate"
  <2>1. /\ call[c].op = "refresh" /\ call[c].at \in {"find", "owner"}
        /\ token[page[b].refr] = "live"
    BY <1>1, <1>2, <1>5 DEF CalmTab, Entering, Presenting
  <2>2. call'[c] = [call[c] EXCEPT !.at = IF call[c].at = "find" THEN "owner" ELSE "revoke"]
    BY <1>3, <1>5, <2>1
  <2>3. /\ call'[c].at \in {"owner", "revoke"} /\ call'[c].op = call[c].op
        /\ call'[c].token = call[c].token /\ call'[c].email = call[c].email
    BY <1>1, <2>1, <2>2 DEF Entering, Presenting
  <2>4. CalmTab(b)'
    BY <1>1, <1>2, <1>3, <1>5, <2>1, <2>3 DEF CalmTab
  <2>5. QED BY <1>1, <1>4, <2>4, CalmService DEF CalmAccounts
<1>6. CASE page[b].at = "enter"
  <2>1. call[c].op \in {"login", "register"}
    BY <1>1, <1>2, <1>6 DEF CalmTab, Entering, Presenting
  <2>2. call'[c].op \in {"none", "login", "register"} /\ call'[c].at # "ok"
    BY <1>1, <2>1 DEF Entering, Presenting
  <2>3. CalmTab(b)'
    BY <1>1, <1>6, <2>2 DEF CalmTab
  <2>4. QED BY <1>1, <1>4, <2>3, CalmService DEF CalmAccounts
<1>7. QED BY <1>2, <1>5, <1>6

LEMMA CalmWrites ==
  ASSUME AuthInv, HeldInv, CalmState, calm', NEW c \in Calls, NEW b \in Tabs, page[b].call = c,
         Serve(c), CreateUser(c) \/ Revoke(c)
  PROVE  CalmState'
<1> USE DEF AuthInv, TypeOK, CalmState, CreateUser, Revoke
<1>1. /\ Running(c) /\ call[c] \in Entering \cup Presenting
      /\ UNCHANGED <<holder, stored, stale, page, got>>
      /\ \A d \in Calls \ {c} : call'[d] = call[d]
  BY DEF Serve, Quiet
<1>2. page[b].at \in {"rotate", "enter"} /\ CalmTab(b)
  BY DEF HeldInv, AnswersAreTokens
<1>3. CASE CreateUser(c)
  <2>1. page[b].at = "enter" /\ call[c].op = "register"
    BY <1>1, <1>2, <1>3 DEF CalmTab, Entering, Presenting
  <2>2. call'[c].op \in {"none", "register"} /\ call'[c].at \in {"issue", "failed"}
    BY <1>1, <1>3, <2>1 DEF Entering, Presenting
  <2>3. CalmTab(b)'
    BY <1>1, <2>1, <2>2 DEF CalmTab
  <2>4. \A e \in Emails : account'[e] = account[e] \/ account'[e] = "ACTIVE"
    BY <1>3
  <2>5. \A t \in Tokens : Issued(t)' => account'[holder'[t]] = "ACTIVE"
    BY <1>1, <1>3, <2>4 DEF CalmAccounts, RowsAgree
  <2>6. call'[c].at = "issue" => account'[call'[c].email] = "ACTIVE"
    BY <1>1, <1>3 DEF Entering, Presenting
  <2>7. QED BY <1>1, <1>3, <2>2, <2>3, <2>4, <2>5, <2>6, CalmService
<1>4. CASE Revoke(c)
  <2>1. page[b].at = "rotate" /\ call[c].op = "refresh" /\ call[c].token = page[b].refr
        /\ page[b].refr \in Tokens /\ call[c].email = holder[page[b].refr]
    BY <1>1, <1>2, <1>4 DEF CalmTab, Entering, Presenting
  <2>2. call'[c] = [call[c] EXCEPT !.at = "issue"]
    BY <1>4, <2>1
  <2>3. /\ call'[c].at = "issue" /\ call'[c].op = call[c].op
        /\ call'[c].token = call[c].token /\ call'[c].email = call[c].email
    BY <1>1, <2>2 DEF Entering, Presenting
  <2>4. CalmTab(b)'
    BY <1>1, <2>1, <2>3 DEF CalmTab
  <2>5. Issued(page[b].refr) /\ \A t \in Tokens : Issued(t)' => Issued(t)
    BY <1>4, <2>1 DEF PresentedAreIssued
  <2>6. QED BY <1>1, <1>4, <2>1, <2>3, <2>4, <2>5, CalmService DEF CalmAccounts
<1>5. QED BY <1>3, <1>4

LEMMA CalmIssue ==
  ASSUME AuthInv, HeldInv, CalmState, calm', NEW c \in Calls, NEW b \in Tabs, page[b].call = c,
         Serve(c), Issue(c)
  PROVE  CalmState'
<1> USE DEF AuthInv, TypeOK, CalmState
<1>1. PICK t \in Tokens :
        /\ t = CHOOSE u \in Tokens : Issued(u)' /\ ~Issued(u)
        /\ ~Issued(t) /\ token' = [token EXCEPT ![t] = "live"]
        /\ holder' = [holder EXCEPT ![t] = call[c].email]
  BY NewToken
<1>2. /\ Running(c) /\ call[c].at = "issue" /\ call[c] \in Entering \cup Presenting
      /\ call' = [call EXCEPT ![c] = Idle("ok")] /\ account' = account
  BY DEF Issue, Quiet
<1>3. got'[c] = t /\ UNCHANGED <<stored, stale, page>>
  BY <1>1, <1>2 DEF Serve, Awaited, HeldInv, PageTypeOK
<1>4. page[b].at \in {"rotate", "enter"} /\ CalmTab(b)
  BY DEF HeldInv, AnswersAreTokens
<1>5. Good(t)' /\ t \notin stale
  BY <1>1 DEF Good, HeldInv, HeldAreIssued
<1>6. page[b].at = "rotate" => /\ page[b].refr \in Tokens /\ Issued(page[b].refr)
                              /\ call[c].email = holder[page[b].refr]
  BY <1>2, <1>4 DEF CalmTab, PresentedAreIssued, Entering, Presenting
<1>7. CalmTab(b)'
  <2>1. call'[c] = Idle("ok") /\ call'[c].at = "ok" /\ call'[c].op = "none"
    BY <1>2
  <2>2. page[b].at = "rotate" => HeirOf(t, page[b].refr)'
    BY <1>1, <1>3, <1>5, <1>6 DEF HeirOf
  <2>3. token'[t] = "live"
    BY <1>1
  <2>4. QED BY <1>3, <1>4, <2>1, <2>2, <2>3, SMTT(30) DEF CalmTab, Good
<1>8. /\ \A u \in Tokens : Issued(u)' => account'[holder'[u]] = "ACTIVE"
      /\ \A u \in Tokens : token[u] = "live" => token'[u] = "live"
  BY <1>1, <1>2 DEF CalmAccounts
<1>9. \A d \in Calls \ {c} : call'[d] = call[d]
  BY <1>2
<1>10. call'[c].at = "ok"
  BY <1>2
<1>11. QED BY <1>2, <1>3, <1>7, <1>8, <1>9, <1>10, CalmService DEF CalmAccounts

LEMMA CalmNext ==
  ASSUME AuthInv, HeldInv, HeldInv', CalmState, [BrowserNext]_browserVars, calm'
  PROVE  CalmState'
<1>1. CASE UNCHANGED browserVars
  BY <1>1 DEF browserVars, vars, CalmState, CalmAccounts, Awaited, OneAtATime, Busy, CalmTab,
              HeirOf, Good, StoredTokenIsGood, Renewing
<1>2. CASE BrowserNext
  <2>1. Ordinarily /\ OneAtATime'
    BY <1>2 DEF BrowserNext
  <2>2. ASSUME NEW b \in Tabs, PageStep(b) PROVE CalmState'
    BY <2>1, <2>2, CalmLoad, CalmRequests, CalmAnswers, CalmSignInAnswered DEF PageStep
  <2>3. ASSUME NEW b \in Tabs, LogOut(b) \/ (~Busy(b) /\ Close(b)) PROVE CalmState'
    BY <2>1, <2>3, CalmLeaves
  <2>4. ASSUME NEW b \in Tabs, NEW e \in Emails, SignIn(b, e) PROVE CalmState'
    BY <2>1, <2>4, CalmRequests
  <2>5. ASSUME NEW c \in Calls, Serve(c) PROVE CalmState'
    <3>1. Running(c)
      BY <2>5 DEF Serve, EmailExists, CreateUser, FindUser, CheckPassword, FindToken, FindOwner,
                  Revoke, Issue
    <3>2. PICK b \in Tabs : page[b].call = c
      BY <3>1 DEF CalmState, CalmAccounts, Awaited
    <3>3. QED BY <2>5, <3>2, CalmLookUps, CalmWrites, CalmIssue DEF Serve
  <2>6. ASSUME NEW t \in Tokens, AccessExpires(t),
               \A b \in Tabs : page[b].at \notin {"rotate", "profile2"}
        PROVE  CalmState'
    <3>1. CalmAccounts' /\ OneAtATime' /\ StoredTokenIsGood'
      BY <2>6 DEF AccessExpires, vars, CalmState, CalmAccounts, Awaited, OneAtATime, Busy,
                  StoredTokenIsGood, Renewing
    <3>2. \A b \in Tabs : CalmTab(b)'
      BY <2>6 DEF AccessExpires, vars, CalmState, CalmTab, Good
    <3>3. QED BY <3>1, <3>2 DEF CalmState
  <2>7. QED BY <2>1, <2>2, <2>3, <2>4, <2>5, <2>6 DEF Ordinarily
<1>3. QED BY <1>1, <1>2

LEMMA BrowserInvNext == BrowserInv /\ [BrowserNext]_browserVars => BrowserInv'
<1> SUFFICES ASSUME BrowserInv, [BrowserNext]_browserVars PROVE BrowserInv'
  OBVIOUS
<1>1. AuthInv /\ HeldInv /\ [Next]_vars
  BY ServiceSteps DEF BrowserInv, SessionInv, HeldInv
<1>2. SessionInv' /\ AuthInv'
  BY <1>1, SessionNext DEF BrowserInv, SessionInv
<1>3. HeldInv'
  BY <1>1, <1>2, HeldNext
<1>4. calm' => calm
  BY DEF BrowserNext, browserVars
<1>5. CalmInv' /\ StoredTokenIsGood'
  <2>1. CASE calm'
    BY <1>1, <1>3, <1>4, <2>1, CalmNext DEF BrowserInv, CalmInv, CalmState
  <2>2. CASE ~calm'
    BY <2>2 DEF CalmInv, StoredTokenIsGood
  <2>3. QED BY <2>1, <2>2
<1>6. QED BY <1>2, <1>3, <1>5 DEF BrowserInv, HeldInv

(* The browser and the service together: what the browser holds was issued *)
(* to it, and while all is calm every rotation goes through.               *)
THEOREM BrowserSafety == BrowserSpec => []BrowserInv
  BY BrowserStart, BrowserInvNext, PTL DEF BrowserSpec

(* While nothing goes wrong, what a browser stores between two page loads  *)
(* is one good pair, however often its tabs load and its tokens expire.    *)
THEOREM StoredPairIsGood == BrowserSpec => []StoredTokenIsGood
<1>1. BrowserInv => StoredTokenIsGood
  BY DEF BrowserInv
<1>2. QED BY <1>1, BrowserSafety, PTL

-------------------------------------------------------------------------------
LEMMA LoadedTab ==
  ASSUME BrowserInv, [BrowserNext]_browserVars, calm', NEW b \in Tabs,
         page[b].at \in Loading, page'[b].at \notin Loading
  PROVE  page'[b].at = "in" /\ page'[b].user = holder[page[b].refr]
<1> USE DEF BrowserInv, PageTypeOK
<1>1. Ordinarily /\ calm
  BY DEF BrowserNext, browserVars
<1>2. CalmTab(b) /\ page[b].auth \in Tokens \cup {NoToken}
  BY <1>1 DEF CalmInv
<1>3. ASSUME NEW d \in Tabs, d # b, page'[b] # page[b] PROVE ~(\E p : Show(d, p))
  BY <1>3
<1>4. ASSUME ProfileAnswered(b) PROVE page'[b].at = "in" /\ page'[b].user = holder[page[b].refr]
  <2>1. page[b].auth = page[b].refr /\ page[b].refr # NoToken
    BY <1>2, <1>4 DEF ProfileAnswered, CalmTab, Good
  <2>2. CASE page[b].auth \notin stale
    BY <1>4, <2>1, <2>2 DEF ProfileAnswered, SetSession
  <2>3. CASE page[b].auth \in stale
    <3>1. PICK c \in Calls : Ask(b, c, [Blank("rotate") EXCEPT !.refr = page[b].refr])
      BY <1>4, <2>1, <2>3 DEF ProfileAnswered
    <3> DEFINE q == [Blank("rotate") EXCEPT !.refr = page[b].refr]
               p == [q EXCEPT !.call = c]
    <3>2. q = [at |-> "rotate", auth |-> NoToken, refr |-> page[b].refr, call |-> NoCall,
               user |-> Nobody]
      OBVIOUS
    <3>3. p.at = "rotate"
      BY <3>2
    <3>4. page' = [page EXCEPT ![b] = p]
      BY <3>1 DEF Ask
    <3>5. QED BY <3>3, <3>4
  <2>4. QED BY <2>2, <2>3
<1>5. ~RotationAnswered(b)
  <2> SUFFICES ASSUME RotationAnswered(b) PROVE FALSE
    OBVIOUS
  <2> DEFINE p == [Blank("profile2") EXCEPT !.auth = got[page[b].call], !.refr = page[b].refr]
  <2>1. p.at = "profile2"
    OBVIOUS
  <2>2. page' = [page EXCEPT ![b] = p]
    BY <1>2 DEF RotationAnswered, CalmTab
  <2>3. QED BY <2>1, <2>2
<1>6. ASSUME SecondProfileAnswered(b)
      PROVE  page'[b].at = "in" /\ page'[b].user = holder[page[b].refr]
  BY <1>2, <1>6 DEF SecondProfileAnswered, CalmTab, HeirOf, SetSession
<1>7. ~(Load(b) \/ SignInAnswered(b) \/ LogOut(b) \/ (~Busy(b) /\ Close(b)))
      /\ \A e \in Emails : ~SignIn(b, e)
  BY DEF Load, SignInAnswered, LogOut, Busy, SignIn
<1>8. ASSUME NEW d \in Tabs,
             \/ PageStep(d) \/ LogOut(d) \/ \E e \in Emails : SignIn(d, e)
             \/ ~Busy(d) /\ Close(d)
      PROVE  \E p : Show(d, p)
  BY <1>8 DEF PageStep, Load, ProfileAnswered, RotationAnswered, SecondProfileAnswered,
              SignInAnswered, LogOut, SignIn, Close, ClearSession, SetSession, Ask
<1>9. \A c \in Calls : Serve(c) => page' = page
  BY DEF Serve
<1>10. \A t \in Tokens : AccessExpires(t) => page' = page
  BY DEF AccessExpires
<1>11. QED
  BY <1>1, <1>3, <1>4, <1>5, <1>6, <1>7, <1>8, <1>9, <1>10 DEF Ordinarily, PageStep

(* While nothing goes wrong, a page load that finds a session signs its    *)
(* user in, whatever number of tabs and of calls there is.                 *)
THEOREM LoadsKeepTheUser == BrowserSpec => LoadsSignIn
<1>1. BrowserInv /\ [BrowserNext]_browserVars =>
        [\A b \in Tabs :
           calm' /\ page[b].at \in Loading /\ page'[b].at \notin Loading =>
             page'[b].at = "in" /\ page'[b].user = holder[page[b].refr]]_browserVars
  BY LoadedTab
<1>2. QED BY <1>1, BrowserSafety, PTL DEF BrowserSpec, LoadsSignIn

-------------------------------------------------------------------------------
LEMMA BrowserAuth == BrowserSpec => []AuthInv /\ [][Next]_vars
<1>1. BrowserInv => AuthInv /\ PageTypeOK
  BY DEF BrowserInv, SessionInv
<1>2. QED BY <1>1, BrowserSafety, ServiceSteps, PTL DEF BrowserSpec

(* Under a browser's retries and lost answers too, a session has two good  *)
(* tokens only if rotations of one token overlapped,                       *)
THEOREM BrowserTwins == BrowserSpec => []OnlyTwinsAreBothLive
<1>1. BrowserInv => OnlyTwinsAreBothLive
  BY EndsAreLive DEF BrowserInv
<1>2. QED BY <1>1, BrowserSafety, PTL

(* a session that has ended stays ended,                                   *)
THEOREM BrowserEndsForGood == BrowserSpec => EndedStaysEnded
<1>1. AuthInv /\ [Next]_vars => [\A s \in Tokens : Ended(s) => Ended(s)']_vars
  BY EndedNext
<1>2. QED BY <1>1, BrowserAuth, PTL DEF EndedStaysEnded

(* and an account that is not active is given no token.                    *)
THEOREM BrowserBarred == BrowserSpec => InactiveGetNoToken
<1>1. AuthInv /\ [Next]_vars =>
        [\A e \in Emails :
           Barred(e) /\ account'[e] # "ACTIVE" =>
             Barred(e)' /\ TokensOf(e)' \subseteq TokensOf(e)]_vars
  BY BarredNext
<1>2. QED BY <1>1, BrowserAuth, PTL DEF InactiveGetNoToken
===============================================================================
