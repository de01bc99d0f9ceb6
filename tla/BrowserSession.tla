---------------------------- MODULE BrowserSession ----------------------------
(***************************************************************************)
(* The storefront's session in one browser: its tabs share localStorage,   *)
(* which holds an access token and a refresh token, and talk to the Auth   *)
(* Service of AuthSession.  A page load asks for the profile, exchanges    *)
(* the refresh token if the access token is past its 15 minutes and asks   *)
(* again; whatever else happens, it clears what is stored.  An action is   *)
(* the code between two awaits.  An access token is named by the refresh   *)
(* token it was issued with.                                               *)
(***************************************************************************)
EXTENDS AuthSession

CONSTANTS Tabs, NoCall

ASSUME NoCallIsNoCall == NoCall \notin Calls

VARIABLES stored,       \* localStorage: auth_token and refresh_token
          stale,        \* the access tokens that have expired
          page,         \* what each tab is doing
          got,          \* the tokens an answer brings
          calm          \* auxiliary: nothing has gone wrong so far

browserVars == <<vars, stored, stale, page, got, calm>>

Nothing == [auth |-> NoToken, refr |-> NoToken]

Loading == {"profile", "rotate", "profile2"}
Busy(b) == page[b].at \in Loading \cup {"enter"}
OneAtATime == \A b1, b2 \in Tabs : Busy(b1) /\ Busy(b2) => b1 = b2

Blank(a) == [at |-> a, auth |-> NoToken, refr |-> NoToken, call |-> NoCall, user |-> Nobody]
Show(b, p) == page' = [page EXCEPT ![b] = p]

-------------------------------------------------------------------------------
BrowserInit ==
  /\ Init
  /\ stored = Nothing
  /\ stale = {}
  /\ page = [b \in Tabs |-> Blank("closed")]
  /\ got = [c \in Calls |-> NoToken]
  /\ calm = TRUE

Awaited(c) == \E b \in Tabs : page[b].call = c

\* A tab sends a request to the service.
Ask(b, c, p) ==
  /\ ~Running(c) /\ ~Awaited(c)
  /\ got' = [got EXCEPT ![c] = NoToken]
  /\ Show(b, [p EXCEPT !.call = c])

\* Mutant: the refresh token that was exchanged is stored again.
SetSessionKeeping(b, auth, refr) ==
  /\ stored' = [auth |-> auth, refr |-> IF page[b].refr # NoToken THEN page[b].refr ELSE refr]
  /\ Show(b, [Blank("in") EXCEPT !.user = holder[auth]])

SetSession(b, auth, refr) ==
  /\ stored' = [auth |-> auth, refr |-> refr]
  /\ Show(b, [Blank("in") EXCEPT !.user = holder[auth]])

ClearSession(b) == stored' = Nothing /\ Show(b, Blank("guest"))

\* A page load.
Load(b) ==
  /\ page[b].at = "closed"
  /\ IF stored.auth = NoToken
     THEN ClearSession(b)
     ELSE /\ Show(b, [Blank("profile") EXCEPT !.auth = stored.auth, !.refr = stored.refr])
          /\ UNCHANGED stored
  /\ UNCHANGED <<vars, stale, got>>

\* GET /auth/me is answered.  It verifies the access token and reads the user,
\* whatever its status.
ProfileAnswered(b) ==
  LET p == page[b]
  IN  /\ p.at = "profile"
      /\ IF p.auth \notin stale
         THEN /\ IF p.refr # NoToken THEN SetSession(b, p.auth, p.refr) ELSE ClearSession(b)
              /\ UNCHANGED <<vars, got>>
         ELSE IF p.refr = NoToken
              THEN ClearSession(b) /\ UNCHANGED <<vars, got>>
              ELSE /\ \E c \in Calls :
                        /\ Refresh(c, p.refr)
                        /\ Ask(b, c, [Blank("rotate") EXCEPT !.refr = p.refr])
                   /\ UNCHANGED stored
      /\ UNCHANGED stale

\* Mutant: the new access token is not stored before the profile is asked for.
RotationUnstored(b) ==
  LET c == page[b].call
  IN  /\ page[b].at = "rotate" /\ ~Running(c)
      /\ IF call[c].at = "ok"
         THEN /\ Show(b, [Blank("profile2") EXCEPT !.auth = stored.auth, !.refr = page[b].refr])
              /\ UNCHANGED stored
         ELSE ClearSession(b)
      /\ UNCHANGED <<vars, stale, got>>

\* The exchange is answered.  The new access token is stored for the profile
\* query; the new refresh token is kept in the tab until that is answered.
RotationAnswered(b) ==
  LET c == page[b].call
  IN  /\ page[b].at = "rotate" /\ ~Running(c)
      /\ IF call[c].at = "ok"
         THEN /\ stored' = [stored EXCEPT !.auth = got[c]]
              /\ Show(b, [Blank("profile2") EXCEPT !.auth = got[c], !.refr = page[b].refr])
         ELSE ClearSession(b)
      /\ UNCHANGED <<vars, stale, got>>

SecondProfileAnswered(b) ==
  /\ page[b].at = "profile2"
  /\ IF page[b].auth \notin stale THEN SetSession(b, page[b].auth, page[b].auth)
                                  ELSE ClearSession(b)
  /\ UNCHANGED <<vars, stale, got>>

\* A request of the page load fails or times out: its answer is not awaited any
\* longer, and the service may go on with it.
LoadFails(b) ==
  /\ page[b].at \in Loading
  /\ ClearSession(b)
  /\ UNCHANGED <<vars, stale, got>>

\* The forms of the login and the register page.
SignIn(b, e) ==
  /\ page[b].at = "guest"
  /\ \E c \in Calls : (Login(c, e) \/ Register(c, e)) /\ Ask(b, c, Blank("enter"))
  /\ UNCHANGED <<stored, stale>>

SignInAnswered(b) ==
  LET c == page[b].call
  IN  /\ page[b].at = "enter" /\ ~Running(c)
      /\ IF call[c].at = "ok"
         THEN SetSession(b, got[c], got[c])
         ELSE Show(b, Blank("guest")) /\ UNCHANGED stored
      /\ UNCHANGED <<vars, stale, got>>

SignInLost(b) ==
  /\ page[b].at = "enter"
  /\ Show(b, Blank("guest"))
  /\ UNCHANGED <<vars, stored, stale, got>>

\* The header's and the dashboard's "log out": the service is not told.
LogOut(b) ==
  /\ page[b].at = "in"
  /\ ClearSession(b)
  /\ UNCHANGED <<vars, stale, got>>

\* A tab is closed, or is about to load another page.
Close(b) ==
  /\ page[b].at # "closed"
  /\ Show(b, Blank("closed"))
  /\ UNCHANGED <<vars, stored, stale, got>>

\* An access token that the browser holds expires.
AccessExpires(t) ==
  /\ t = stored.auth \/ \E b \in Tabs : page[b].auth = t
  /\ t \notin stale
  /\ stale' = stale \cup {t}
  /\ UNCHANGED <<vars, stored, page, got>>

\* The service's steps; an answer nobody waits for is dropped.
Serve(c) ==
  /\ \/ EmailExists(c) \/ CreateUser(c) \/ FindUser(c) \/ CheckPassword(c)
     \/ FindToken(c) \/ FindOwner(c) \/ Revoke(c) \/ Issue(c)
  /\ got' = IF call[c].at = "issue" /\ Awaited(c)
            THEN [got EXCEPT ![c] = CHOOSE t \in Tokens : Issued(t)' /\ ~Issued(t)]
            ELSE got
  /\ UNCHANGED <<stored, stale, page>>

\* Another client of the API logs out.
LogoutElsewhere(c, t) ==
  /\ ~Running(c) /\ ~Awaited(c)
  /\ Logout(c, t)
  /\ UNCHANGED <<stored, stale, page, got>>

ServiceFails ==
  /\ \/ \E c \in Calls : FailCall(c)
     \/ AuthServiceStops
     \/ \E t \in Tokens : Expire(t)
     \/ \E e \in Emails, s \in Statuses : SetStatus(e, s)
  /\ UNCHANGED <<stored, stale, page, got>>

-------------------------------------------------------------------------------
PageStep(b) ==
  \/ Load(b)
  \/ ProfileAnswered(b) \/ RotationAnswered(b) \/ SecondProfileAnswered(b)
  \/ SignInAnswered(b)

\* What happens in the ordinary course of things.
Ordinarily ==
  \/ \E b \in Tabs :
       \/ PageStep(b)
       \/ LogOut(b)
       \/ \E e \in Emails : SignIn(b, e)
       \/ ~Busy(b) /\ Close(b)
  \/ \E c \in Calls : Serve(c)
  \/ \E t \in Tokens :
       (\A b \in Tabs : page[b].at \notin {"rotate", "profile2"}) /\ AccessExpires(t)

\* What goes wrong: a request fails or is given up, a tab is closed while it
\* loads, a token expires under it, the account or the session is ended elsewhere.
Mishap ==
  \/ \E b \in Tabs : LoadFails(b) \/ SignInLost(b) \/ (Busy(b) /\ Close(b))
  \/ \E t \in Tokens :
       (\E b \in Tabs : page[b].at \in {"rotate", "profile2"}) /\ AccessExpires(t)
  \/ \E c \in Calls, t \in Tokens : LogoutElsewhere(c, t)
  \/ ServiceFails

\* Two tabs that load at once are no calm either.
BrowserNext ==
  \/ Ordinarily /\ calm' = (calm /\ OneAtATime')
  \/ Mishap /\ calm' = FALSE

BrowserSpec == BrowserInit /\ [][BrowserNext]_browserVars

-------------------------------------------------------------------------------
PageTypeOK ==
  /\ stored \in [auth : Tokens \cup {NoToken}, refr : Tokens \cup {NoToken}]
  /\ stale \subseteq Tokens
  /\ page \in [Tabs ->
       [at : {"closed", "guest", "in", "enter"} \cup Loading, call : Calls \cup {NoCall},
        auth : Tokens \cup {NoToken}, refr : Tokens \cup {NoToken},
        user : Emails \cup {Nobody}]]
  /\ got \in [Calls -> Tokens \cup {NoToken}]
  /\ calm \in BOOLEAN

(***************************************************************************)
(* While nothing has gone wrong, what the browser stores between two page  *)
(* loads is one pair of tokens the service issued together, and it can be  *)
(* exchanged: every access token may expire, and as often as it likes.     *)
(***************************************************************************)
Renewing == \E b \in Tabs : page[b].at \in {"rotate", "profile2"}

StoredTokenIsGood ==
  calm /\ ~Renewing /\ stored # Nothing =>
    stored.auth = stored.refr /\ token[stored.refr] = "live"

(***************************************************************************)
(* While nothing goes wrong, a page load that finds a session signs its    *)
(* user in: it throws nobody out and makes nobody another user.            *)
(***************************************************************************)
LoadsSignIn ==
  [][\A b \in Tabs :
       calm' /\ page[b].at \in Loading /\ page'[b].at \notin Loading =>
         page'[b].at = "in" /\ page'[b].user = holder[page[b].refr]]_browserVars

-------------------------------------------------------------------------------
(* What these rest on: the browser holds tokens that were issued, and the  *)
(* call a tab waits for, if it was answered, brought it one.               *)
HeldAreIssued ==
  \A t \in Tokens :
    \/ t \in stale \/ t = stored.auth \/ t = stored.refr
    \/ \E b \in Tabs : t = page[b].auth \/ t = page[b].refr
    \/ \E c \in Calls : t = got[c]
    => Issued(t)

AnswersAreTokens ==
  \A b \in Tabs :
    LET p == page[b]
    IN  /\ p.at \in {"profile", "profile2"} => p.auth \in Tokens
        /\ p.call \in Calls <=> p.at \in {"rotate", "enter"}
        /\ p.call \in Calls => /\ call[p.call].op # "logout"
                               /\ call[p.call].at = "ok" => got[p.call] \in Tokens

(* While all is calm every user with a session is active, only the tab     *)
(* that loads has a call under way, and a rotation goes through: it hands  *)
(* its tab a fresh token of the same user.                                 *)
Good(t) == t \in Tokens /\ token[t] = "live"
HeirOf(t, u) == Good(t) /\ t \notin stale /\ u \in Tokens /\ holder[t] = holder[u]

CalmAccounts ==
  /\ \A e \in Emails : account[e] \in {"NONE", "ACTIVE"}
  /\ \A t \in Tokens : Issued(t) => account[holder[t]] = "ACTIVE"
  /\ \A c \in Calls :
       /\ call[c].at \in {"password", "issue"} => account[call[c].email] = "ACTIVE"
       /\ Running(c) => Awaited(c)

CalmTab(b) ==
  LET p == page[b]  c == page[b].call
  IN  /\ p.at = "profile" => p.auth = p.refr /\ Good(p.refr)
      /\ p.at = "rotate" =>
           IF Running(c)
           THEN /\ call[c].op = "refresh" /\ call[c].token = p.refr
                /\ call[c].email = holder[p.refr]
                /\ call[c].at \in {"find", "owner"} => token[p.refr] = "live"
           ELSE call[c].at = "ok" /\ HeirOf(got[c], p.refr)
      /\ p.at = "profile2" => HeirOf(p.auth, p.refr)
      /\ p.at = "enter" => /\ call[c].op \in {"none", "login", "register"}
                           /\ call[c].at = "ok" => Good(got[c])

CalmInv ==
  calm => CalmAccounts /\ OneAtATime /\ \A b \in Tabs : CalmTab(b)

(***************************************************************************)
(* Tabs that share localStorage, whatever they have under way, deal only   *)
(* in tokens the Auth Service issued to them; and while nothing has gone   *)
(* wrong, a rotation under way is of the one good token there is, and its  *)
(* answer brings the next.                                                 *)
(***************************************************************************)
BrowserInv ==
  /\ SessionInv /\ PageTypeOK /\ HeldAreIssued /\ AnswersAreTokens
  /\ CalmInv /\ StoredTokenIsGood
===============================================================================
