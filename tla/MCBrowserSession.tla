---------------------------- MODULE MCBrowserSession ----------------------------
EXTENDS BrowserSession, TLC

\* No action or property names a tab, a call, a token or an email.
Interchangeable == 
  Permutations(Tabs) \cup Permutations(Calls) \cup Permutations(Tokens)
    \cup Permutations(Emails)

\* Bounds: one mishap, accounts that are not INACTIVE (the code treats these as
\* it does SUSPENDED ones), and a call that finds all of Tokens issued fails.
LastToken(c) == call[c].at = "issue" /\ \A t \in Tokens : Issued(t)

MCNext ==
  \/ Ordinarily /\ calm' = (calm /\ OneAtATime')
  \/ calm /\ Mishap /\ calm' = FALSE /\ \A e \in Emails : account'[e] # "INACTIVE"
  \/ /\ \E c \in Calls : LastToken(c) /\ FailCall(c)
     /\ calm' = FALSE
     /\ UNCHANGED <<stored, stale, page, got>>

MCSpec == BrowserInit /\ [][MCNext]_browserVars
===============================================================================
