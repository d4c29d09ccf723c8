------------------------------ MODULE Sessions ------------------------------
(***************************************************************************)
(* One learner's browser and the sessions the server keeps for it:         *)
(* lib/api-client.ts and providers/auth-provider.tsx in every tab, one     *)
(* cookie jar, and refresh-token rotation in services/auth_service.py.     *)
(*                                                                         *)
(* Tokens are numbered in the order they are issued; the access token and  *)
(* the refresh token issued together have the same number.  A login starts *)
(* a family, named after its first token; a refresh replaces the token it  *)
(* is given by a new one of the family.  A request is sent, served and     *)
(* answered in separate steps, a refresh in two at the server: what it     *)
(* read may be old when it commits.                                        *)
(***************************************************************************)
EXTENDS Naturals, Sequences, FiniteSets

CONSTANTS
  MaxTabs,     \* tabs the learner may have open
  MaxCalls,    \* calls a page may have in flight
  MaxTokens,   \* bound on the tokens issued
  Settings     \* the circumstances to look at: [tabs, calls, lossy]

ASSUME SessionsAssumption ==
  /\ MaxTabs \in Nat \ {0} /\ MaxCalls \in Nat /\ MaxTokens \in Nat \ {0}
  /\ Settings \subseteq [tabs : 1..MaxTabs, calls : 0..MaxCalls, lossy : BOOLEAN]

Tabs   == 1..MaxTabs
Calls  == 1..MaxCalls
Tokens == 1..MaxTokens
NoToken == 0

VARIABLES
  setting,   \* tabs in use, calls of a page, whether the network loses, chosen once
  family,    \* family of each token issued
  revoked,   \* refresh tokens with revoked_at
  cutoff,    \* tokens_valid_from: access tokens up to this one are void
  cookie,    \* the refresh token in the cookie jar
  page,      \* session state of each tab
  refresh,   \* the refresh in flight of each tab, and where it is
  call,      \* the API calls in flight
  ended,     \* history: families ended on purpose
  overtaken, \* history: families ended while a refresh had read its token
  burned,    \* history: families ended by reuse detection
  strays     \* history: tokens of a second line of successors in their family

server  == <<family, revoked, cutoff>>
browser == <<cookie, page, refresh, call>>
history == <<ended, overtaken, burned, strays>>
sessionVars == <<setting, server, browser, history>>

Issued   == DOMAIN family
Live     == Issued \ revoked
Of(f)    == {k \in Issued : family[k] = f}
Accepts(k) == k > cutoff

SignedOut == [user |-> FALSE, access |-> NoToken, booting |-> FALSE]
Quiet     == [at |-> "none", token |-> NoToken]
NoCall    == [at |-> "idle", token |-> NoToken]

SessionInit ==
  /\ setting \in Settings
  /\ family = <<>> /\ revoked = {} /\ cutoff = 0
  /\ cookie = NoToken
  /\ page = [t \in Tabs |-> SignedOut]
  /\ refresh = [t \in Tabs |-> Quiet]
  /\ call = [t \in Tabs |-> [c \in Calls |-> NoCall]]
  /\ ended = {} /\ overtaken = {} /\ burned = {} /\ strays = {}

\* _issue_session: a new token in family f (or in one of its own).
NextToken == Len(family) + 1
CanIssue == Len(family) < MaxTokens
Issue(f) == family' = Append(family, f)

\* Families ended on purpose; a refresh that has read its token is not stopped.
End(fs) ==
  /\ ended' = ended \cup fs
  /\ overtaken' = overtaken \cup
       {f \in fs : \E t \in Tabs : refresh[t].at = "read" /\ family[refresh[t].token] = f}

-----------------------------------------------------------------------------
(* The browser *)

\* login, register: a new family, its tokens in memory and in the cookie jar.
Login(t) ==
  /\ t <= setting.tabs /\ ~page[t].user /\ ~page[t].booting /\ CanIssue
  /\ Issue(NextToken)
  /\ cookie' = NextToken
  /\ page' = [page EXCEPT ![t] = [user |-> TRUE, access |-> NextToken, booting |-> FALSE]]
  /\ UNCHANGED <<setting, revoked, cutoff, refresh, call, history>>

\* request(): the call goes out with the access token in memory.
Send(t, c) ==
  /\ page[t].user /\ c <= setting.calls
  /\ call[t][c].at = "idle"
  /\ call' = [call EXCEPT ![t][c] = [at |-> "sent", token |-> page[t].access]]
  /\ UNCHANGED <<setting, server, cookie, page, refresh, history>>

\* The answer.  On a 401 the call waits for the refresh in flight, or for one
\* that it starts; a call sent again after a refresh takes what it gets.
StartsOwnRefresh(t) ==     \* mutant: refreshInFlight is not shared
  [at |-> "sent", token |-> cookie]

JoinsRefresh(t) == IF refresh[t].at = "none" THEN [at |-> "sent", token |-> cookie]
                                             ELSE refresh[t]
Answer(t, c) ==
  /\ call[t][c].at \in {"sent", "again"}
  /\ IF Accepts(call[t][c].token) \/ call[t][c].at = "again"
     THEN /\ call' = [call EXCEPT ![t][c] = NoCall]
          /\ UNCHANGED refresh
     ELSE /\ call' = [call EXCEPT ![t][c] = [at |-> "waits", token |-> NoToken]]
          /\ refresh' = [refresh EXCEPT ![t] = JoinsRefresh(t)]
  /\ UNCHANGED <<setting, server, cookie, page, history>>

\* A page is loaded: nothing in memory, one silent refresh.
Load(t) ==
  /\ t <= setting.tabs /\ ~page[t].booting
  /\ refresh[t].at # "read"
  /\ refresh[t].at = "none" \/ setting.lossy
  /\ page' = [page EXCEPT ![t] = [SignedOut EXCEPT !.booting = TRUE]]
  /\ call' = [call EXCEPT ![t] = [c \in Calls |-> NoCall]]
  /\ refresh' = [refresh EXCEPT ![t] = [at |-> "sent", token |-> cookie]]
  /\ UNCHANGED <<setting, server, cookie, history>>

\* The refresh is over and everybody who waited for it goes on: with the new
\* access token, or without a session.
WakenNobody(t, ok, k) == UNCHANGED call     \* mutant

Waken(t, ok, k) ==
  call' = [call EXCEPT ![t] = [c \in Calls |->
             IF @[c].at # "waits" THEN @[c]
             ELSE IF ok THEN [at |-> "again", token |-> k] ELSE NoCall]]

Renewed(t) ==
  /\ refresh[t].at = "ok"
  /\ cookie' = refresh[t].token
  /\ page' = [page EXCEPT ![t] =
       [user |-> @.user \/ @.booting, access |-> refresh[t].token, booting |-> FALSE]]
  /\ Waken(t, TRUE, refresh[t].token)
  /\ refresh' = [refresh EXCEPT ![t] = Quiet]
  /\ UNCHANGED <<setting, server, history>>

\* Refused, or lost on the way there or back.  The cookie stays: the handler
\* deletes it on a response that the exception it raises then replaces.
NotRenewed(t) ==
  /\ \/ refresh[t].at = "refused"
     \/ setting.lossy /\ refresh[t].at \in {"sent", "ok"}
  /\ page' = [page EXCEPT ![t] = SignedOut]
  /\ Waken(t, FALSE, NoToken)
  /\ refresh' = [refresh EXCEPT ![t] = Quiet]
  /\ UNCHANGED <<setting, server, cookie, history>>

-----------------------------------------------------------------------------
(* The server *)

\* refresh, up to its decision.  A token already rotated, or revoked otherwise,
\* ends its family.
ReadToken(t) ==
  /\ refresh[t].at = "sent"
  /\ LET k == refresh[t].token
     IN  IF k = NoToken
         THEN /\ refresh' = [refresh EXCEPT ![t] = [@ EXCEPT !.at = "refused"]]
              /\ UNCHANGED <<revoked, burned>>
         ELSE IF k \in revoked
         THEN /\ refresh' = [refresh EXCEPT ![t] = [@ EXCEPT !.at = "refused"]]
              /\ revoked' = revoked \cup Of(family[k])
              /\ burned' = IF Of(family[k]) \cap Live # {}
                           THEN burned \cup {family[k]} ELSE burned
         ELSE /\ refresh' = [refresh EXCEPT ![t] = [@ EXCEPT !.at = "read"]]
              /\ UNCHANGED <<revoked, burned>>
  /\ UNCHANGED <<setting, family, cutoff, cookie, page, call, ended, overtaken, strays>>

\* The rotation: the token read is revoked, its successor issued, committed.
\* The successor is a stray when the token was revoked after it was read, by
\* another rotation or by whatever ended the family, and so is a stray's own.
Strayed(k) == strays' = IF k \in revoked \cup strays THEN strays \cup {NextToken} ELSE strays

RotateKeepsOld(t) ==     \* mutant
  /\ refresh[t].at = "read" /\ CanIssue
  /\ Issue(family[refresh[t].token]) /\ Strayed(refresh[t].token)
  /\ refresh' = [refresh EXCEPT ![t] = [at |-> "ok", token |-> NextToken]]
  /\ UNCHANGED <<setting, revoked, cutoff, cookie, page, call, ended, overtaken, burned>>

Rotate(t) ==
  /\ refresh[t].at = "read" /\ CanIssue
  /\ revoked' = revoked \cup {refresh[t].token}
  /\ Issue(family[refresh[t].token]) /\ Strayed(refresh[t].token)
  /\ refresh' = [refresh EXCEPT ![t] = [at |-> "ok", token |-> NextToken]]
  /\ UNCHANGED <<setting, cutoff, cookie, page, call, ended, overtaken, burned>>

\* The bound on tokens stands for a refresh that fails.
OutOfTokens(t) ==
  /\ refresh[t].at = "read" /\ ~CanIssue
  /\ refresh' = [refresh EXCEPT ![t] = [at |-> "refused", token |-> NoToken]]
  /\ UNCHANGED <<setting, server, cookie, page, call, history>>

\* logout ends the family of the cookie; the page forgets its session whatever
\* becomes of the request.
LogoutThisTokenOnly(f) == {cookie}     \* mutant

LogoutRevokes(f) == Of(f)
Logout(t) ==
  /\ page[t].user
  /\ \E arrives, answered \in IF setting.lossy THEN BOOLEAN ELSE {TRUE} :
       /\ answered => arrives
       /\ IF arrives /\ cookie # NoToken
          THEN /\ revoked' = revoked \cup LogoutRevokes(family[cookie])
               /\ End({family[cookie]})
          ELSE UNCHANGED <<revoked, ended, overtaken>>
       /\ cookie' = IF answered THEN NoToken ELSE cookie
  /\ page' = [page EXCEPT ![t] = SignedOut]
  /\ UNCHANGED <<setting, family, cutoff, refresh, call, burned, strays>>

\* change_password: every family ends, every access token is void, a new family
\* begins.
ChangePassword(t) ==
  /\ page[t].user /\ Accepts(page[t].access) /\ CanIssue
  /\ revoked' = Issued /\ cutoff' = Len(family)
  /\ Issue(NextToken)
  /\ End({family[k] : k \in Issued})
  /\ \E answered \in IF setting.lossy THEN BOOLEAN ELSE {TRUE} :
       /\ cookie' = IF answered THEN NextToken ELSE cookie
       /\ page' = IF answered THEN [page EXCEPT ![t].access = NextToken] ELSE page
  /\ UNCHANGED <<setting, refresh, call, burned, strays>>

\* Another device signs out everywhere, revokes this session, resets the
\* password or deactivates the account.
EndedElsewhere ==
  /\ Live # {}
  /\ revoked' = Issued
  /\ cutoff' \in {cutoff, Len(family)}
  /\ End({family[k] : k \in Issued})
  /\ UNCHANGED <<setting, family, browser, burned, strays>>

\* An access token runs out: from here on it is worth as much as none.
Expire(k) ==
  /\ \E t \in Tabs : page[t].access = k
  /\ page' = [t \in Tabs |-> IF page[t].access = k THEN [page[t] EXCEPT !.access = NoToken]
                                                  ELSE page[t]]
  /\ call' = [t \in Tabs |-> [c \in Calls |->
                IF call[t][c].token = k THEN [call[t][c] EXCEPT !.token = NoToken]
                                        ELSE call[t][c]]]
  /\ UNCHANGED <<setting, server, cookie, refresh, history>>

Respond(t) ==
  \/ ReadToken(t) \/ Rotate(t) \/ OutOfTokens(t) \/ Renewed(t) \/ NotRenewed(t)
  \/ \E c \in Calls : Answer(t, c)

SessionNext ==
  \/ EndedElsewhere
  \/ \E k \in Tokens : Expire(k)
  \/ \E t \in Tabs :
       \/ Login(t) \/ Load(t) \/ Logout(t) \/ ChangePassword(t) \/ Respond(t)
       \/ \E c \in Calls : Send(t, c)

SessionSpec == SessionInit /\ [][SessionNext]_sessionVars

\* The network delivers or fails, and the server answers.
FairSpec ==
  /\ SessionSpec
  /\ \A t \in Tabs :
       /\ WF_sessionVars(ReadToken(t)) /\ WF_sessionVars(Rotate(t) \/ OutOfTokens(t))
       /\ WF_sessionVars(Renewed(t)) /\ WF_sessionVars(NotRenewed(t))
       /\ \A c \in Calls : WF_sessionVars(Answer(t, c))

-----------------------------------------------------------------------------
(* Properties *)

SessionTypeOK ==
  /\ setting \in Settings
  /\ family \in Seq(Tokens) /\ Len(family) <= MaxTokens
  /\ revoked \subseteq Issued
  /\ cutoff \in 0..Len(family)
  /\ cookie \in Issued \cup {NoToken}
  /\ \A t \in Tabs :
       /\ page[t] \in [user : BOOLEAN, access : Issued \cup {NoToken}, booting : BOOLEAN]
       /\ refresh[t].at \in {"none", "sent", "read", "ok", "refused"}
       /\ refresh[t].token \in Issued \cup {NoToken}
       /\ \A c \in Calls : /\ call[t][c].at \in {"idle", "sent", "waits", "again"}
                           /\ call[t][c].token \in Issued \cup {NoToken}

\* A learner with one tab and a network that delivers is never signed out by
\* reuse detection, however many calls meet an expired token at once; while the
\* page is signed in and no refresh is out, the cookie holds a refresh token
\* that works, unless the session was ended on purpose (refreshSession, rotation).
SessionSurvives ==
  setting.tabs = 1 /\ ~setting.lossy =>
    /\ burned = {}
    /\ page[1].user /\ refresh[1].at = "none" =>
         cookie \in Live \/ (cookie # NoToken /\ family[cookie] \in ended)

\* A family that was ended has no live token left, whatever rotation was under
\* way, except one that had read its token before and had not committed.
EndedStaysEnded == \A f \in ended \ overtaken : Of(f) \cap Live = {}

\* A family has one live token, the last of its successors, whatever tabs, losses
\* and logouts came between; only a rotation of a token that was revoked after it
\* was read begins a second line (refresh does not look again before it commits).
OneLiveToken == \A j, k \in Live \ strays : family[j] = family[k] => j = k

\* Every call is answered and every page leaves its splash screen.
EverythingSettles ==
  \A t \in Tabs :
    /\ page[t].booting ~> ~page[t].booting
    /\ \A c \in Calls : call[t][c].at # "idle" ~> call[t][c].at = "idle"

\* "The cookie is useless - remove it so the browser stops replaying it"
\* (api/v1/endpoints/auth.py): after a refusal the cookie is gone.
RefusedCookieGone ==
  [][\A t \in Tabs : refresh[t].at = "refused" /\ refresh'[t].at = "none" /\ ~setting.lossy
       => cookie' # refresh[t].token \/ cookie' = NoToken]_sessionVars
=============================================================================
