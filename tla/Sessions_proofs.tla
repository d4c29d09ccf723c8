-------------------------- MODULE Sessions_proofs --------------------------
(***************************************************************************)
(* The ways into an account: its sessions first, then the links it is      *)
(* mailed and the limiter in front of both.                                *)
(*                                                                         *)
(* For any number of tabs, calls and tokens, over any network: a family    *)
(* that was ended keeps no live token, a family has one live token but for *)
(* strays, and one tab on a reliable network is never signed out by reuse  *)
(* detection.  The last needs to know where a token is when it is revoked: *)
(* a token in `Presentable` still opens the session, or the session was    *)
(* ended with it.  The browser presents no other, and while the answer to  *)
(* a rotation is under way the cookie is not presented.                    *)
(*                                                                         *)
(* For any rules, requests and clicks: no window of the limiter exceeds    *)
(* its limit, because hits is always the tail of the log of accepted hits, *)
(* so that a hit is accepted only when the one Limit places before it has  *)
(* left the window; and of each kind only the newest link is outstanding.  *)
(***************************************************************************)
EXTENDS Sessions, EmailLinks, TLAPS, SequenceTheorems, FiniteSetTheorems

Page    == [user : BOOLEAN, access : Nat, booting : BOOLEAN]
Refresh == [at : {"none", "sent", "read", "ok", "refused"}, token : Nat]
Call    == [at : {"idle", "sent", "waits", "again"}, token : Nat]

\* Families are named after tokens issued, each token's no later than itself.
Families ==
  /\ family \in Seq(Nat) /\ Len(family) <= MaxTokens
  /\ \A k \in Issued : family[k] \in 1..k
  /\ revoked \subseteq Issued /\ strays \subseteq Issued
  /\ ended \subseteq Issued
  /\ cutoff \in 0..Len(family)

\* What the browser holds was issued.
Holds(k) == k \in Issued \cup {NoToken}

Browser ==
  /\ setting \in Settings
  /\ cookie \in Nat /\ Holds(cookie)
  /\ page \in [Tabs -> Page] /\ \A t \in Tabs : Holds(page[t].access)
  /\ refresh \in [Tabs -> Refresh] /\ \A t \in Tabs : Holds(refresh[t].token)
  /\ call \in [Tabs -> [Calls -> Call]]
  /\ \A t \in Tabs, c \in Calls : Holds(call[t][c].token)

\* A refresh that has read a token and waits to rotate it read one that was live;
\* if its family was ended since, it overtook that.
Reading ==
  \A t \in Tabs : refresh[t].at = "read" =>
    /\ refresh[t].token # NoToken
    /\ family[refresh[t].token] \in ended => family[refresh[t].token] \in overtaken

ServerInv ==
  /\ Families /\ Browser /\ Reading
  /\ EndedStaysEnded /\ OneLiveToken

-----------------------------------------------------------------------------
\* One tab on a network that delivers.

Dead(f) == Of(f) \cap Live = {}

\* The token opens the session, or the session was ended with it.
Presentable == {k \in Issued : k \in revoked => Dead(family[k]) /\ family[k] \in ended}

\* Tabs that are not used.
Unused ==
  \A t \in Tabs : t > setting.tabs =>
    /\ ~page[t].user /\ ~page[t].booting /\ refresh[t].at = "none"
    /\ \A c \in Calls : call[t][c].at = "idle"

OneTabInv ==
  /\ burned = {}
  /\ page[1].user => cookie # NoToken
  /\ refresh[1].at # "ok" => cookie \in Presentable \cup {NoToken}
  /\ refresh[1].at \in {"read", "ok"} => refresh[1].token \in Presentable
  /\ refresh[1].at = "sent" => refresh[1].token \in Presentable \cup {NoToken}

Undisturbed == setting.tabs = 1 /\ ~setting.lossy

SessionInv == ServerInv /\ Unused /\ (Undisturbed => OneTabInv)

-----------------------------------------------------------------------------
\* What is issued.

LEMMA IssuedTokens ==
  ASSUME Families
  PROVE  /\ Len(family) \in Nat /\ Issued = 1..Len(family) /\ family \in [Issued -> Nat]
         /\ NoToken \notin Issued /\ Live \subseteq Issued
         /\ \A k \in Issued : family[k] \in Issued
<1>1. Len(family) \in Nat /\ Issued = 1..Len(family) /\ family \in [Issued -> Nat]
  BY LenProperties DEF Families, Issued
<1>. QED BY <1>1 DEF Families, NoToken, Live

\* One token more, in a family that is there or in its own.
LEMMA IssueGrows ==
  ASSUME Families, CanIssue, NEW f, f \in Issued \cup {NextToken}, Issue(f)
  PROVE  /\ family' \in Seq(Nat) /\ Len(family') = Len(family) + 1
         /\ Len(family') <= MaxTokens
         /\ NextToken \in Nat /\ NextToken \notin Issued /\ NextToken # NoToken
         /\ Issued' = Issued \cup {NextToken}
         /\ \A k \in Issued : family'[k] = family[k]
         /\ family'[NextToken] = f
         /\ \A k \in Issued' : family'[k] \in 1..k
<1>1. /\ Len(family) \in Nat /\ Issued = 1..Len(family) /\ MaxTokens \in Nat
      /\ NextToken = Len(family) + 1 /\ f \in Nat /\ f \in 1..NextToken
  BY IssuedTokens, SessionsAssumption DEF NextToken
<1>2. /\ family' \in Seq(Nat) /\ Len(family') = Len(family) + 1
      /\ \A k \in 1..Len(family) : family'[k] = family[k]
      /\ family'[Len(family) + 1] = f
  BY <1>1, AppendProperties DEF Issue, Families
<1>3. Issued' = 1..Len(family) + 1
  BY <1>2, LenProperties DEF Issued
<1>4. /\ NextToken \in Nat /\ NextToken \notin Issued /\ NextToken # NoToken
      /\ Issued' = Issued \cup {NextToken} /\ Len(family') <= MaxTokens
  BY <1>1, <1>2, <1>3 DEF CanIssue, NoToken
<1>5. \A k \in Issued : family[k] \in 1..k
  BY DEF Families
<1>6. ASSUME NEW k \in Issued' PROVE family'[k] \in 1..k
  <2>1. CASE k \in Issued
    BY <2>1, <1>1, <1>2, <1>5
  <2>2. CASE k = NextToken
    BY <2>2, <1>1, <1>2
  <2>. QED BY <2>1, <2>2, <1>4
<1>. QED BY <1>1, <1>2, <1>4, <1>6

LEMMA Basics ==
  ASSUME Families, Browser
  PROVE  /\ setting.tabs \in 1..MaxTabs /\ setting.calls \in 0..MaxCalls
         /\ setting.lossy \in BOOLEAN /\ MaxTabs \in Nat \ {0} /\ 1 \in Tabs
         /\ \A t \in Tabs : page[t] \in Page /\ refresh[t] \in Refresh
         /\ \A t \in Tabs, c \in Calls : call[t][c] \in Call
BY SessionsAssumption DEF Browser, Tabs

\* The browser changes, the server does not.
LEMMA OnlyBrowser ==
  ASSUME ServerInv, UNCHANGED <<setting, server, history>>, Browser',
         \A t \in Tabs : refresh'[t].at = "read" => refresh'[t] = refresh[t]
  PROVE  ServerInv'
<1>1. Families'
  BY DEF ServerInv, Families, server, history, Issued
<1>2. Reading'
  BY DEF ServerInv, Reading, server, history
<1>3. EndedStaysEnded' /\ OneLiveToken'
  BY DEF ServerInv, EndedStaysEnded, OneLiveToken, server, history, Of, Live, Issued
<1>. QED BY <1>1, <1>2, <1>3 DEF ServerInv

LEMMA SendTyped ==
  ASSUME ServerInv, NEW t \in Tabs, NEW c \in Calls, Send(t, c)
  PROVE  ServerInv'
<1>1. page[t] \in Page /\ Holds(page[t].access)
  BY DEF ServerInv, Browser
<1>2. call' \in [Tabs -> [Calls -> Call]]
  BY <1>1 DEF Send, ServerInv, Browser, Page, Call
<1>3. \A u \in Tabs, d \in Calls : Holds(call'[u][d].token)
  BY <1>1 DEF Send, ServerInv, Browser
<1>4. Browser'
  BY <1>2, <1>3 DEF Send, ServerInv, Browser, Holds, server, Issued
<1>. QED BY <1>4, OnlyBrowser DEF Send

LEMMA AnswerTyped ==
  ASSUME ServerInv, NEW t \in Tabs, NEW c \in Calls, Answer(t, c)
  PROVE  ServerInv'
<1>1. /\ refresh \in [Tabs -> Refresh] /\ \A u \in Tabs : Holds(refresh[u].token)
      /\ cookie \in Nat /\ Holds(cookie)
      /\ call \in [Tabs -> [Calls -> Call]] /\ \A u \in Tabs, d \in Calls : Holds(call[u][d].token)
  BY DEF ServerInv, Browser
<1>2. JoinsRefresh(t) \in Refresh /\ Holds(JoinsRefresh(t).token)
  BY <1>1 DEF JoinsRefresh, Refresh
<1>3. NoToken \in Nat /\ Holds(NoToken)
  BY DEF NoToken, Holds
<1>4. PICK x \in Call : Holds(x.token) /\ call' = [call EXCEPT ![t][c] = x]
  BY <1>3 DEF Answer, Call, NoCall
<1>5. call' \in [Tabs -> [Calls -> Call]] /\ \A u \in Tabs, d \in Calls : Holds(call'[u][d].token)
  BY <1>1, <1>4
<1>6. refresh' = refresh \/ refresh' = [refresh EXCEPT ![t] = JoinsRefresh(t)]
  BY DEF Answer
<1>7. refresh' \in [Tabs -> Refresh] /\ \A u \in Tabs : Holds(refresh'[u].token)
  BY <1>1, <1>2, <1>6
<1>8. Browser'
  BY <1>5, <1>7 DEF Answer, ServerInv, Browser, Holds, server, Issued
<1>9. \A u \in Tabs : refresh'[u].at = "read" => refresh'[u] = refresh[u]
  BY <1>1, <1>6 DEF JoinsRefresh
<1>. QED BY <1>8, <1>9, OnlyBrowser DEF Answer

LEMMA LoadTyped ==
  ASSUME ServerInv, NEW t \in Tabs, Load(t)
  PROVE  ServerInv'
<1>1. NoToken \in Nat /\ Holds(NoToken)
  BY DEF NoToken, Holds
<1>2. /\ page' \in [Tabs -> Page] /\ \A u \in Tabs : Holds(page'[u].access)
  BY <1>1 DEF Load, ServerInv, Browser, Page, SignedOut
<1>3. refresh' \in [Tabs -> Refresh] /\ \A u \in Tabs : Holds(refresh'[u].token)
  BY DEF Load, ServerInv, Browser, Refresh
<1>4. call' \in [Tabs -> [Calls -> Call]] /\ \A u \in Tabs, d \in Calls : Holds(call'[u][d].token)
  BY <1>1 DEF Load, ServerInv, Browser, Call, NoCall
<1>5. Browser'
  BY <1>2, <1>3, <1>4 DEF Load, ServerInv, Browser, Holds, server, Issued
<1>6. \A u \in Tabs : refresh'[u].at = "read" => refresh'[u] = refresh[u]
  BY DEF Load, ServerInv, Browser
<1>. QED BY <1>5, <1>6, OnlyBrowser DEF Load

\* The end of a refresh, with a new token or without.
LEMMA WakenTyped ==
  ASSUME ServerInv, NEW t \in Tabs, NEW ok \in BOOLEAN, NEW k \in Nat, Holds(k), Waken(t, ok, k)
  PROVE  call' \in [Tabs -> [Calls -> Call]] /\ \A u \in Tabs, d \in Calls : Holds(call'[u][d].token)
<1>1. NoToken \in Nat /\ Holds(NoToken)
  BY DEF NoToken, Holds
<1>. QED BY <1>1 DEF Waken, ServerInv, Browser, Call, NoCall

LEMMA RenewedTyped ==
  ASSUME ServerInv, NEW t \in Tabs, Renewed(t)
  PROVE  ServerInv'
<1>1. /\ refresh \in [Tabs -> Refresh] /\ \A u \in Tabs : Holds(refresh[u].token)
      /\ page \in [Tabs -> Page] /\ \A u \in Tabs : Holds(page[u].access)
  BY DEF ServerInv, Browser
<1>2. refresh[t].token \in Nat /\ Holds(refresh[t].token)
  BY <1>1 DEF Refresh
<1>3. call' \in [Tabs -> [Calls -> Call]] /\ \A u \in Tabs, d \in Calls : Holds(call'[u][d].token)
  BY <1>2, WakenTyped DEF Renewed
<1>4. PICK b \in BOOLEAN : b = (page[t].user \/ page[t].booting)
  OBVIOUS
<1>5. page' = [page EXCEPT ![t] = [user |-> b, access |-> refresh[t].token, booting |-> FALSE]]
  BY <1>4 DEF Renewed
<1>6. page' \in [Tabs -> Page] /\ \A u \in Tabs : Holds(page'[u].access)
  BY <1>1, <1>2, <1>5 DEF Page
<1>7. Quiet \in Refresh /\ Holds(Quiet.token) /\ Quiet.at = "none"
  BY DEF Quiet, Refresh, Holds, NoToken
<1>8. refresh' = [refresh EXCEPT ![t] = Quiet]
  BY DEF Renewed
<1>9. refresh' \in [Tabs -> Refresh] /\ \A u \in Tabs : Holds(refresh'[u].token)
  BY <1>1, <1>7, <1>8
<1>10. Browser'
  BY <1>2, <1>3, <1>6, <1>9 DEF Renewed, ServerInv, Browser, Holds, server, Issued
<1>11. \A u \in Tabs : refresh'[u].at = "read" => refresh'[u] = refresh[u]
  BY <1>1, <1>7, <1>8
<1>. QED BY <1>10, <1>11, OnlyBrowser DEF Renewed

LEMMA NotRenewedTyped ==
  ASSUME ServerInv, NEW t \in Tabs, NotRenewed(t)
  PROVE  ServerInv'
<1>1. /\ refresh \in [Tabs -> Refresh] /\ \A u \in Tabs : Holds(refresh[u].token)
      /\ page \in [Tabs -> Page] /\ \A u \in Tabs : Holds(page[u].access)
  BY DEF ServerInv, Browser
<1>2. NoToken \in Nat /\ Holds(NoToken)
  BY DEF NoToken, Holds
<1>3. call' \in [Tabs -> [Calls -> Call]] /\ \A u \in Tabs, d \in Calls : Holds(call'[u][d].token)
  BY <1>2, WakenTyped DEF NotRenewed
<1>4. SignedOut \in Page /\ Holds(SignedOut.access)
  BY <1>2 DEF SignedOut, Page
<1>5. page' = [page EXCEPT ![t] = SignedOut] /\ refresh' = [refresh EXCEPT ![t] = Quiet]
  BY DEF NotRenewed
<1>6. page' \in [Tabs -> Page] /\ \A u \in Tabs : Holds(page'[u].access)
  BY <1>1, <1>4, <1>5
<1>7. Quiet \in Refresh /\ Holds(Quiet.token) /\ Quiet.at = "none"
  BY DEF Quiet, Refresh, Holds, NoToken
<1>8. refresh' \in [Tabs -> Refresh] /\ \A u \in Tabs : Holds(refresh'[u].token)
  BY <1>1, <1>5, <1>7
<1>9. Browser'
  BY <1>3, <1>6, <1>8 DEF NotRenewed, ServerInv, Browser, Holds, server, Issued
<1>10. \A u \in Tabs : refresh'[u].at = "read" => refresh'[u] = refresh[u]
  BY <1>1, <1>5, <1>7
<1>. QED BY <1>9, <1>10, OnlyBrowser DEF NotRenewed

LEMMA ExpireTyped ==
  ASSUME ServerInv, NEW k \in Tokens, Expire(k)
  PROVE  ServerInv'
<1>1. NoToken \in Nat /\ Holds(NoToken)
  BY DEF NoToken, Holds
<1>2. page' \in [Tabs -> Page] /\ \A u \in Tabs : Holds(page'[u].access)
  BY <1>1 DEF Expire, ServerInv, Browser, Page
<1>3. ASSUME NEW u \in Tabs, NEW d \in Calls
      PROVE  call'[u][d] \in Call /\ Holds(call'[u][d].token)
  <2>1. call[u][d] \in Call /\ Holds(call[u][d].token)
    BY DEF ServerInv, Browser
  <2>2. \/ call'[u][d] = [call[u][d] EXCEPT !.token = NoToken]
        \/ call'[u][d] = call[u][d]
    BY DEF Expire
  <2>. QED BY <1>1, <2>1, <2>2 DEF Call
<1>4. call' \in [Tabs -> [Calls -> Call]]
  BY <1>3 DEF Expire
<1>5. Browser'
  BY <1>2, <1>3, <1>4 DEF Expire, ServerInv, Browser, Holds, server, Issued
<1>. QED BY <1>5, OnlyBrowser DEF Expire

LEMMA OutOfTokensTyped ==
  ASSUME ServerInv, NEW t \in Tabs, OutOfTokens(t)
  PROVE  ServerInv'
<1>1. NoToken \in Nat /\ Holds(NoToken)
  BY DEF NoToken, Holds
<1>2. refresh' \in [Tabs -> Refresh] /\ \A u \in Tabs : Holds(refresh'[u].token)
  BY <1>1 DEF OutOfTokens, ServerInv, Browser, Refresh
<1>3. Browser'
  BY <1>2 DEF OutOfTokens, ServerInv, Browser, Holds, server, Issued
<1>4. \A u \in Tabs : refresh'[u].at = "read" => refresh'[u] = refresh[u]
  BY DEF OutOfTokens, ServerInv, Browser
<1>. QED BY <1>3, <1>4, OnlyBrowser DEF OutOfTokens

-----------------------------------------------------------------------------
\* Steps of the server.

\* Where the tokens issued stay, the browser still holds tokens issued.
LEMMA StillHeld ==
  ASSUME Issued \subseteq Issued', UNCHANGED setting,
         cookie' \in Nat, cookie' \in Issued' \cup {NoToken},
         page' \in [Tabs -> Page], \A t \in Tabs : page'[t].access \in Issued' \cup {NoToken},
         refresh' \in [Tabs -> Refresh],
         \A t \in Tabs : refresh'[t].token \in Issued' \cup {NoToken},
         UNCHANGED call, Browser
  PROVE  Browser'
BY DEF Browser, Holds, NoToken

\* Ending families, when nothing is issued in a family that is there: a refresh
\* that has read a token of one of them has overtaken that.
LEMMA EndKeeps ==
  ASSUME ServerInv, ended' \subseteq Issued, NEW fs, End(fs), refresh' = refresh,
         revoked \subseteq revoked', \A k \in Issued : family[k] \in fs => k \in revoked',
         \A k \in Issued : k \in Issued' /\ family'[k] = family[k],
         \A k \in Issued' \ Issued : family'[k] \notin Issued
  PROVE  Reading' /\ EndedStaysEnded'
<1>1. ended' = ended \cup fs /\ overtaken \subseteq overtaken'
  BY DEF End
<1>2. ASSUME NEW t \in Tabs, refresh'[t].at = "read"
      PROVE  /\ refresh'[t].token # NoToken
             /\ family'[refresh'[t].token] \in ended' => family'[refresh'[t].token] \in overtaken'
  <2>1. refresh[t].at = "read" /\ refresh[t].token # NoToken /\ Holds(refresh[t].token)
    BY <1>2 DEF ServerInv, Reading, Browser
  <2>2. refresh[t].token \in Issued /\ family'[refresh[t].token] = family[refresh[t].token]
    BY <2>1 DEF Holds
  <2>3. family[refresh[t].token] \in fs => family[refresh[t].token] \in overtaken'
    BY <2>1 DEF End
  <2>4. family[refresh[t].token] \in ended => family[refresh[t].token] \in overtaken
    BY <2>1 DEF ServerInv, Reading
  <2>. QED BY <1>1, <2>1, <2>2, <2>3, <2>4
<1>3. ASSUME NEW f \in ended' \ overtaken', NEW k \in Live', family'[k] = f
      PROVE  FALSE
  <2>1. k \in Issued
    BY <1>3 DEF Live
  <2>2. family[k] = f /\ k \in Live
    BY <2>1, <1>3 DEF Live
  <2>3. f \notin fs
    BY <2>1, <2>2, <1>3 DEF Live
  <2>4. f \in ended \ overtaken
    BY <2>3, <1>1
  <2>. QED BY <2>1, <2>2, <2>4 DEF ServerInv, EndedStaysEnded, Of
<1>4. Reading'
  BY <1>2 DEF Reading
<1>5. EndedStaysEnded'
  BY <1>3 DEF EndedStaysEnded, Of, Live
<1>. QED BY <1>4, <1>5

\* A token in a family of its own does not share it.
LEMMA FreshFamily ==
  ASSUME Families, OneLiveToken, CanIssue, Issue(NextToken), strays' = strays,
         revoked \subseteq revoked', revoked' \subseteq Issued
  PROVE  OneLiveToken'
<1>1. /\ Issued' = Issued \cup {NextToken} /\ NextToken \notin Issued
      /\ \A k \in Issued : family'[k] = family[k]
      /\ family'[NextToken] = NextToken
  BY IssueGrows
<1>2. \A k \in Issued : family[k] \in Issued
  BY IssuedTokens
<1>3. Live' \ strays' \subseteq (Live \ strays) \cup {NextToken}
  BY <1>1 DEF Live
<1>4. Live \subseteq Issued
  BY DEF Live
<1>5. ASSUME NEW j \in Live' \ strays', NEW k \in Live' \ strays', family'[j] = family'[k]
      PROVE  j = k
  <2>1. CASE j \in Live \ strays /\ k \in Live \ strays
    BY <2>1, <1>1, <1>4, <1>5 DEF OneLiveToken
  <2>2. CASE j = NextToken \/ k = NextToken
    BY <2>2, <1>1, <1>2, <1>3, <1>4, <1>5
  <2>. QED BY <2>1, <2>2, <1>3
<1>. QED BY <1>5 DEF OneLiveToken

LEMMA LoginTyped ==
  ASSUME ServerInv, NEW t \in Tabs, Login(t)
  PROVE  ServerInv'
<1>0. Families /\ Browser /\ CanIssue /\ Issue(NextToken)
  BY DEF ServerInv, Login
<1>1. /\ family' \in Seq(Nat) /\ Len(family') = Len(family) + 1 /\ Len(family') <= MaxTokens
      /\ NextToken \in Nat /\ NextToken \notin Issued /\ NextToken # NoToken
      /\ Issued' = Issued \cup {NextToken}
      /\ \A k \in Issued : family'[k] = family[k]
      /\ family'[NextToken] = NextToken
      /\ \A k \in Issued' : family'[k] \in 1..k
  BY <1>0, IssueGrows
<1>2. Families'
  BY <1>0, <1>1, IssuedTokens DEF Families, Login, history
<1>3. NextToken \in Issued' /\ Issued \subseteq Issued'
  BY <1>1
<1>4. \A u \in Tabs : page'[u] \in Page /\ page'[u].access \in Issued' \cup {NoToken}
  BY <1>0, <1>1, <1>3 DEF Browser, Login, Page, Holds
<1>5. page' \in [Tabs -> Page]
  BY <1>0, <1>4 DEF Browser, Login
<1>6. Browser'
  <2>1. refresh' = refresh /\ refresh \in [Tabs -> Refresh]
        /\ \A u \in Tabs : refresh[u].token \in Issued' \cup {NoToken}
    BY <1>0, <1>3 DEF Login, Browser, Holds
  <2>2. cookie' = NextToken /\ UNCHANGED <<setting, call>>
    BY DEF Login
  <2>. QED BY <1>0, <1>1, <1>3, <1>4, <1>5, <2>1, <2>2, StillHeld
<1>7. End({}) /\ ended' \subseteq Issued
  BY <1>0 DEF Login, history, End, Families
<1>8. revoked' = revoked /\ refresh' = refresh /\ strays' = strays
  BY DEF Login, history
<1>9. Reading' /\ EndedStaysEnded'
  BY <1>1, <1>7, <1>8, EndKeeps
<1>10. OneLiveToken'
  BY <1>0, <1>8, FreshFamily DEF ServerInv, Families
<1>. QED BY <1>2, <1>6, <1>9, <1>10 DEF ServerInv

LEMMA ReadTokenTyped ==
  ASSUME ServerInv, NEW t \in Tabs, ReadToken(t)
  PROVE  ServerInv'
<1> DEFINE k == refresh[t].token
<1>1. /\ refresh \in [Tabs -> Refresh] /\ \A u \in Tabs : Holds(refresh[u].token)
  BY DEF ServerInv, Browser
<1>2. PICK at \in {"read", "refused"} :
        /\ refresh' = [refresh EXCEPT ![t] = [@ EXCEPT !.at = at]]
        /\ at = "read" => k # NoToken /\ k \notin revoked
  BY DEF ReadToken
<1>3. refresh' \in [Tabs -> Refresh] /\ \A u \in Tabs : Holds(refresh'[u].token)
  BY <1>1, <1>2 DEF Refresh
<1>4. UNCHANGED <<setting, family, cutoff, cookie, page, call, ended, overtaken, strays>>
  BY DEF ReadToken
<1>5. Browser'
  BY <1>3, <1>4 DEF ServerInv, Browser, Holds, Issued
<1>6. revoked' = revoked \/ revoked' = revoked \cup Of(family[k])
  BY DEF ReadToken
<1>7. revoked \subseteq revoked' /\ revoked' \subseteq Issued /\ Issued' = Issued
  BY <1>4, <1>6 DEF Of, ServerInv, Families, Issued
<1>8. Families'
  BY <1>4, <1>7 DEF ServerInv, Families
<1>9. Live' \subseteq Live
  BY <1>7 DEF Live
<1>12. EndedStaysEnded' /\ OneLiveToken'
  BY <1>4, <1>7, <1>9 DEF ServerInv, EndedStaysEnded, OneLiveToken, Of
<1>10. ASSUME NEW u \in Tabs, refresh'[u].at = "read"
       PROVE  /\ refresh'[u].token # NoToken
              /\ family'[refresh'[u].token] \in ended' => family'[refresh'[u].token] \in overtaken'
  <2>1. CASE u # t
    BY <2>1, <1>1, <1>2, <1>4, <1>10 DEF ServerInv, Reading
  <2>2. CASE u = t
    <3>1. at = "read" /\ refresh'[u].token = k
      BY <2>2, <1>1, <1>2, <1>10 DEF Refresh
    <3>2. k \in Live
      BY <3>1, <1>1, <1>2 DEF Live, Holds
    <3>3. family[k] \in ended => family[k] \in overtaken
      BY <3>2 DEF ServerInv, EndedStaysEnded, Of, Live
    <3>. QED BY <3>1, <3>3, <1>2, <1>4
  <2>. QED BY <2>1, <2>2
<1>11. Reading'
  BY <1>10 DEF Reading
<1>. QED BY <1>5, <1>8, <1>11, <1>12 DEF ServerInv

LEMMA RotateTyped ==
  ASSUME ServerInv, NEW t \in Tabs, Rotate(t)
  PROVE  ServerInv'
<1> DEFINE k == refresh[t].token
           n == NextToken
<1>1. /\ refresh \in [Tabs -> Refresh] /\ \A u \in Tabs : Holds(refresh[u].token)
      /\ Families /\ Browser /\ CanIssue /\ Issue(family[k])
      /\ refresh[t].at = "read"
  BY DEF ServerInv, Browser, Rotate
<1>2. k \in Issued
  BY <1>1 DEF ServerInv, Reading, Holds
<1>3. family[k] \in Issued
  BY <1>1, <1>2, IssuedTokens
<1>4. /\ family' \in Seq(Nat) /\ Len(family') = Len(family) + 1 /\ Len(family') <= MaxTokens
      /\ n \in Nat /\ n \notin Issued /\ n # NoToken
      /\ Issued' = Issued \cup {n}
      /\ \A j \in Issued : family'[j] = family[j]
      /\ family'[n] = family[k]
      /\ \A j \in Issued' : family'[j] \in 1..j
  BY <1>1, <1>3, IssueGrows
<1>5. /\ revoked' = revoked \cup {k}
      /\ strays' = IF k \in revoked \cup strays THEN strays \cup {n} ELSE strays
      /\ refresh' = [refresh EXCEPT ![t] = [at |-> "ok", token |-> n]]
      /\ UNCHANGED <<setting, cutoff, cookie, page, call, ended, overtaken, burned>>
  BY DEF Rotate, Strayed
<1> HIDE DEF k, n
<1>6. Families'
  <2>1. /\ revoked \subseteq Issued /\ strays \subseteq Issued /\ ended \subseteq Issued
        /\ cutoff \in 0..Len(family) /\ Len(family) \in Nat
    BY <1>1, IssuedTokens DEF Families
  <2>2. /\ revoked' \subseteq Issued' /\ strays' \subseteq Issued' /\ ended' \subseteq Issued'
    BY <1>2, <1>4, <1>5, <2>1
  <2>3. cutoff' \in 0..Len(family')
    BY <1>4, <1>5, <2>1
  <2> QED BY <1>4, <2>2, <2>3 DEF Families
<1>7. Browser'
  <2>1. [at |-> "ok", token |-> n] \in Refresh
    BY <1>4 DEF Refresh
  <2>2. refresh' \in [Tabs -> Refresh] /\ \A u \in Tabs : refresh'[u].token \in Issued' \cup {NoToken}
    BY <2>1, <1>1, <1>4, <1>5 DEF Holds
  <2>3. /\ Issued \subseteq Issued' /\ cookie' \in Nat /\ cookie' \in Issued' \cup {NoToken}
        /\ page' \in [Tabs -> Page] /\ \A u \in Tabs : page'[u].access \in Issued' \cup {NoToken}
    BY <1>1, <1>4, <1>5 DEF Browser, Holds
  <2>. QED BY <1>1, <1>5, <2>2, <2>3, StillHeld
<1>8. Live' \subseteq (Live \ {k}) \cup {n} /\ Live \subseteq Issued
  BY <1>4, <1>5 DEF Live
<1>9. ASSUME NEW u \in Tabs, refresh'[u].at = "read"
      PROVE  /\ refresh'[u].token # NoToken
             /\ family'[refresh'[u].token] \in ended' => family'[refresh'[u].token] \in overtaken'
  <2>1. u # t /\ refresh'[u] = refresh[u]
    BY <1>1, <1>5, <1>9
  <2>2. refresh[u].token # NoToken /\ refresh[u].token \in Issued
    BY <2>1, <1>1, <1>9 DEF ServerInv, Reading, Holds
  <2>. QED BY <2>1, <2>2, <1>4, <1>5, <1>9 DEF ServerInv, Reading
<1>10. ASSUME NEW f \in ended' \ overtaken', NEW j \in Live', family'[j] = f
       PROVE  FALSE
  <2>1. CASE j = n
    BY <2>1, <1>1, <1>4, <1>5, <1>10 DEF ServerInv, Reading, k
  <2>2. CASE j \in Live
    BY <2>2, <1>4, <1>5, <1>8, <1>10 DEF ServerInv, EndedStaysEnded, Of
  <2>. QED BY <2>1, <2>2, <1>8
<1>11. ASSUME NEW i \in Live' \ strays', NEW j \in Live' \ strays', family'[i] = family'[j]
       PROVE  i = j
  <2>1. /\ \A x \in Live' \ strays' : x = n \/ (x \in Live \ strays /\ x # k)
        /\ n \notin strays' => k \in Live \ strays
    BY <1>2, <1>5, <1>8 DEF Live
  <2>2. \A x, y \in Live \ strays : family[x] = family[y] => x = y
    BY DEF ServerInv, OneLiveToken
  <2>3. \A x \in Live \ strays : x \in Issued /\ family'[x] = family[x]
    BY <1>4, <1>8
  <2>. QED BY <2>1, <2>2, <2>3, <1>4, <1>11
<1>12. Reading' /\ EndedStaysEnded' /\ OneLiveToken'
  BY <1>9, <1>10, <1>11 DEF Reading, EndedStaysEnded, OneLiveToken, Of, Live
<1>. QED BY <1>6, <1>7, <1>12 DEF ServerInv

\* Ending families and issuing nothing.
LEMMA EndTyped ==
  ASSUME ServerInv, NEW fs \in SUBSET Issued, End(fs), UNCHANGED <<setting, family, refresh, call, strays>>,
         revoked \subseteq revoked', revoked' \subseteq Issued,
         \A k \in Issued : family[k] \in fs => k \in revoked',
         cutoff' \in 0..Len(family),
         cookie' \in {cookie, NoToken},
         page' \in [Tabs -> Page], \A t \in Tabs : Holds(page'[t].access)
  PROVE  ServerInv'
<1>1. Issued' = Issued /\ ended' = ended \cup fs /\ ended \subseteq Issued
  BY DEF Issued, End, ServerInv, Families
<1>2. Families'
  BY <1>1 DEF ServerInv, Families
<1>3. Browser'
  BY <1>1 DEF ServerInv, Browser, Holds, NoToken
<1>4. Reading' /\ EndedStaysEnded'
  <2>1. \A k \in Issued : k \in Issued' /\ family'[k] = family[k]
    BY <1>1
  <2>2. \A k \in Issued' \ Issued : family'[k] \notin Issued
    BY <1>1
  <2>. QED BY <1>1, <2>1, <2>2, EndKeeps
<1>5. Live' \subseteq Live
  BY <1>1 DEF Live
<1>6. OneLiveToken'
  BY <1>5 DEF ServerInv, OneLiveToken
<1>. QED BY <1>2, <1>3, <1>4, <1>6 DEF ServerInv

LEMMA LogoutTyped ==
  ASSUME ServerInv, NEW t \in Tabs, Logout(t)
  PROVE  ServerInv'
<1>1. /\ Families /\ cookie \in Nat /\ Holds(cookie) /\ page \in [Tabs -> Page]
      /\ \A u \in Tabs : Holds(page[u].access)
  BY DEF ServerInv, Browser
<1>2. SignedOut \in Page /\ Holds(SignedOut.access)
  BY DEF SignedOut, Page, NoToken, Holds
<1>3. page' \in [Tabs -> Page] /\ \A u \in Tabs : Holds(page'[u].access)
  BY <1>1, <1>2 DEF Logout
<1>4. UNCHANGED <<setting, family, cutoff, refresh, call, burned, strays>> /\ cookie' \in {cookie, NoToken}
  BY DEF Logout
<1>5. cutoff' \in 0..Len(family) /\ revoked \subseteq Issued
  BY <1>1, <1>4 DEF Families
<1>6. \/ cookie # NoToken /\ revoked' = revoked \cup Of(family[cookie]) /\ End({family[cookie]})
      \/ UNCHANGED <<revoked, ended, overtaken>>
  BY DEF Logout, LogoutRevokes
<1>7. CASE cookie # NoToken /\ revoked' = revoked \cup Of(family[cookie]) /\ End({family[cookie]})
  <2>1. cookie \in Issued /\ family[cookie] \in Issued
    BY <1>1, <1>7, IssuedTokens DEF Holds
  <2>2. revoked \subseteq revoked' /\ revoked' \subseteq Issued
    BY <1>5, <1>7 DEF Of
  <2>3. \A k \in Issued : family[k] \in {family[cookie]} => k \in revoked'
    BY <1>7 DEF Of
  <2>. QED BY <1>3, <1>4, <1>5, <1>7, <2>1, <2>2, <2>3, EndTyped
<1>8. CASE UNCHANGED <<revoked, ended, overtaken>>
  <2>1. End({})
    BY <1>8 DEF End
  <2>. QED BY <1>3, <1>4, <1>5, <1>8, <2>1, EndTyped
<1>. QED BY <1>6, <1>7, <1>8

LEMMA EndedElsewhereTyped ==
  ASSUME ServerInv, EndedElsewhere
  PROVE  ServerInv'
<1> DEFINE fs == {family[k] : k \in Issued}
<1>1. Families /\ Browser
  BY DEF ServerInv
<1>2. fs \in SUBSET Issued /\ Len(family) \in Nat
  BY <1>1, IssuedTokens
<1>3. /\ UNCHANGED <<setting, family, refresh, call, strays, page, cookie>> /\ End(fs)
      /\ revoked' = Issued /\ cutoff' \in {cutoff, Len(family)}
  BY DEF EndedElsewhere, browser
<1>4. cutoff' \in 0..Len(family) /\ revoked \subseteq Issued
  BY <1>1, <1>2, <1>3 DEF Families
<1>5. page' \in [Tabs -> Page] /\ \A t \in Tabs : Holds(page'[t].access)
  BY <1>1, <1>3 DEF Browser
<1>. QED BY <1>2, <1>3, <1>4, <1>5, EndTyped

LEMMA ChangePasswordTyped ==
  ASSUME ServerInv, NEW t \in Tabs, ChangePassword(t)
  PROVE  ServerInv'
<1> DEFINE fs == {family[k] : k \in Issued}
<1>1. Families /\ Browser /\ CanIssue /\ Issue(NextToken) /\ OneLiveToken
  BY DEF ServerInv, ChangePassword
<1>2. /\ family' \in Seq(Nat) /\ Len(family') = Len(family) + 1 /\ Len(family') <= MaxTokens
      /\ NextToken \in Nat /\ NextToken \notin Issued /\ NextToken # NoToken
      /\ Issued' = Issued \cup {NextToken}
      /\ \A k \in Issued : family'[k] = family[k]
      /\ family'[NextToken] = NextToken
      /\ \A k \in Issued' : family'[k] \in 1..k
  BY <1>1, IssueGrows
<1>3. /\ revoked' = Issued /\ cutoff' = Len(family) /\ End(fs)
      /\ UNCHANGED <<setting, refresh, call, burned, strays>>
  BY DEF ChangePassword
<1>4. fs \subseteq Issued /\ Len(family) \in Nat /\ revoked \subseteq Issued /\ ended \subseteq Issued
  BY <1>1, IssuedTokens DEF Families
<1>5. ended' \subseteq Issued
  BY <1>3, <1>4 DEF End
<1>6. Families'
  BY <1>1, <1>2, <1>3, <1>4, <1>5 DEF Families
<1>7. Browser'
  <2>1. cookie' \in {cookie, NextToken} /\ (page' = page \/ page' = [page EXCEPT ![t].access = NextToken])
    BY DEF ChangePassword
  <2>2. cookie' \in Nat /\ cookie' \in Issued' \cup {NoToken}
    BY <2>1, <1>1, <1>2 DEF Browser, Holds
  <2>3. page' \in [Tabs -> Page] /\ \A u \in Tabs : page'[u].access \in Issued' \cup {NoToken}
    <3>1. ASSUME NEW u \in Tabs PROVE page'[u] \in Page /\ page'[u].access \in Issued' \cup {NoToken}
      <4>1. page[u] \in Page /\ Holds(page[u].access)
        BY <1>1 DEF Browser
      <4>2. page'[u] = page[u] \/ page'[u] = [page[u] EXCEPT !.access = NextToken]
        BY <1>1, <2>1 DEF Browser
      <4>. QED BY <4>1, <4>2, <1>2 DEF Page, Holds
    <3>. QED BY <3>1, <2>1, <1>1 DEF Browser
  <2>4. refresh' \in [Tabs -> Refresh] /\ \A u \in Tabs : refresh'[u].token \in Issued' \cup {NoToken}
    BY <1>1, <1>2, <1>3 DEF Browser, Holds
  <2>. QED BY <1>1, <1>2, <1>3, <2>2, <2>3, <2>4, StillHeld
<1>8. revoked \subseteq revoked' /\ \A k \in Issued : family[k] \in fs => k \in revoked'
  BY <1>3, <1>4
<1>9. Reading' /\ EndedStaysEnded'
  <2>1. \A k \in Issued : k \in Issued' /\ family'[k] = family[k]
    BY <1>2
  <2>2. \A k \in Issued' \ Issued : family'[k] \notin Issued
    BY <1>2
  <2>. QED BY <1>3, <1>5, <1>8, <2>1, <2>2, EndKeeps
<1>10. OneLiveToken'
  BY <1>1, <1>3, <1>8, FreshFamily
<1>. QED BY <1>6, <1>7, <1>9, <1>10 DEF ServerInv

-----------------------------------------------------------------------------
\* One tab, steps that leave the server alone.

\* What happens to one of the tabs in use leaves the others as they are.
LEMMA OthersUnused ==
  ASSUME ServerInv, Unused, setting' = setting, NEW t \in Tabs, t <= setting.tabs,
         \A u \in Tabs \ {t} : /\ page'[u] = page[u] /\ refresh'[u] = refresh[u]
                               /\ call'[u] = call[u]
  PROVE  Unused'
<1>1. setting.tabs \in Nat /\ \A u \in Tabs : u \in Nat
  BY Basics DEF ServerInv, Tabs
<1>2. ASSUME NEW u \in Tabs, u > setting.tabs
      PROVE  u \in Tabs \ {t}
  BY <1>1, <1>2
<1>. QED BY <1>2 DEF Unused

\* A tab that does something is in use; when it is the only one it is the first.
LEMMA InUse ==
  ASSUME ServerInv, Unused, NEW t \in Tabs,
         page[t].user \/ refresh[t].at # "none" \/ \E c \in Calls : call[t][c].at # "idle"
  PROVE  t <= setting.tabs
<1>1. setting.tabs \in Nat /\ t \in Nat
  BY Basics DEF ServerInv, Tabs
<1>. QED BY <1>1 DEF Unused

LEMMA OnlyTab ==
  ASSUME ServerInv, Undisturbed, NEW t \in Tabs, t <= setting.tabs
  PROVE  t = 1
BY DEF Undisturbed, Tabs

LEMMA PresentableSame ==
  ASSUME UNCHANGED <<server, history>>
  PROVE  Presentable' = Presentable /\ burned' = burned
BY DEF server, history, Presentable, Dead, Of, Live, Issued

LEMMA SendKeeps ==
  ASSUME SessionInv, NEW t \in Tabs, NEW c \in Calls, Send(t, c)
  PROVE  Unused' /\ (Undisturbed' => OneTabInv')
<1>1. t <= setting.tabs /\ setting' = setting
  BY InUse DEF SessionInv, Send
<1>2. \A u \in Tabs \ {t} : page'[u] = page[u] /\ refresh'[u] = refresh[u] /\ call'[u] = call[u]
  BY DEF Send, SessionInv, ServerInv, Browser
<1>3. Unused'
  BY <1>1, <1>2, OthersUnused DEF SessionInv
<1>4. Undisturbed' => OneTabInv'
  BY <1>1, PresentableSame DEF Send, SessionInv, OneTabInv, Undisturbed
<1>. QED BY <1>3, <1>4

LEMMA AnswerKeeps ==
  ASSUME SessionInv, NEW t \in Tabs, NEW c \in Calls, Answer(t, c)
  PROVE  Unused' /\ (Undisturbed' => OneTabInv')
<1>1. t <= setting.tabs /\ setting' = setting
  BY InUse DEF SessionInv, Answer
<1>2. /\ refresh \in [Tabs -> Refresh]
      /\ refresh' = refresh \/ refresh' = [refresh EXCEPT ![t] = JoinsRefresh(t)]
      /\ UNCHANGED <<server, cookie, page, history>>
  BY DEF Answer, SessionInv, ServerInv, Browser
<1>3. \A u \in Tabs \ {t} : page'[u] = page[u] /\ refresh'[u] = refresh[u] /\ call'[u] = call[u]
  BY <1>2 DEF Answer, SessionInv, ServerInv, Browser
<1>4. Unused'
  BY <1>1, <1>3, OthersUnused DEF SessionInv
<1>5. ASSUME Undisturbed' PROVE OneTabInv'
  <2>1. Undisturbed /\ OneTabInv /\ t = 1
    BY <1>1, <1>5, OnlyTab DEF Undisturbed, SessionInv
  <2>2. \/ refresh'[1] = refresh[1]
        \/ refresh[1].at = "none" /\ refresh'[1] = [at |-> "sent", token |-> cookie]
    BY <2>1, <1>2 DEF JoinsRefresh
  <2>. QED BY <2>1, <2>2, <1>2, PresentableSame DEF OneTabInv
<1>. QED BY <1>4, <1>5

LEMMA LoadKeeps ==
  ASSUME SessionInv, NEW t \in Tabs, Load(t)
  PROVE  Unused' /\ (Undisturbed' => OneTabInv')
<1>1. /\ t <= setting.tabs /\ setting' = setting
      /\ refresh \in [Tabs -> Refresh] /\ page \in [Tabs -> Page]
      /\ refresh' = [refresh EXCEPT ![t] = [at |-> "sent", token |-> cookie]]
      /\ UNCHANGED <<server, cookie, history>>
  BY DEF Load, SessionInv, ServerInv, Browser
<1>2. \A u \in Tabs \ {t} : page'[u] = page[u] /\ refresh'[u] = refresh[u] /\ call'[u] = call[u]
  BY DEF Load, SessionInv, ServerInv, Browser
<1>3. Unused'
  BY <1>1, <1>2, OthersUnused DEF SessionInv
<1>4. ASSUME Undisturbed' PROVE OneTabInv'
  <2>1. Undisturbed /\ OneTabInv /\ t = 1
    BY <1>1, <1>4, OnlyTab DEF Undisturbed, SessionInv
  <2>2. refresh[1].at = "none" /\ refresh'[1] = [at |-> "sent", token |-> cookie]
    BY <2>1, <1>1 DEF Load, Undisturbed
  <2>3. ~page'[1].user
    BY <2>1, <1>1 DEF Load, SignedOut
  <2>. QED BY <2>1, <2>2, <2>3, <1>1, PresentableSame DEF OneTabInv
<1>. QED BY <1>3, <1>4

LEMMA NotRenewedKeeps ==
  ASSUME SessionInv, NEW t \in Tabs, NotRenewed(t)
  PROVE  Unused' /\ (Undisturbed' => OneTabInv')
<1>1. /\ setting' = setting /\ refresh[t].at # "none"
      /\ refresh \in [Tabs -> Refresh] /\ page \in [Tabs -> Page]
      /\ refresh' = [refresh EXCEPT ![t] = Quiet] /\ page' = [page EXCEPT ![t] = SignedOut]
      /\ UNCHANGED <<server, cookie, history>>
  BY DEF NotRenewed, SessionInv, ServerInv, Browser
<1>2. t <= setting.tabs
  BY <1>1, InUse DEF SessionInv
<1>3. \A u \in Tabs \ {t} : page'[u] = page[u] /\ refresh'[u] = refresh[u] /\ call'[u] = call[u]
  BY DEF NotRenewed, Waken, SessionInv, ServerInv, Browser
<1>4. Unused'
  BY <1>1, <1>2, <1>3, OthersUnused DEF SessionInv
<1>5. ASSUME Undisturbed' PROVE OneTabInv'
  <2>1. Undisturbed /\ OneTabInv /\ t = 1
    BY <1>1, <1>2, <1>5, OnlyTab DEF Undisturbed, SessionInv
  <2>2. refresh[1].at = "refused" /\ refresh'[1] = Quiet
    BY <2>1, <1>1 DEF NotRenewed, Undisturbed
  <2>3. ~page'[1].user
    BY <2>1, <1>1 DEF SignedOut
  <2>. QED BY <2>1, <2>2, <2>3, <1>1, PresentableSame DEF OneTabInv, Quiet
<1>. QED BY <1>4, <1>5

LEMMA RenewedKeeps ==
  ASSUME SessionInv, NEW t \in Tabs, Renewed(t)
  PROVE  Unused' /\ (Undisturbed' => OneTabInv')
<1>1. /\ setting' = setting /\ refresh[t].at = "ok"
      /\ refresh \in [Tabs -> Refresh] /\ page \in [Tabs -> Page]
      /\ refresh' = [refresh EXCEPT ![t] = Quiet] /\ cookie' = refresh[t].token
      /\ UNCHANGED <<server, history>>
  BY DEF Renewed, SessionInv, ServerInv, Browser
<1>2. t <= setting.tabs
  BY <1>1, InUse DEF SessionInv
<1>3. \A u \in Tabs \ {t} : page'[u] = page[u] /\ refresh'[u] = refresh[u] /\ call'[u] = call[u]
  BY DEF Renewed, Waken, SessionInv, ServerInv, Browser
<1>4. Unused'
  BY <1>1, <1>2, <1>3, OthersUnused DEF SessionInv
<1>5. ASSUME Undisturbed' PROVE OneTabInv'
  <2>1. Undisturbed /\ OneTabInv /\ t = 1
    BY <1>1, <1>2, <1>5, OnlyTab DEF Undisturbed, SessionInv
  <2>2. cookie' \in Presentable /\ refresh'[1] = Quiet
    BY <2>1, <1>1 DEF OneTabInv
  <2>3. cookie' # NoToken
    BY <2>2, IssuedTokens DEF Presentable, SessionInv, ServerInv
  <2>. QED BY <2>1, <2>2, <2>3, <1>1, PresentableSame DEF OneTabInv, Quiet
<1>. QED BY <1>4, <1>5

LEMMA OutOfTokensKeeps ==
  ASSUME SessionInv, NEW t \in Tabs, OutOfTokens(t)
  PROVE  Unused' /\ (Undisturbed' => OneTabInv')
<1>1. /\ setting' = setting /\ refresh[t].at = "read"
      /\ refresh \in [Tabs -> Refresh]
      /\ refresh' = [refresh EXCEPT ![t] = [at |-> "refused", token |-> NoToken]]
      /\ UNCHANGED <<server, cookie, page, call, history>>
  BY DEF OutOfTokens, SessionInv, ServerInv, Browser
<1>2. t <= setting.tabs
  BY <1>1, InUse DEF SessionInv
<1>3. Unused'
  BY <1>1, <1>2, OthersUnused DEF SessionInv
<1>4. ASSUME Undisturbed' PROVE OneTabInv'
  <2>1. Undisturbed /\ OneTabInv /\ t = 1
    BY <1>1, <1>2, <1>4, OnlyTab DEF Undisturbed, SessionInv
  <2>. QED BY <2>1, <1>1, PresentableSame DEF OneTabInv
<1>. QED BY <1>3, <1>4

LEMMA ExpireKeeps ==
  ASSUME SessionInv, NEW k \in Tokens, Expire(k)
  PROVE  Unused' /\ (Undisturbed' => OneTabInv')
<1>1. UNCHANGED <<setting, server, cookie, refresh, history>>
  BY DEF Expire
<1>2. ASSUME NEW u \in Tabs
      PROVE  page'[u].user = page[u].user /\ page'[u].booting = page[u].booting
  <2>1. page[u] \in Page
    BY DEF SessionInv, ServerInv, Browser
  <2>2. page'[u] = page[u] \/ page'[u] = [page[u] EXCEPT !.access = NoToken]
    BY DEF Expire
  <2>. QED BY <2>1, <2>2 DEF Page
<1>3. ASSUME NEW u \in Tabs, NEW d \in Calls
      PROVE  call'[u][d].at = call[u][d].at
  <2>1. call[u][d] \in Call
    BY DEF SessionInv, ServerInv, Browser
  <2>2. call'[u][d] = call[u][d] \/ call'[u][d] = [call[u][d] EXCEPT !.token = NoToken]
    BY DEF Expire
  <2>. QED BY <2>1, <2>2 DEF Call
<1>4. Unused'
  BY <1>1, <1>2, <1>3 DEF SessionInv, Unused
<1>5. ASSUME Undisturbed' PROVE OneTabInv'
  <2>1. OneTabInv /\ 1 \in Tabs
    BY <1>1, <1>5, Basics DEF Undisturbed, SessionInv, ServerInv
  <2>2. page'[1].user = page[1].user
    BY <2>1, <1>2
  <2>. QED BY <2>1, <2>2, <1>1, PresentableSame DEF OneTabInv
<1>. QED BY <1>4, <1>5

-----------------------------------------------------------------------------
\* One tab, steps of the server.

\* A token that works goes on working when what is revoked is revoked with its
\* whole family, and the family is dead already or ended now.
LEMMA PresentableStays ==
  ASSUME ServerInv, ended \subseteq ended',
         \A k \in Issued : k \in Issued' /\ family'[k] = family[k],
         \A k \in Issued' \ Issued : family'[k] \notin Issued,
         revoked \subseteq revoked',
         \A k \in (revoked' \ revoked) \cap Issued : Of(family[k]) \subseteq revoked' /\ family[k] \in ended'
  PROVE  Presentable \subseteq Presentable'
<1>1. Families /\ \A k \in Issued : family[k] \in Issued
  BY IssuedTokens DEF ServerInv
<1>2. ASSUME NEW k \in Presentable, k \in revoked'
      PROVE  (\A j \in Live' : family'[j] # family[k]) /\ family[k] \in ended'
  <2>1. k \in Issued /\ family'[k] = family[k]
    BY DEF Presentable
  <2>2. CASE k \in revoked
    <3>1. Dead(family[k]) /\ family[k] \in ended
      BY <2>2 DEF Presentable
    <3>2. ASSUME NEW j \in Live', family'[j] = family[k] PROVE FALSE
      <4>1. j \in Issued
        BY <2>1, <3>2, <1>1 DEF Live
      <4>2. j \in Of(family[k]) \cap Live
        BY <4>1, <3>2 DEF Of, Live
      <4>. QED BY <3>1, <4>2 DEF Dead
    <3>. QED BY <3>1, <3>2
  <2>3. CASE k \notin revoked
    <3>1. Of(family[k]) \subseteq revoked' /\ family[k] \in ended'
      BY <2>1, <2>3, <1>2
    <3>2. ASSUME NEW j \in Live', family'[j] = family[k] PROVE FALSE
      <4>1. j \in Issued
        BY <2>1, <3>2, <1>1 DEF Live
      <4>. QED BY <3>1, <4>1, <3>2 DEF Of, Live
    <3>. QED BY <3>1, <3>2
  <2>. QED BY <2>2, <2>3
<1>3. ASSUME NEW k \in Presentable
      PROVE  k \in Issued' /\ family'[k] = family[k]
  BY DEF Presentable
<1>. QED BY <1>2, <1>3 DEF Presentable, Dead, Of, Live

LEMMA LoginKeeps ==
  ASSUME SessionInv, NEW t \in Tabs, Login(t)
  PROVE  Unused' /\ (Undisturbed' => OneTabInv')
<1>1. /\ t <= setting.tabs /\ setting' = setting
      /\ cookie' = NextToken /\ page \in [Tabs -> Page]
      /\ UNCHANGED <<revoked, refresh, call, ended, overtaken, burned>>
      /\ Families /\ CanIssue /\ Issue(NextToken)
  BY DEF Login, history, SessionInv, ServerInv, Browser
<1>2. \A u \in Tabs \ {t} : page'[u] = page[u] /\ refresh'[u] = refresh[u] /\ call'[u] = call[u]
  BY <1>1 DEF Login
<1>3. Unused'
  BY <1>1, <1>2, OthersUnused DEF SessionInv
<1>4. /\ NextToken \notin Issued /\ NextToken # NoToken /\ Issued' = Issued \cup {NextToken}
      /\ \A k \in Issued : k \in Issued' /\ family'[k] = family[k]
      /\ family'[NextToken] = NextToken
  BY <1>1, IssueGrows
<1>5. Presentable \subseteq Presentable'
  BY <1>1, <1>4, PresentableStays DEF SessionInv
<1>6. NextToken \in Presentable'
  BY <1>1, <1>4 DEF Presentable, Families
<1>7. ASSUME Undisturbed' PROVE OneTabInv'
  <2>1. Undisturbed /\ OneTabInv /\ t = 1
    BY <1>1, <1>7, OnlyTab DEF Undisturbed, SessionInv
  <2>. QED BY <2>1, <1>1, <1>4, <1>5, <1>6 DEF OneTabInv
<1>. QED BY <1>3, <1>7

LEMMA ReadTokenKeeps ==
  ASSUME SessionInv, NEW t \in Tabs, ReadToken(t)
  PROVE  Unused' /\ (Undisturbed' => OneTabInv')
<1> DEFINE k == refresh[t].token
<1>1. /\ UNCHANGED <<setting, family, cookie, page, call, ended>> /\ refresh[t].at = "sent"
      /\ refresh \in [Tabs -> Refresh] /\ Families
  BY DEF ReadToken, SessionInv, ServerInv, Browser
<1>2. t <= setting.tabs
  BY <1>1, InUse DEF SessionInv
<1>3. PICK at \in {"read", "refused"} :
        /\ refresh' = [refresh EXCEPT ![t] = [@ EXCEPT !.at = at]]
        /\ at = "read" => k # NoToken
        /\ \/ UNCHANGED <<revoked, burned>>
           \/ /\ k # NoToken /\ k \in revoked
              /\ revoked' = revoked \cup Of(family[k])
              /\ Of(family[k]) \cap Live = {} => burned' = burned
  BY DEF ReadToken
<1>4. \A u \in Tabs \ {t} : page'[u] = page[u] /\ refresh'[u] = refresh[u] /\ call'[u] = call[u]
  BY <1>1, <1>3
<1>5. Unused'
  BY <1>1, <1>2, <1>4, OthersUnused DEF SessionInv
<1>6. ASSUME Undisturbed' PROVE OneTabInv'
  <2>1. Undisturbed /\ OneTabInv /\ t = 1
    BY <1>1, <1>2, <1>6, OnlyTab DEF Undisturbed, SessionInv
  <2>2. k \in Presentable \cup {NoToken}
    BY <2>1, <1>1 DEF OneTabInv
  <2>3. UNCHANGED <<revoked, burned>>
    <3>1. CASE k # NoToken /\ k \in revoked
      <4>1. Of(family[k]) \cap Live = {}
        BY <2>2, <3>1 DEF Presentable, Dead
      <4>2. Of(family[k]) \subseteq revoked
        BY <4>1 DEF Of, Live
      <4>. QED BY <4>1, <4>2, <1>3
    <3>. QED BY <3>1, <1>3
  <2>4. Presentable' = Presentable
    BY <2>3, <1>1 DEF Presentable, Dead, Of, Live, Issued
  <2>5. refresh'[1].at = at /\ refresh'[1].token = k
    BY <2>1, <1>1, <1>3 DEF Refresh
  <2>. QED BY <2>1, <2>2, <2>3, <2>4, <2>5, <1>1, <1>3 DEF OneTabInv
<1>. QED BY <1>5, <1>6

LEMMA RotateKeeps ==
  ASSUME SessionInv, NEW t \in Tabs, Rotate(t)
  PROVE  Unused' /\ (Undisturbed' => OneTabInv')
<1>1. /\ UNCHANGED <<setting, cookie, page, call, burned>> /\ refresh[t].at = "read"
      /\ revoked' = revoked \cup {refresh[t].token}
      /\ refresh' = [refresh EXCEPT ![t] = [at |-> "ok", token |-> NextToken]]
      /\ refresh \in [Tabs -> Refresh] /\ Families /\ CanIssue /\ Issue(family[refresh[t].token])
      /\ Holds(refresh[t].token)
  BY DEF Rotate, SessionInv, ServerInv, Browser
<1>2. t <= setting.tabs
  BY <1>1, InUse DEF SessionInv
<1>3. \A u \in Tabs \ {t} : page'[u] = page[u] /\ refresh'[u] = refresh[u] /\ call'[u] = call[u]
  BY <1>1
<1>4. Unused'
  BY <1>1, <1>2, <1>3, OthersUnused DEF SessionInv
<1>5. refresh[t].token \in Issued
  BY <1>1 DEF SessionInv, ServerInv, Reading, Holds
<1>6. NextToken \notin Issued /\ Issued' = Issued \cup {NextToken}
  BY <1>1, <1>5, IssuedTokens, IssueGrows
<1>7. NextToken \in Presentable'
  BY <1>1, <1>5, <1>6 DEF Presentable, Families
<1>8. ASSUME Undisturbed' PROVE OneTabInv'
  <2>1. Undisturbed /\ OneTabInv /\ t = 1
    BY <1>1, <1>2, <1>8, OnlyTab DEF Undisturbed, SessionInv
  <2>2. refresh'[1].at = "ok" /\ refresh'[1].token = NextToken
    BY <2>1, <1>1
  <2>. QED BY <2>1, <2>2, <1>1, <1>7 DEF OneTabInv
<1>. QED BY <1>4, <1>8

LEMMA LogoutKeeps ==
  ASSUME SessionInv, NEW t \in Tabs, Logout(t)
  PROVE  Unused' /\ (Undisturbed' => OneTabInv')
<1>1. /\ UNCHANGED <<setting, family, refresh, call, burned>> /\ page[t].user
      /\ page \in [Tabs -> Page] /\ page' = [page EXCEPT ![t] = SignedOut]
      /\ Families /\ cookie' \in {cookie, NoToken}
  BY DEF Logout, SessionInv, ServerInv, Browser
<1>2. t <= setting.tabs
  BY <1>1, InUse DEF SessionInv
<1>3. \A u \in Tabs \ {t} : page'[u] = page[u] /\ refresh'[u] = refresh[u] /\ call'[u] = call[u]
  BY <1>1
<1>4. Unused'
  BY <1>1, <1>2, <1>3, OthersUnused DEF SessionInv
<1>5. Issued' = Issued
  BY <1>1 DEF Issued
<1>6. Presentable \subseteq Presentable'
  <2>1. \/ revoked' = revoked \cup Of(family[cookie]) /\ End({family[cookie]})
        \/ UNCHANGED <<revoked, ended, overtaken>>
    BY DEF Logout, LogoutRevokes
  <2>2. CASE revoked' = revoked \cup Of(family[cookie]) /\ End({family[cookie]})
    <3>1. ended' = ended \cup {family[cookie]}
      BY <2>2 DEF End
    <3>2. \A k \in (revoked' \ revoked) \cap Issued : Of(family[k]) \subseteq revoked' /\ family[k] \in ended'
      BY <2>2, <3>1 DEF Of
    <3>. QED BY <2>2, <3>1, <3>2, <1>1, <1>5, PresentableStays DEF SessionInv
  <2>3. CASE UNCHANGED <<revoked, ended, overtaken>>
    BY <2>3, <1>1, <1>5, PresentableStays DEF SessionInv
  <2>. QED BY <2>1, <2>2, <2>3
<1>7. ASSUME Undisturbed' PROVE OneTabInv'
  <2>1. Undisturbed /\ OneTabInv /\ t = 1
    BY <1>1, <1>2, <1>7, OnlyTab DEF Undisturbed, SessionInv
  <2>2. ~page'[1].user
    BY <2>1, <1>1 DEF SignedOut
  <2>. QED BY <2>1, <2>2, <1>1, <1>6 DEF OneTabInv
<1>. QED BY <1>4, <1>7

LEMMA ChangePasswordKeeps ==
  ASSUME SessionInv, NEW t \in Tabs, ChangePassword(t)
  PROVE  Unused' /\ (Undisturbed' => OneTabInv')
<1>1. /\ UNCHANGED <<setting, refresh, call, burned>> /\ page[t].user
      /\ page \in [Tabs -> Page] /\ Families /\ CanIssue /\ Issue(NextToken)
      /\ revoked' = Issued /\ End({family[k] : k \in Issued}) /\ revoked \subseteq Issued
      /\ \E answered \in IF setting.lossy THEN BOOLEAN ELSE {TRUE} :
           cookie' = IF answered THEN NextToken ELSE cookie
      /\ page' = page \/ page' = [page EXCEPT ![t].access = NextToken]
  BY DEF ChangePassword, SessionInv, ServerInv, Browser, Families
<1>2. t <= setting.tabs
  BY <1>1, InUse DEF SessionInv
<1>3. \A u \in Tabs \ {t} : page'[u] = page[u] /\ refresh'[u] = refresh[u] /\ call'[u] = call[u]
  BY <1>1
<1>4. Unused'
  BY <1>1, <1>2, <1>3, OthersUnused DEF SessionInv
<1>5. /\ NextToken \notin Issued /\ NextToken # NoToken /\ Issued' = Issued \cup {NextToken}
      /\ \A k \in Issued : k \in Issued' /\ family'[k] = family[k]
      /\ family'[NextToken] = NextToken
  BY <1>1, IssueGrows
<1>6. ended' = ended \cup {family[k] : k \in Issued}
  BY <1>1 DEF End
<1>7. \A k \in (revoked' \ revoked) \cap Issued : Of(family[k]) \subseteq revoked' /\ family[k] \in ended'
  BY <1>1, <1>6 DEF Of
<1>8. Presentable \subseteq Presentable'
  BY <1>1, <1>5, <1>6, <1>7, PresentableStays DEF SessionInv
<1>9. NextToken \in Presentable'
  BY <1>1, <1>5 DEF Presentable
<1>10. ASSUME Undisturbed' PROVE OneTabInv'
  <2>1. Undisturbed /\ OneTabInv /\ t = 1
    BY <1>1, <1>2, <1>10, OnlyTab DEF Undisturbed, SessionInv
  <2>2. cookie' = NextToken
    BY <2>1, <1>1 DEF Undisturbed
  <2>. QED BY <2>1, <2>2, <1>1, <1>5, <1>8, <1>9 DEF OneTabInv
<1>. QED BY <1>4, <1>10

LEMMA EndedElsewhereKeeps ==
  ASSUME SessionInv, EndedElsewhere
  PROVE  Unused' /\ (Undisturbed' => OneTabInv')
<1>1. /\ UNCHANGED <<setting, family, cookie, page, refresh, call, burned>>
      /\ revoked' = Issued /\ End({family[k] : k \in Issued}) /\ revoked \subseteq Issued
  BY DEF EndedElsewhere, browser, SessionInv, ServerInv, Families
<1>2. Unused'
  BY <1>1 DEF SessionInv, Unused
<1>3. Issued' = Issued /\ ended' = ended \cup {family[k] : k \in Issued}
  BY <1>1 DEF Issued, End
<1>4. \A k \in (revoked' \ revoked) \cap Issued : Of(family[k]) \subseteq revoked' /\ family[k] \in ended'
  BY <1>1, <1>3 DEF Of
<1>5. Presentable \subseteq Presentable'
  BY <1>1, <1>3, <1>4, PresentableStays DEF SessionInv
<1>6. Undisturbed' => OneTabInv'
  BY <1>1, <1>5 DEF SessionInv, Undisturbed, OneTabInv
<1>. QED BY <1>2, <1>6

-----------------------------------------------------------------------------
\* Every step.

LEMMA SessionStart ==
  ASSUME SessionInit
  PROVE  SessionInv
<1>1. family \in Seq(Nat) /\ Len(family) = 0 /\ Issued = {} /\ MaxTokens \in Nat
  BY EmptySeq, LenProperties, SessionsAssumption DEF SessionInit, Issued
<1>2. Families
  BY <1>1 DEF SessionInit, Families
<1>3. Browser
  BY DEF SessionInit, Browser, Holds, NoToken, Page, Refresh, Call, SignedOut, Quiet, NoCall
<1>4. Reading /\ EndedStaysEnded /\ OneLiveToken
  BY <1>1 DEF SessionInit, Reading, EndedStaysEnded, OneLiveToken, Live, Quiet
<1>5. Unused
  BY DEF SessionInit, Unused, SignedOut, Quiet, NoCall
<1>6. 1 \in Tabs
  BY SessionsAssumption DEF Tabs
<1>7. OneTabInv
  BY <1>6 DEF SessionInit, OneTabInv, SignedOut, Quiet
<1>. QED BY <1>2, <1>3, <1>4, <1>5, <1>7 DEF SessionInv, ServerInv

LEMMA SessionStep ==
  ASSUME SessionInv, [SessionNext]_sessionVars
  PROVE  SessionInv'
<1> DEFINE Kept == SessionInv'
<1>0. ServerInv
  BY DEF SessionInv
<1>1. CASE EndedElsewhere
  BY <1>0, <1>1, EndedElsewhereTyped, EndedElsewhereKeeps DEF SessionInv
<1>2. ASSUME NEW k \in Tokens, Expire(k) PROVE Kept
  BY <1>0, <1>2, ExpireTyped, ExpireKeeps DEF SessionInv
<1>3. ASSUME NEW t \in Tabs, Login(t) PROVE Kept
  BY <1>0, <1>3, LoginTyped, LoginKeeps DEF SessionInv
<1>4. ASSUME NEW t \in Tabs, Load(t) PROVE Kept
  BY <1>0, <1>4, LoadTyped, LoadKeeps DEF SessionInv
<1>5. ASSUME NEW t \in Tabs, Logout(t) PROVE Kept
  BY <1>0, <1>5, LogoutTyped, LogoutKeeps DEF SessionInv
<1>6. ASSUME NEW t \in Tabs, ChangePassword(t) PROVE Kept
  BY <1>0, <1>6, ChangePasswordTyped, ChangePasswordKeeps DEF SessionInv
<1>7. ASSUME NEW t \in Tabs, ReadToken(t) PROVE Kept
  BY <1>0, <1>7, ReadTokenTyped, ReadTokenKeeps DEF SessionInv
<1>8. ASSUME NEW t \in Tabs, Rotate(t) PROVE Kept
  BY <1>0, <1>8, RotateTyped, RotateKeeps DEF SessionInv
<1>9. ASSUME NEW t \in Tabs, OutOfTokens(t) PROVE Kept
  BY <1>0, <1>9, OutOfTokensTyped, OutOfTokensKeeps DEF SessionInv
<1>10. ASSUME NEW t \in Tabs, Renewed(t) PROVE Kept
  BY <1>0, <1>10, RenewedTyped, RenewedKeeps DEF SessionInv
<1>11. ASSUME NEW t \in Tabs, NotRenewed(t) PROVE Kept
  BY <1>0, <1>11, NotRenewedTyped, NotRenewedKeeps DEF SessionInv
<1>12. ASSUME NEW t \in Tabs, NEW c \in Calls, Answer(t, c) PROVE Kept
  BY <1>0, <1>12, AnswerTyped, AnswerKeeps DEF SessionInv
<1>13. ASSUME NEW t \in Tabs, NEW c \in Calls, Send(t, c) PROVE Kept
  BY <1>0, <1>13, SendTyped, SendKeeps DEF SessionInv
<1>14. CASE UNCHANGED sessionVars
  <2>1. UNCHANGED <<setting, server, browser, history>>
    BY <1>14 DEF sessionVars
  <2>2. Browser' /\ Unused'
    BY <2>1, <1>0 DEF browser, server, Browser, Holds, Issued, ServerInv, SessionInv, Unused
  <2>3. \A u \in Tabs : refresh'[u].at = "read" => refresh'[u] = refresh[u]
    BY <2>1 DEF browser
  <2>4. Undisturbed' => OneTabInv'
    BY <2>1, PresentableSame DEF SessionInv, Undisturbed, OneTabInv, browser
  <2>5. ServerInv'
    BY <1>0, <2>1, <2>2, <2>3, OnlyBrowser
  <2>. QED BY <2>2, <2>4, <2>5 DEF SessionInv
<1>. QED BY <1>1, <1>2, <1>3, <1>4, <1>5, <1>6, <1>7, <1>8, <1>9, <1>10, <1>11, <1>12, <1>13, <1>14
         DEF SessionNext, Respond

LEMMA SessionInvariant == SessionSpec => []SessionInv
BY SessionStart, SessionStep, PTL DEF SessionSpec

-----------------------------------------------------------------------------
\* What the browser and the server hold has its type: every token named anywhere
\* was issued.
THEOREM SessionTypeCorrect == SessionSpec => []SessionTypeOK
<1>1. SessionInv => SessionTypeOK
  <2> SUFFICES ASSUME SessionInv PROVE SessionTypeOK
    OBVIOUS
  <2>1. Families /\ Browser
    BY DEF SessionInv, ServerInv
  <2>2. family \in Seq(Tokens)
    <3>1. Len(family) \in Nat /\ MaxTokens \in Nat /\ Issued = 1..Len(family) /\ family \in [Issued -> Nat]
      BY <2>1, IssuedTokens, SessionsAssumption
    <3>2. \A k \in 1..Len(family) : family[k] \in 1..k
      BY <2>1, <3>1 DEF Families
    <3>3. \A k \in 1..Len(family) : family[k] \in Tokens
      BY <2>1, <3>1, <3>2 DEF Families, Tokens
    <3>4. family = [k \in 1..Len(family) |-> family[k]]
      BY <3>1
    <3>. QED BY <3>1, <3>3, <3>4, SeqDef
  <2>3. \A t \in Tabs : page[t] \in [user : BOOLEAN, access : Issued \cup {NoToken}, booting : BOOLEAN]
    BY <2>1 DEF Browser, Page, Holds
  <2>4. \A t \in Tabs : refresh[t] \in Refresh /\ Holds(refresh[t].token)
    BY <2>1 DEF Browser
  <2>5. \A t \in Tabs, c \in Calls : call[t][c] \in Call /\ Holds(call[t][c].token)
    BY <2>1 DEF Browser
  <2>. QED BY <2>1, <2>2, <2>3, <2>4, <2>5 DEF SessionTypeOK, Families, Browser, Holds, Refresh, Call
<1>. QED BY <1>1, SessionInvariant, PTL

\* A family ended by logout, a new password or another device has no live token
\* left, but for a refresh that had read its token before (auth_service.refresh,
\* revoke_family).
THEOREM EndedIsEnded == SessionSpec => []EndedStaysEnded
<1>1. SessionInv => EndedStaysEnded
  BY DEF SessionInv, ServerInv
<1>. QED BY <1>1, SessionInvariant, PTL

\* However many tabs refresh, and whatever answers the network loses, a family
\* has one live token that is no stray (rotation in auth_service.refresh).
THEOREM OneToken == SessionSpec => []OneLiveToken
<1>1. SessionInv => OneLiveToken
  BY DEF SessionInv, ServerInv
<1>. QED BY <1>1, SessionInvariant, PTL

\* One tab on a network that delivers is not signed out by reuse detection, with
\* any number of calls that meet an expired token at once (refreshSession).
THEOREM OneTabSurvives == SessionSpec => []SessionSurvives
<1>1. SessionInv => SessionSurvives
  <2> SUFFICES ASSUME SessionInv, Undisturbed
               PROVE  /\ burned = {}
                      /\ page[1].user /\ refresh[1].at = "none" =>
                           cookie \in Live \/ (cookie # NoToken /\ family[cookie] \in ended)
    BY DEF SessionSurvives, Undisturbed
  <2>1. OneTabInv
    BY DEF SessionInv
  <2>2. ASSUME page[1].user, refresh[1].at = "none"
        PROVE  cookie \in Live \/ (cookie # NoToken /\ family[cookie] \in ended)
    <3>1. cookie \in Presentable /\ cookie # NoToken
      BY <2>1, <2>2 DEF OneTabInv
    <3>. QED BY <3>1 DEF Presentable, Live
  <2>. QED BY <2>1, <2>2 DEF OneTabInv
<1>. QED BY <1>1, SessionInvariant, PTL

-----------------------------------------------------------------------------
(* The limiter: facts about the constants and the helpers *)

LEMMA WindowType ==
  ASSUME NEW k \in Keys
  PROVE  Window(k) \in Nat /\ PruneWindow \in Nat /\ Window(k) <= PruneWindow
<1> DEFINE a == WindowSeconds[k]
           b == PruneSeconds
           t == TicksPerSecond
<1>1. a \in Nat /\ b \in Nat /\ t \in Nat /\ a <= b
  BY WindowAssumption, PruneAssumption, TickAssumption
<1>2. a * t \in Nat /\ b * t \in Nat /\ a * t <= b * t
  <2> HIDE DEF a, b, t
  <2> QED BY <1>1, Z3
<1> QED BY <1>2 DEF Window, PruneWindow

\* Rounding up to a whole second and adding nothing less than what was asked.
LEMMA RoundUp ==
  ASSUME NEW x \in Nat, NEW t \in Nat \ {0}
  PROVE  /\ x \div t \in Nat
         /\ (x \div t + 1) * t \in Int
         /\ (x \div t + 1) * t > x
<1>1. x \div t \in Nat /\ x = t * (x \div t) + (x % t) /\ x % t \in 0..(t - 1)
  BY Z3
<1> DEFINE q == x \div t
           m == x % t
<1> HIDE DEF q, m
<1>2. q \in Nat /\ m \in 0..(t-1) /\ x = t * q + m
  BY <1>1 DEF q, m
<1>3. (q + 1) * t = t * q + t /\ t * q \in Nat
  BY <1>2, Z3
<1>4. (q + 1) * t > x
  <2> DEFINE p == t * q
  <2>1. p \in Nat /\ x = p + m /\ (q + 1) * t = p + t
    BY <1>2, <1>3
  <2> HIDE DEF p
  <2> QED BY <1>2, <2>1
<1>5. (q + 1) * t \in Int
  BY <1>2, Z3
<1> QED BY <1>2, <1>4, <1>5 DEF q

\* What the loop of check leaves: the rest of the log after dropped + n
\* entries, all of which are out of the window.
LEMMA LoopLeavesRest ==
  ASSUME LimiterInv, NEW k \in Keys, NEW n \in 0..Len(hits[k]), AgedOut(k, n)
  PROVE  /\ Recent(k, n) \in Seq(Int)
         /\ Len(Recent(k, n)) = Len(hits[k]) - n
         /\ \A i \in 1..Len(Recent(k, n)) :
              /\ Recent(k, n)[i] = hits[k][n + i]
              /\ Recent(k, n)[i] = log[k][dropped[k] + n + i]
         /\ dropped[k] + n \in Nat
         /\ Len(log[k]) = dropped[k] + n + Len(Recent(k, n))
         /\ \A i \in 1..(dropped[k] + n) : log[k][i] < now - Window(k)
<1>1. /\ hits[k] \in Seq(Int) /\ log[k] \in Seq(Int) /\ dropped[k] \in Nat
      /\ now \in Nat /\ Window(k) \in Nat
      /\ Len(hits[k]) \in Nat /\ n \in Nat
  <2>1. now \in Nat
    BY TickAssumption DEF LimiterInv, LimiterTypeOK
  <2> QED BY <2>1, WindowType DEF LimiterInv, LimiterTypeOK
<1>2. /\ Len(log[k]) = dropped[k] + Len(hits[k])
      /\ \A i \in 1..Len(hits[k]) : hits[k][i] = log[k][dropped[k] + i]
      /\ \A i \in 1..dropped[k] : log[k][i] < now - Window(k)
  BY DEF LimiterInv, HitsAreRestOfLog
<1>3. /\ Recent(k, n) \in Seq(Int)
      /\ Len(Recent(k, n)) = Len(hits[k]) - n
      /\ \A i \in 1..Len(Recent(k, n)) : Recent(k, n)[i] = hits[k][n + i]
  <2>1. n + 1 \in 1..Len(hits[k]) + 1
    BY <1>1
  <2>2. CASE n + 1 <= Len(hits[k])
    <3> DEFINE s == hits[k]
               j == n + 1
    <3>1. s \in Seq(Int) /\ Len(s) \in Nat /\ j \in 1..Len(s) /\ j = n + 1
      BY <1>1, <2>1, <2>2
    <3>2. /\ SubSeq(s, j, Len(s)) \in Seq(Int)
          /\ Len(SubSeq(s, j, Len(s))) = Len(s) - n
          /\ \A i \in 1..Len(SubSeq(s, j, Len(s))) : SubSeq(s, j, Len(s))[i] = s[n + i]
      <4> HIDE DEF s, j
      <4> QED BY <1>1, <3>1, SubSeqProperties
    <3> QED BY <3>2 DEF Recent
  <2>3. CASE n = Len(hits[k])
    BY <1>1, <2>1, <2>3, SubSeqProperties DEF Recent
  <2>4. n + 1 <= Len(hits[k]) \/ n = Len(hits[k])
    BY <1>1
  <2> QED BY <2>2, <2>3, <2>4, Zenon
<1>4. \A i \in 1..n : hits[k][i] < now - Window(k)
  BY DEF AgedOut
<1>5. ASSUME NEW i \in 1..(dropped[k] + n)
      PROVE  log[k][i] < now - Window(k)
  <2>1. CASE i <= dropped[k]
    BY <1>1, <1>2, <2>1
  <2>2. CASE i > dropped[k]
    <3>1. i - dropped[k] \in 1..n /\ i - dropped[k] \in 1..Len(hits[k])
      BY <1>1, <2>2
    <3>2. hits[k][i - dropped[k]] = log[k][dropped[k] + (i - dropped[k])]
      BY <1>2, <3>1
    <3>3. dropped[k] + (i - dropped[k]) = i
      BY <1>1
    <3> QED BY <1>4, <3>1, <3>2, <3>3
  <2> QED BY <1>1, <2>1, <2>2
<1>6. ASSUME NEW i \in 1..Len(Recent(k, n))
      PROVE  Recent(k, n)[i] = log[k][dropped[k] + n + i]
  <2>1. n + i \in 1..Len(hits[k]) /\ dropped[k] + (n + i) = dropped[k] + n + i
    BY <1>1, <1>3
  <2> QED BY <1>2, <1>3, <2>1
<1>7. dropped[k] + n \in Nat /\ Len(log[k]) = dropped[k] + n + Len(Recent(k, n))
  BY <1>1, <1>2, <1>3
<1> QED BY <1>3, <1>5, <1>6, <1>7, Zenon

-----------------------------------------------------------------------------
(* The inductive invariant *)

LEMMA LimiterStarts == LimiterInit => LimiterInv
<1> SUFFICES ASSUME LimiterInit PROVE LimiterInv
  OBVIOUS
<1> USE DEF LimiterInit
<1>1. LimiterTypeOK
  BY TickAssumption DEF LimiterTypeOK
<1>2. HitsAreRestOfLog
  BY DEF HitsAreRestOfLog
<1>3. LogInOrder
  BY DEF LogInOrder
<1>4. HintOutlivesOldest
  BY LimitAssumption DEF HintOutlivesOldest
<1>5. AtMostLimitPerWindow
  BY LimitAssumption DEF AtMostLimitPerWindow
<1> QED BY <1>1, <1>2, <1>3, <1>4, <1>5 DEF LimiterInv

\* One key's share of the invariant, so that a step is looked at where it acts.
KeyInv(k) ==
  /\ hits[k] \in Seq(Int) /\ log[k] \in Seq(Int) /\ dropped[k] \in Nat
  /\ hint[k] \in Int \cup {NoHint}
  /\ Len(log[k]) = dropped[k] + Len(hits[k])
  /\ \A i \in 1..Len(hits[k]) : hits[k][i] = log[k][dropped[k] + i]
  /\ \A i \in 1..dropped[k] : log[k][i] < now - Window(k)
  /\ \A i \in 1..Len(log[k]) : log[k][i] <= now
  /\ \A i, j \in 1..Len(log[k]) : i <= j => log[k][i] <= log[k][j]
  /\ Len(hits[k]) <= Limit[k]
  /\ hint[k] # NoHint => \/ Len(hits[k]) < Limit[k]
                         \/ hits[k][1] + Window(k) < hint[k]
  /\ \A i \in 1..(Len(log[k]) - Limit[k]) :
       log[k][i + Limit[k]] - log[k][i] > Window(k)

LEMMA InvIsPerKey ==
  LimiterInv <=> (LimiterTypeOK /\ \A k \in Keys : KeyInv(k))
<1>1. LimiterInv => (LimiterTypeOK /\ \A k \in Keys : KeyInv(k))
  <2> SUFFICES ASSUME LimiterInv, NEW k \in Keys PROVE KeyInv(k)
    BY DEF LimiterInv
  <2> QED
    BY DEF LimiterTypeOK, LimiterInv, HitsAreRestOfLog, LogInOrder,
                HintOutlivesOldest, AtMostLimitPerWindow, KeyInv
<1>2. LimiterTypeOK /\ (\A k \in Keys : KeyInv(k)) => LimiterInv
  <2> SUFFICES ASSUME LimiterTypeOK, \A k \in Keys : KeyInv(k) PROVE LimiterInv
    OBVIOUS
  <2>2. HitsAreRestOfLog
    BY DEF KeyInv, HitsAreRestOfLog
  <2>3. LogInOrder
    BY DEF KeyInv, LogInOrder
  <2>4. HintOutlivesOldest
    BY DEF KeyInv, HintOutlivesOldest
  <2>5. AtMostLimitPerWindow
    BY DEF KeyInv, AtMostLimitPerWindow
  <2> QED BY <2>2, <2>3, <2>4, <2>5 DEF LimiterInv
<1> QED BY <1>1, <1>2

LEMMA NextInvPerKey ==
  ASSUME LimiterTypeOK', \A k \in Keys : KeyInv(k)'
  PROVE  LimiterInv'
<1>1. HitsAreRestOfLog'
  BY DEF KeyInv, HitsAreRestOfLog
<1>2. LogInOrder'
  BY DEF KeyInv, LogInOrder
<1>3. HintOutlivesOldest'
  BY DEF KeyInv, HintOutlivesOldest
<1>4. AtMostLimitPerWindow'
  BY DEF KeyInv, AtMostLimitPerWindow
<1> QED BY <1>1, <1>2, <1>3, <1>4 DEF LimiterInv

\* A key whose variables a step leaves alone keeps its share while time stands.
LEMMA KeyUntouched ==
  ASSUME NEW j \in Keys, KeyInv(j), UNCHANGED now,
         hits'[j] = hits[j], log'[j] = log[j],
         dropped'[j] = dropped[j], hint'[j] = hint[j]
  PROVE  KeyInv(j)'
BY DEF KeyInv

LEMMA AppendFacts ==
  ASSUME NEW s \in Seq(Int), NEW x \in Int
  PROVE  /\ Append(s, x) \in Seq(Int)
         /\ Len(Append(s, x)) = Len(s) + 1
         /\ Append(s, x)[Len(s) + 1] = x
         /\ \A i \in 1..Len(s) : Append(s, x)[i] = s[i]
         /\ Len(s) \in Nat
BY AppendProperties

LEMMA AcceptPreserves ==
  ASSUME LimiterInv, NEW k \in Keys, Accept(k)
  PROVE  LimiterInv'
<1>1. PICK n \in 0..Len(hits[k]) :
        /\ AgedOut(k, n)
        /\ Len(Recent(k, n)) < Limit[k]
        /\ hits' = [hits EXCEPT ![k] = Append(Recent(k, n), now)]
        /\ dropped' = [dropped EXCEPT ![k] = @ + n]
        /\ log' = [log EXCEPT ![k] = Append(@, now)]
        /\ hint' = [hint EXCEPT ![k] = NoHint]
        /\ UNCHANGED now
  BY DEF Accept
<1> DEFINE rest == Recent(k, n)
           gone == dropped[k] + n
<1>2. /\ rest \in Seq(Int) /\ gone \in Nat
      /\ \A i \in 1..Len(rest) : rest[i] = log[k][gone + i]
      /\ Len(log[k]) = gone + Len(rest)
      /\ \A i \in 1..gone : log[k][i] < now - Window(k)
  BY <1>1, LoopLeavesRest
<1>3. LimiterTypeOK /\ \A j \in Keys : KeyInv(j)
  BY InvIsPerKey
<1>4. now \in Int /\ Window(k) \in Nat /\ Limit[k] \in Nat \ {0}
  BY <1>3, TickAssumption, WindowType, LimitAssumption DEF LimiterTypeOK
<1>5. LimiterTypeOK'
  BY <1>1, <1>2, <1>3, <1>4 DEF LimiterTypeOK
<1>6. /\ hits'[k] = Append(rest, now)
      /\ dropped'[k] = gone
      /\ log'[k] = Append(log[k], now)
      /\ hint'[k] = NoHint
      /\ now' = now
  BY <1>1, <1>3 DEF LimiterTypeOK
<1>7. KeyInv(k)'
  <2> DEFINE h == Append(rest, now)
             l == Append(log[k], now)
             lim == Limit[k]
             old == log[k]
             win == Window(k)
  <2>1. /\ hits'[k] = h /\ log'[k] = l /\ hint'[k] = NoHint
        /\ dropped'[k] = gone /\ now' = now
    BY <1>6
  <2>2. /\ old \in Seq(Int) /\ Len(old) \in Nat
        /\ \A i \in 1..Len(old) : old[i] \in Int /\ old[i] <= now
        /\ \A i, j \in 1..Len(old) : i <= j => old[i] <= old[j]
        /\ \A i \in 1..(Len(old) - lim) : old[i + lim] - old[i] > win
    BY <1>3, ElementOfSeq DEF LimiterTypeOK, KeyInv
  <2>3. now \in Int /\ win \in Nat /\ lim \in Nat \ {0} /\ Len(rest) < lim
    BY <1>1, <1>4
  <2>4. /\ l \in Seq(Int) /\ Len(l) = Len(old) + 1 /\ l[Len(old) + 1] = now
        /\ \A i \in 1..Len(old) : l[i] = old[i]
    BY <2>2, <2>3, AppendFacts
  <2>5. /\ h \in Seq(Int) /\ Len(h) = Len(rest) + 1 /\ h[Len(rest) + 1] = now
        /\ \A i \in 1..Len(rest) : h[i] = rest[i]
        /\ Len(rest) \in Nat
    BY <1>2, <2>3, AppendFacts
  <2>6. /\ gone \in Nat
        /\ \A i \in 1..Len(rest) : rest[i] = old[gone + i]
        /\ Len(old) = gone + Len(rest)
        /\ \A i \in 1..gone : old[i] < now - win
    BY <1>2
  <2> HIDE DEF h, l, lim, old, win, rest, gone
  <2>7. \A i \in 1..Len(h) : h[i] = l[gone + i]
    <3> SUFFICES ASSUME NEW i \in 1..Len(h) PROVE h[i] = l[gone + i]
      OBVIOUS
    <3>1. CASE i = Len(rest) + 1
      BY <2>4, <2>5, <2>6, <3>1
    <3>2. CASE i \in 1..Len(rest)
      <4>1. gone + i \in 1..Len(old)
        BY <2>2, <2>5, <2>6, <3>2
      <4> QED BY <2>4, <2>5, <2>6, <3>2, <4>1
    <3> QED BY <2>5, <3>1, <3>2
  <2>8. \A i \in 1..gone : l[i] < now - win
    BY <2>2, <2>4, <2>5, <2>6
  <2>13. Len(old) \in Nat /\ Len(l) = Len(old) + 1 /\ now \in Int
        /\ win \in Nat /\ lim \in Nat \ {0}
    BY <2>2, <2>3, <2>4
  <2>14. ASSUME NEW i \in 1..Len(l)
        PROVE  \/ i = Len(l) /\ l[i] = now
               \/ i \in 1..Len(old) /\ l[i] = old[i] /\ old[i] \in Int /\ old[i] <= now
    <3>1. i = Len(l) \/ i \in 1..Len(old)
      BY <2>13
    <3>2. l[Len(l)] = now
      BY <2>4
    <3> QED BY <3>1, <3>2, <2>2, <2>4
  <2>9. \A i \in 1..Len(l) : l[i] <= now
    BY <2>13, <2>14
  <2>10. \A i, j \in 1..Len(l) : i <= j => l[i] <= l[j]
    <3> SUFFICES ASSUME NEW i \in 1..Len(l), NEW j \in 1..Len(l), i <= j
                 PROVE  l[i] <= l[j]
      OBVIOUS
    <3>1. CASE j \in 1..Len(old)
      <4>1. i \in 1..Len(old)
        BY <2>13, <3>1
      <4> QED BY <2>2, <2>4, <3>1, <4>1
    <3>2. CASE j = Len(l)
      BY <2>4, <2>9, <3>2
    <3> QED BY <2>13, <3>1, <3>2
  <2>11. \A i \in 1..(Len(l) - lim) : l[i + lim] - l[i] > win
    <3> SUFFICES ASSUME NEW i \in 1..(Len(l) - lim) PROVE l[i + lim] - l[i] > win
      OBVIOUS
    <3>1. CASE i + lim <= Len(old)
      <4>1. i \in 1..(Len(old) - lim) /\ i \in 1..Len(old) /\ i + lim \in 1..Len(old)
        BY <2>2, <2>3, <2>4, <3>1
      <4> QED BY <2>2, <2>4, <4>1
    <3>2. CASE i + lim = Len(old) + 1
      <4>1. i \in 1..gone /\ i \in 1..Len(old)
        <5>1. Len(rest) \in Nat /\ gone \in Nat /\ Len(old) = gone + Len(rest)
              /\ Len(rest) < lim
          BY <2>3, <2>5, <2>6
        <5> QED BY <2>13, <3>2, <5>1
      <4>2. l[i] < now - win /\ l[i] \in Int
        BY <2>2, <2>4, <2>8, <4>1
      <4>3. l[i + lim] = now
        BY <2>4, <3>2
      <4>4. now - l[i] > win
        BY <2>13, <4>2
      <4> QED BY <4>3, <4>4
    <3> QED BY <2>13, <3>1, <3>2
  <2>12. Len(l) = gone + Len(h) /\ Len(h) <= lim
    BY <2>2, <2>3, <2>4, <2>5, <2>6
  <2> QED
    BY <2>1, <2>4, <2>5, <2>6, <2>7, <2>8, <2>9, <2>10, <2>11, <2>12 DEF KeyInv, lim, win
<1>8. ASSUME NEW j \in Keys PROVE KeyInv(j)'
  <2>1. CASE j = k
    BY <1>7, <2>1
  <2>2. CASE j # k
    <3>1. /\ hits'[j] = hits[j] /\ log'[j] = log[j]
          /\ dropped'[j] = dropped[j] /\ hint'[j] = hint[j]
      BY <1>1, <1>3, <2>2 DEF LimiterTypeOK
    <3> QED BY <1>1, <1>3, <3>1, KeyUntouched
  <2> QED BY <2>1, <2>2
<1> QED BY <1>5, <1>8, NextInvPerKey

LEMMA RefusePreserves ==
  ASSUME LimiterInv, NEW k \in Keys, Refuse(k)
  PROVE  LimiterInv'
<1>1. PICK n \in 0..Len(hits[k]) :
        /\ AgedOut(k, n)
        /\ Len(Recent(k, n)) >= Limit[k]
        /\ hits' = [hits EXCEPT ![k] = Recent(k, n)]
        /\ dropped' = [dropped EXCEPT ![k] = @ + n]
        /\ hint' = [hint EXCEPT ![k] =
                      now + RetryAfter(hits[k][n + 1], k) * TicksPerSecond]
        /\ UNCHANGED <<now, log>>
  BY DEF Refuse
<1> DEFINE rest == Recent(k, n)
           gone == dropped[k] + n
           told == now + RetryAfter(rest[1], k) * TicksPerSecond
<1>2. /\ rest \in Seq(Int) /\ gone \in Nat
      /\ Len(rest) = Len(hits[k]) - n
      /\ \A i \in 1..Len(rest) : /\ rest[i] = hits[k][n + i]
                                 /\ rest[i] = log[k][gone + i]
      /\ Len(log[k]) = gone + Len(rest)
      /\ \A i \in 1..gone : log[k][i] < now - Window(k)
  BY <1>1, LoopLeavesRest
<1>3. LimiterTypeOK /\ \A j \in Keys : KeyInv(j)
  BY InvIsPerKey
<1>4. /\ now \in Int /\ Window(k) \in Nat /\ Limit[k] \in Nat \ {0}
      /\ TicksPerSecond \in Nat \ {0}
  BY <1>3, TickAssumption, WindowType, LimitAssumption DEF LimiterTypeOK
<1>5. 1 \in 1..Len(rest) /\ rest[1] = hits[k][n + 1]
  BY <1>1, <1>2, <1>4
<1>6. rest[1] \in Int /\ rest[1] + Window(k) - now \in Nat
  <2>1. rest[1] \in Int
    BY <1>2, <1>5, ElementOfSeq
  <2>2. n < Len(hits[k])
    BY <1>2, <1>3, <1>5 DEF LimiterTypeOK
  <2>3. rest[1] >= now - Window(k)
    BY <1>1, <1>5, <2>2 DEF AgedOut
  <2> QED BY <1>4, <2>1, <2>3
<1>7. told \in Int /\ told > rest[1] + Window(k)
  <2> DEFINE wait == rest[1] + Window(k) - now
             up   == (wait \div TicksPerSecond) + 1
  <2>1. wait \in Nat
    BY <1>6
  <2> HIDE DEF wait
  <2>2. up \in Nat /\ up >= 1 /\ up * TicksPerSecond \in Int
        /\ up * TicksPerSecond > wait
    BY <1>4, <2>1, RoundUp
  <2>3. RetryAfter(rest[1], k) = up
    <3>1. RetryAfter(rest[1], k) = IF up > 1 THEN up ELSE 1
      BY DEF RetryAfter, wait
    <3> HIDE DEF up
    <3> QED BY <2>2, <3>1
  <2> DEFINE span == up * TicksPerSecond
  <2>4. told = now + span /\ span \in Int /\ span > wait
    BY <2>2, <2>3
  <2> HIDE DEF span, told
  <2> QED BY <1>4, <1>6, <2>4 DEF wait
<1>8. /\ hits'[k] = rest /\ dropped'[k] = gone /\ log'[k] = log[k]
      /\ hint'[k] = told /\ now' = now
  BY <1>1, <1>3, <1>5 DEF LimiterTypeOK
<1>9. LimiterTypeOK'
  <2>1. hint' = [hint EXCEPT ![k] = told]
    BY <1>1, <1>5
  <2> HIDE DEF told
  <2> QED BY <1>1, <1>2, <1>3, <1>7, <2>1 DEF LimiterTypeOK
<1>10. KeyInv(k)'
  <2>1. KeyInv(k) /\ HintAssumption
    BY <1>3, HintAssumption
  <2>2. Len(rest) <= Limit[k]
    BY <1>2, <1>3, <1>4, <2>1 DEF LimiterTypeOK, KeyInv
  <2> HIDE DEF rest, gone, told
  <2> QED BY <1>2, <1>7, <1>8, <2>1, <2>2 DEF KeyInv
<1>11. ASSUME NEW j \in Keys PROVE KeyInv(j)'
  <2>1. CASE j = k
    BY <1>10, <2>1
  <2>2. CASE j # k
    <3>1. /\ hits'[j] = hits[j] /\ log'[j] = log[j]
          /\ dropped'[j] = dropped[j] /\ hint'[j] = hint[j]
      BY <1>1, <1>3, <2>2 DEF LimiterTypeOK
    <3> QED BY <1>1, <1>3, <3>1, KeyUntouched
  <2> QED BY <2>1, <2>2
<1> QED BY <1>9, <1>11, NextInvPerKey

LEMMA PrunePreserves ==
  ASSUME LimiterInv, Prune
  PROVE  LimiterInv'
<1>1. LimiterTypeOK /\ \A j \in Keys : KeyInv(j)
  BY InvIsPerKey
<1>2. LimiterTypeOK'
  <2>1. \A k \in Keys : Len(log[k]) \in Nat
    BY <1>1 DEF LimiterTypeOK
  <2> QED BY <1>1, <2>1 DEF LimiterTypeOK, Prune
<1>3. ASSUME NEW k \in Keys PROVE KeyInv(k)'
  <2>1. KeyInv(k) /\ UNCHANGED now
    BY <1>1 DEF Prune
  <2>2. CASE ~Stale(k)
    <3>1. /\ hits'[k] = hits[k] /\ log'[k] = log[k]
          /\ dropped'[k] = dropped[k] /\ hint'[k] = hint[k]
      BY <2>2 DEF Prune
    <3> QED BY <2>1, <3>1, KeyUntouched
  <2>3. CASE Stale(k)
    <3> DEFINE m == Len(log[k])
    <3>1. /\ hits'[k] = <<>> /\ log'[k] = log[k]
          /\ dropped'[k] = m /\ hint'[k] = hint[k] /\ now' = now
      BY <2>3 DEF Prune
    <3>2. /\ now \in Int /\ Window(k) \in Nat /\ PruneWindow \in Nat
          /\ Window(k) <= PruneWindow /\ Limit[k] \in Nat \ {0}
          /\ m \in Nat /\ dropped[k] \in Nat /\ Len(hits[k]) \in Nat
          /\ log[k] \in Seq(Int)
      BY <1>1, WindowType, LimitAssumption, TickAssumption DEF LimiterTypeOK
    <3>3. \A i \in 1..m : log[k][i] < now - Window(k)
      <4> SUFFICES ASSUME NEW i \in 1..m PROVE log[k][i] < now - Window(k)
        OBVIOUS
      <4>1. CASE hits[k] = <<>>
        <5>1. m = dropped[k]
          BY <2>1, <3>2, <4>1 DEF KeyInv
        <5> QED BY <2>1, <5>1 DEF KeyInv
      <4>2. CASE hits[k] # <<>>
        <5>1. Len(hits[k]) \in 1..Len(hits[k])
          BY <1>1, <4>2, EmptySeq DEF LimiterTypeOK
        <5>2. hits[k][Len(hits[k])] = log[k][m]
          BY <2>1, <5>1 DEF KeyInv
        <5>3. log[k][m] < now - PruneWindow
          BY <2>3, <4>2, <5>2 DEF Stale
        <5>4. log[k][i] <= log[k][m] /\ log[k][i] \in Int /\ log[k][m] \in Int
          BY <2>1, <3>2, ElementOfSeq DEF KeyInv
        <5> QED BY <3>2, <5>3, <5>4
      <4> QED BY <4>1, <4>2
    <3>4. <<>> \in Seq(Int) /\ Len(<<>>) = 0
      OBVIOUS
    <3>5. Len(log[k]) = m + 0
      BY <3>2
    <3> HIDE DEF m
    <3>6. Len(hits'[k]) = 0 /\ Len(log'[k]) = m /\ hits'[k] \in Seq(Int)
      BY <3>1, <3>2, <3>4, <3>5
    <3> QED BY <2>1, <3>1, <3>2, <3>3, <3>6 DEF KeyInv
  <2> QED BY <2>2, <2>3
<1> QED BY <1>2, <1>3, NextInvPerKey

LEMMA OtherStepsPreserve ==
  ASSUME LimiterInv, Restart \/ Tick \/ UNCHANGED limiterVars
  PROVE  LimiterInv'
<1>1. LimiterTypeOK /\ \A j \in Keys : KeyInv(j)
  BY InvIsPerKey
<1>2. CASE Restart
  <2>1. LimiterTypeOK'
    BY <1>1, <1>2 DEF LimiterTypeOK, Restart
  <2>2. \A k \in Keys : KeyInv(k)'
    BY <1>1, <1>2, LimitAssumption DEF KeyInv, Restart
  <2> QED BY <2>1, <2>2, NextInvPerKey
<1>3. CASE Tick
  <2>1. LimiterTypeOK'
    BY <1>1, <1>3, TickAssumption DEF LimiterTypeOK, Tick
  <2>2. ASSUME NEW k \in Keys PROVE KeyInv(k)'
    <3>1. /\ KeyInv(k) /\ now \in Int /\ now' = now + 1 /\ Window(k) \in Nat
          /\ log[k] \in Seq(Int)
          /\ UNCHANGED <<hits, log, dropped, hint>>
      BY <1>1, <1>3, TickAssumption, WindowType DEF Tick, LimiterTypeOK
    <3>2. \A i \in 1..Len(log[k]) : log[k][i] \in Int
      BY <3>1, ElementOfSeq
    <3>3. dropped[k] \in Nat /\ dropped[k] <= Len(log[k]) /\ Len(log[k]) \in Nat
      BY <1>1 DEF KeyInv, LimiterTypeOK
    <3>4. \A i \in 1..dropped[k] : log[k][i] < now + 1 - Window(k)
      <4> TAKE i \in 1..dropped[k]
      <4>1. log[k][i] < now - Window(k)
        BY <3>1 DEF KeyInv
      <4>2. i \in 1..Len(log[k])
        BY <3>3
      <4> QED BY <3>1, <3>2, <4>1, <4>2
    <3>5. \A i \in 1..Len(log[k]) : log[k][i] <= now + 1
      BY <3>1, <3>2, <3>3 DEF KeyInv
    <3>6. /\ hits'[k] = hits[k] /\ log'[k] = log[k]
          /\ dropped'[k] = dropped[k] /\ hint'[k] = hint[k]
      BY <1>3 DEF Tick
    <3>7. /\ hits'[k] \in Seq(Int) /\ log'[k] \in Seq(Int) /\ dropped'[k] \in Nat
          /\ hint'[k] \in Int \cup {NoHint}
          /\ Len(log'[k]) = dropped'[k] + Len(hits'[k])
      BY <3>1, <3>6 DEF KeyInv
    <3>8. \A i \in 1..Len(hits'[k]) : hits'[k][i] = log'[k][dropped'[k] + i]
      BY <3>1, <3>6, Zenon DEF KeyInv
    <3>9. /\ \A i \in 1..dropped'[k] : log'[k][i] < now' - Window(k)
          /\ \A i \in 1..Len(log'[k]) : log'[k][i] <= now'
      BY <3>1, <3>4, <3>5, <3>6
    <3>10. \A i, j \in 1..Len(log'[k]) : i <= j => log'[k][i] <= log'[k][j]
      BY <3>1, <3>6, Zenon DEF KeyInv
    <3>11. /\ Len(hits'[k]) <= Limit[k]
           /\ hint'[k] # NoHint =>
                \/ Len(hits'[k]) < Limit[k]
                \/ hits'[k][1] + Window(k) < hint'[k]
      BY <3>1, <3>6, Zenon DEF KeyInv
    <3>12. \A i \in 1..(Len(log'[k]) - Limit[k]) :
              log'[k][i + Limit[k]] - log'[k][i] > Window(k)
      BY <3>1, <3>6, Zenon DEF KeyInv
    <3> QED BY <3>7, <3>8, <3>9, <3>10, <3>11, <3>12, Zenon DEF KeyInv, Window
  <2> QED BY <2>1, <2>2, NextInvPerKey
<1>4. CASE UNCHANGED limiterVars
  <2>1. LimiterTypeOK'
    BY <1>1, <1>4 DEF LimiterTypeOK, limiterVars
  <2>2. \A k \in Keys : KeyInv(k)'
    BY <1>1, <1>4 DEF KeyInv, limiterVars
  <2> QED BY <2>1, <2>2, NextInvPerKey
<1> QED BY <1>2, <1>3, <1>4

\* The invariant holds in every reachable state.
THEOREM LimiterInvariant == LimiterSpec => []LimiterInv
<1>1. LimiterInv /\ [LimiterNext]_limiterVars => LimiterInv'
  BY AcceptPreserves, RefusePreserves, PrunePreserves, OtherStepsPreserve DEF LimiterNext
<1> QED BY LimiterStarts, <1>1, PTL DEF LimiterSpec

\* Type correctness of the limiter's state.
THEOREM LimiterTypeCorrect == LimiterSpec => []LimiterTypeOK
<1>1. LimiterInv => LimiterTypeOK
  BY DEF LimiterInv
<1> QED BY LimiterInvariant, <1>1, PTL

\* RateLimitRule's promise, for every rule, key set and pruning age: Limit + 1
\* hits accepted by one process always span more than the window.
THEOREM LimiterBoundsEveryWindow == LimiterSpec => []AtMostLimitPerWindow
<1>1. LimiterInv => AtMostLimitPerWindow
  BY DEF LimiterInv
<1> QED BY LimiterInvariant, <1>1, PTL

\* The retryAfterSeconds of a refusal is long enough, for every rule and every
\* clock resolution.
THEOREM LimiterHintSuffices == LimiterSpec => []HintSuffices
<1>1. LimiterInv => HintSuffices
  <2> SUFFICES ASSUME LimiterInv, NEW k \in Keys,
                      hint[k] # NoHint, now >= hint[k],
                      NEW n \in 0..Len(hits[k]), AgedOut(k, n)
               PROVE  Len(Recent(k, n)) < Limit[k]
    BY DEF HintSuffices
  <2>1. LimiterTypeOK /\ KeyInv(k)
    BY InvIsPerKey
  <2>2. /\ now \in Int /\ Window(k) \in Nat /\ Limit[k] \in Nat \ {0}
        /\ hits[k] \in Seq(Int) /\ Len(hits[k]) \in Nat
        /\ hint[k] \in Int
    BY <2>1, WindowType, LimitAssumption, TickAssumption DEF LimiterTypeOK
  <2>3. Len(Recent(k, n)) = Len(hits[k]) - n
    BY LoopLeavesRest
  <2>4. CASE Len(hits[k]) < Limit[k]
    BY <2>2, <2>3, <2>4
  <2>5. CASE hits[k][1] + Window(k) < hint[k] /\ Len(hits[k]) = Limit[k]
    <3>1. hits[k][1] \in Int
      BY <2>2, <2>5, ElementOfSeq
    <3>2. hits[k][1] < now - Window(k)
      BY <2>2, <2>5, <3>1
    <3>3. n # 0
      BY <2>2, <2>5, <3>1, <3>2 DEF AgedOut
    <3> QED BY <2>2, <2>3, <2>5, <3>3
  <2> QED BY <2>1, <2>2, <2>4, <2>5 DEF KeyInv
<1> QED BY LimiterInvariant, <1>1, PTL

-----------------------------------------------------------------------------
(* The links.  Every step of theirs is a step of the limiter or leaves it   *)
(* alone, so what is proved of the limiter holds behind the endpoints too.  *)

LEMMA LinkStepLimits == LinkNext => [LimiterNext]_limiterVars
<1> SUFFICES ASSUME LinkNext PROVE LimiterNext \/ UNCHANGED limiterVars
  BY DEF limiterVars
<1>1. CASE (Tick \/ Prune) /\ UNCHANGED linkVars
  BY <1>1 DEF LimiterNext
<1>2. CASE \E k \in Keys \ Purposes : (Accept(k) \/ Refuse(k)) /\ UNCHANGED linkVars
  BY <1>2 DEF LimiterNext
<1>3. CASE \E p \in Purposes : TurnAway(p) \/ \E r \in Asks : Ask(r, p)
  BY <1>3, PurposeAssumption DEF LimiterNext, TurnAway, Ask
<1>4. CASE \E r \in Asks : Retire(r) \/ CommitLink(r) \/ Fail(r) \/ Deliver(r) \/ LoseMail(r)
  BY <1>4 DEF Retire, CommitLink, Fail, Deliver, LoseMail
<1>5. CASE \E c \in Clicks : Use(c) \/ Abandon(c) \/ \E l \in mailbox : Open(c, l)
  BY <1>5 DEF Use, Abandon, Open
<1>6. CASE Deactivate
  BY <1>6 DEF Deactivate
<1>7. CASE RestartAll
  BY <1>7 DEF RestartAll, LimiterNext
<1> QED BY <1>1, <1>2, <1>3, <1>4, <1>5, <1>6, <1>7 DEF LinkNext

\* The endpoints use the limiter as RateLimiter describes it, so the windows are
\* bounded and the hints suffice for whoever asks for links and signs in.
THEOREM LinksUseTheLimiter == LinkSpec => LimiterSpec
<1>1. LinkInit => LimiterInit
  BY DEF LinkInit
<1>2. [LinkNext]_<<limiterVars, linkVars>> => [LimiterNext]_limiterVars
  BY LinkStepLimits
<1> QED BY <1>1, <1>2, PTL DEF LinkSpec, LimiterSpec

-----------------------------------------------------------------------------
(* Types of the links *)

AskRecord == [at : {"idle", "asked", "retired", "committed", "over"},
              purpose : Purposes, held : SUBSET (1..Len(links)),
              link : 0..Len(links), alone : BOOLEAN]

LinkRecord == [purpose : Purposes, state : {"live", "retired", "opened"}]

LEMMA LinkStart == LinkInit => LinkInv
<1> SUFFICES ASSUME LinkInit PROVE LinkInv
  OBVIOUS
<1>1. /\ links = <<>> /\ settled = {} /\ missed = {} /\ mailbox = {}
      /\ account = [verified |-> FALSE, active |-> TRUE]
      /\ clicks = [c \in Clicks |-> 0] /\ latest = [p \in Purposes |-> 0]
  BY DEF LinkInit
<1>2. /\ DOMAIN links = {} /\ Len(links) = 0 /\ 0 \in 0..Len(links)
      /\ links \in Seq(LinkRecord)
  BY <1>1
<1>3. PICK coming \in SUBSET Asks :
        asks = [r \in Asks |-> [NotAsked EXCEPT !.at =
                  IF r \notin coming THEN "over"
                  ELSE IF r = Registration THEN "asked" ELSE "idle"]]
  BY DEF LinkInit
<1>4. \A r \in Asks : asks[r] \in AskRecord /\ asks[r].at \in {"idle", "asked", "over"}
  BY <1>2, <1>3 DEF NotAsked, AskRecord, Purposes
<1>5. asks \in [Asks -> AskRecord]
  BY <1>3, <1>4
<1>6. LinkTypeOK
  BY <1>1, <1>2, <1>5 DEF LinkTypeOK, LinkRecord, AskRecord
<1>7. HoldsTheOutstanding /\ MailsTheNewest
  BY <1>4 DEF HoldsTheOutstanding, MailsTheNewest
<1>8. AloneIsAlone
  BY <1>4 DEF AloneIsAlone, Working
<1>9. SettledIsMailed /\ LastMailWorks
  BY <1>1 DEF SettledIsMailed, LastMailWorks
<1>10. NewestLinkOnly
  BY <1>1, <1>2 DEF NewestLinkOnly, Outstanding
<1> QED BY <1>6, <1>7, <1>8, <1>9, <1>10 DEF LinkInv

-----------------------------------------------------------------------------
(* Steps that leave the links and their requests alone *)

LEMMA CalmStepPreserves ==
  ASSUME LinkInv, UNCHANGED <<links, asks, mailbox, latest, missed, settled>>,
         account' \in [verified : BOOLEAN, active : BOOLEAN],
         clicks' \in [Clicks -> 0..Len(links)]
  PROVE  LinkInv'
<1>1. LinkTypeOK'
  BY DEF LinkInv, LinkTypeOK
<1>2. HoldsTheOutstanding' /\ NewestLinkOnly'
  BY DEF LinkInv, HoldsTheOutstanding, NewestLinkOnly, Outstanding
<1>3. MailsTheNewest' /\ SettledIsMailed' /\ LastMailWorks'
  BY DEF LinkInv, MailsTheNewest, Newest, SettledIsMailed, LastMailWorks
<1>4. AloneIsAlone'
  BY DEF LinkInv, AloneIsAlone, Working
<1> QED BY <1>1, <1>2, <1>3, <1>4 DEF LinkInv

\* Steps of requests that are not at work afterwards, the others staying as
\* they are: accepted, ignored, failed, undelivered, or gone with the process.
LEMMA RestingStepPreserves ==
  ASSUME LinkInv, UNCHANGED <<links, account, mailbox, latest, missed, settled>>,
         asks' \in [Asks -> AskRecord], clicks' \in [Clicks -> 0..Len(links)],
         \A q \in Asks : \/ asks'[q] = asks[q]
                         \/ asks'[q].at \notin {"retired", "committed"}
  PROVE  LinkInv'
<1>1. LinkTypeOK'
  BY DEF LinkInv, LinkTypeOK, AskRecord
<1>2. HoldsTheOutstanding'
  <2> SUFFICES ASSUME NEW r \in Asks, asks'[r].at = "retired"
               PROVE  /\ \A l \in asks'[r].held : links'[l].purpose = asks'[r].purpose
                      /\ Outstanding(asks[r].purpose)' \subseteq asks'[r].held \cup missed'
                      /\ asks'[r].purpose = asks[r].purpose
    BY DEF HoldsTheOutstanding, Outstanding
  <2>1. asks'[r] = asks[r]
    OBVIOUS
  <2> QED BY <2>1 DEF LinkInv, HoldsTheOutstanding, Outstanding
<1>3. MailsTheNewest'
  <2> SUFFICES ASSUME NEW r \in Asks, asks'[r].at = "committed"
               PROVE  /\ asks'[r].link # 0
                      /\ links'[asks'[r].link].purpose = asks'[r].purpose
                      /\ asks'[r].alone =>
                           /\ links'[asks'[r].link].state # "retired"
                           /\ \A k \in DOMAIN links' :
                                links'[k].purpose = asks'[r].purpose => k <= asks'[r].link
    BY DEF MailsTheNewest, Newest
  <2>1. asks'[r] = asks[r]
    OBVIOUS
  <2> QED BY <2>1 DEF LinkInv, MailsTheNewest, Newest
<1>4. AloneIsAlone'
  BY DEF LinkInv, AloneIsAlone, Working
<1>5. NewestLinkOnly' /\ LastMailWorks'
  BY DEF LinkInv, NewestLinkOnly, Outstanding, LastMailWorks
<1>6. SettledIsMailed'
  BY DEF LinkInv, SettledIsMailed
<1> QED BY <1>1, <1>2, <1>3, <1>4, <1>5, <1>6 DEF LinkInv

-----------------------------------------------------------------------------
(* The steps that do something about a link *)

LEMMA AskTyped ==
  ASSUME LinkInv, NEW r \in Asks
  PROVE  /\ asks \in [Asks -> AskRecord] /\ asks[r] \in AskRecord
         /\ asks[r].purpose \in Purposes /\ asks[r].held \subseteq 1..Len(links)
         /\ links \in Seq(LinkRecord) /\ DOMAIN links = 1..Len(links) /\ Len(links) \in Nat
         /\ \A l \in DOMAIN links : links[l] \in LinkRecord
<1>1. asks \in [Asks -> AskRecord] /\ links \in Seq(LinkRecord)
  BY DEF LinkInv, LinkTypeOK, AskRecord, LinkRecord
<1>2. asks[r] \in AskRecord
  BY <1>1
<1>3. DOMAIN links = 1..Len(links) /\ Len(links) \in Nat
  BY <1>1
<1>4. \A l \in DOMAIN links : links[l] \in LinkRecord
  BY <1>1
<1> QED BY <1>1, <1>2, <1>3, <1>4 DEF AskRecord

LEMMA RetirePreserves ==
  ASSUME LinkInv, NEW r \in Asks, Retire(r)
  PROVE  LinkInv'
<1> DEFINE p == asks[r].purpose
           lonely == \A other \in Asks : ~Working(other, p)
<1>1. /\ asks[r].at = "asked" /\ UNCHANGED <<links, account, clicks, mailbox, latest, missed, settled>>
      /\ asks' = [q \in Asks |->
           IF q = r THEN [asks[r] EXCEPT !.at = "retired", !.held = Outstanding(p),
                            !.alone = lonely]
           ELSE IF Working(q, p) THEN [asks[q] EXCEPT !.alone = FALSE]
           ELSE asks[q]]
  BY DEF Retire, ToRetire
<1>2. /\ asks \in [Asks -> AskRecord] /\ p \in Purposes
      /\ DOMAIN links = 1..Len(links) /\ Outstanding(p) \subseteq 1..Len(links)
  BY AskTyped DEF Outstanding
<1>3. PICK b \in BOOLEAN : b = lonely
  OBVIOUS
<1>4. asks'[r] = [asks[r] EXCEPT !.at = "retired", !.held = Outstanding(p), !.alone = b]
  BY <1>1, <1>3
<1>5. /\ asks'[r] \in AskRecord /\ asks'[r].at = "retired" /\ asks'[r].held = Outstanding(p)
      /\ asks'[r].purpose = p /\ asks'[r].alone = b
  <2>1. asks[r] \in AskRecord
    BY AskTyped
  <2> DEFINE H == Outstanding(p)
             P == asks[r].purpose
  <2>2. H \in SUBSET (1..Len(links)) /\ asks'[r] = [asks[r] EXCEPT !.at = "retired", !.held = H, !.alone = b]
    BY <1>2, <1>4
  <2> HIDE DEF H
  <2>3. /\ asks'[r] \in AskRecord /\ asks'[r].at = "retired" /\ asks'[r].held = H
        /\ asks'[r].purpose = asks[r].purpose /\ asks'[r].alone = b
    BY <1>3, <2>1, <2>2 DEF AskRecord
  <2> QED BY <2>3 DEF H
<1>6. ASSUME NEW q \in Asks \ {r}
      PROVE  /\ asks'[q] \in AskRecord
             /\ asks'[q].at = asks[q].at /\ asks'[q].purpose = asks[q].purpose
             /\ asks'[q].held = asks[q].held /\ asks'[q].link = asks[q].link
             /\ asks'[q].alone => asks[q].alone /\ ~Working(q, p)
  <2>1. asks[q] \in AskRecord
    BY <1>2
  <2>2. CASE Working(q, p)
    <3>1. asks'[q] = [asks[q] EXCEPT !.alone = FALSE]
      BY <1>1, <1>6, <2>2
    <3> QED BY <2>1, <3>1 DEF AskRecord
  <2>3. CASE ~Working(q, p)
    <3>1. asks'[q] = asks[q]
      BY <1>1, <1>6, <2>3
    <3> QED BY <2>1, <2>3, <3>1
  <2> QED BY <2>2, <2>3
<1>7. LinkTypeOK'
  <2>1. asks' \in [Asks -> AskRecord]
    BY <1>1, <1>5, <1>6
  <2> QED BY <1>1, <2>1 DEF LinkInv, LinkTypeOK, AskRecord
<1>8. HoldsTheOutstanding'
  <2> SUFFICES ASSUME NEW q \in Asks, asks'[q].at = "retired"
               PROVE  /\ \A l \in asks'[q].held : links[l].purpose = asks'[q].purpose
                      /\ \A l \in DOMAIN links :
                           links[l].purpose = asks'[q].purpose /\ links[l].state = "live"
                             => l \in asks'[q].held \cup missed
    BY <1>1 DEF HoldsTheOutstanding, Outstanding
  <2>1. CASE q = r
    BY <1>5, <2>1 DEF Outstanding
  <2>2. CASE q # r
    <3>1. /\ asks[q].at = "retired" /\ asks'[q].purpose = asks[q].purpose
          /\ asks'[q].held = asks[q].held
      BY <1>6, <2>2
    <3> QED BY <3>1 DEF LinkInv, HoldsTheOutstanding, Outstanding
  <2> QED BY <2>1, <2>2
<1>9. MailsTheNewest'
  <2> SUFFICES ASSUME NEW q \in Asks, asks'[q].at = "committed"
               PROVE  /\ asks'[q].link # 0
                      /\ links[asks'[q].link].purpose = asks'[q].purpose
                      /\ asks'[q].alone => /\ links[asks'[q].link].state # "retired"
                                          /\ Newest(asks'[q].link, asks'[q].purpose)
    BY <1>1 DEF MailsTheNewest, Newest
  <2>1. q # r
    BY <1>5
  <2> QED BY <1>6, <2>1 DEF LinkInv, MailsTheNewest
<1>10. AloneIsAlone'
  <2> SUFFICES ASSUME NEW q1 \in Asks, NEW q2 \in Asks, q1 # q2, asks'[q1].alone,
                      asks'[q1].at \in {"retired", "committed"},
                      asks'[q2].at \in {"retired", "committed"},
                      asks'[q2].purpose = asks'[q1].purpose
               PROVE  FALSE
    BY DEF AloneIsAlone, Working
  <2>1. CASE q1 = r
    BY <1>3, <1>5, <1>6, <2>1 DEF Working
  <2>2. CASE q2 = r
    BY <1>5, <1>6, <2>2 DEF Working
  <2>3. CASE q1 # r /\ q2 # r
    BY <1>6, <2>3 DEF LinkInv, AloneIsAlone, Working
  <2> QED BY <2>1, <2>2, <2>3
<1>11. NewestLinkOnly' /\ LastMailWorks'
  BY <1>1 DEF LinkInv, NewestLinkOnly, Outstanding, LastMailWorks
<1>12. SettledIsMailed'
  <2>1. \A q \in Asks : asks'[q].at = "committed" =>
          asks[q].at = "committed" /\ asks'[q].purpose = asks[q].purpose
    BY <1>5, <1>6
  <2>2. \A k \in settled : \A q \in Asks : asks[q].purpose = k => asks[q].at # "committed"
    BY DEF LinkInv, SettledIsMailed
  <2>3. \A k \in settled' : \A q \in Asks : asks'[q].purpose = k => asks'[q].at # "committed"
    BY <1>1, <2>1, <2>2
  <2> QED BY <1>1, <2>3 DEF LinkInv, SettledIsMailed
<1> QED BY <1>7, <1>8, <1>9, <1>10, <1>11, <1>12 DEF LinkInv

LEMMA DeliverPreserves ==
  ASSUME LinkInv, NEW r \in Asks, Deliver(r)
  PROVE  LinkInv'
<1> DEFINE p == asks[r].purpose
           l == asks[r].link
<1>1. /\ asks[r].at = "committed" /\ UNCHANGED <<links, account, clicks, missed>>
      /\ asks' = [asks EXCEPT ![r].at = "over"]
      /\ mailbox' = mailbox \cup {l} /\ latest' = [latest EXCEPT ![p] = l]
      /\ settled' = IF asks[r].alone THEN settled \cup {p} ELSE settled
  BY DEF Deliver
<1>2. /\ asks \in [Asks -> AskRecord] /\ p \in Purposes /\ l \in 0..Len(links)
      /\ DOMAIN links = 1..Len(links) /\ latest \in [Purposes -> 0..Len(links)]
      /\ settled \subseteq Purposes
  BY AskTyped DEF AskRecord, LinkInv, LinkTypeOK
<1>3. /\ l # 0 /\ links[l].purpose = p
      /\ asks[r].alone => links[l].state # "retired" /\ Newest(l, p)
  BY <1>1 DEF LinkInv, MailsTheNewest
<1>4. /\ asks' \in [Asks -> AskRecord]
      /\ asks'[r].at = "over" /\ \A q \in Asks \ {r} : asks'[q] = asks[q]
  BY <1>1, <1>2 DEF AskRecord
<1>5. LinkTypeOK'
  <2>1. /\ latest' \in [Purposes -> 0..Len(links)] /\ settled' \subseteq Purposes
        /\ mailbox' \subseteq 1..Len(links)
    BY <1>1, <1>2, <1>3 DEF LinkInv, LinkTypeOK
  <2> QED BY <1>1, <1>4, <2>1 DEF LinkInv, LinkTypeOK, AskRecord
<1>6. HoldsTheOutstanding' /\ MailsTheNewest' /\ AloneIsAlone'
  <2>1. HoldsTheOutstanding'
    BY <1>1, <1>4 DEF LinkInv, HoldsTheOutstanding, Outstanding
  <2>2. MailsTheNewest'
    BY <1>1, <1>4 DEF LinkInv, MailsTheNewest, Newest
  <2>3. AloneIsAlone'
    BY <1>4 DEF LinkInv, AloneIsAlone, Working
  <2> QED BY <2>1, <2>2, <2>3
<1>7. NewestLinkOnly'
  BY <1>1 DEF LinkInv, NewestLinkOnly, Outstanding
<1>8. ASSUME NEW k \in settled'
      PROVE  /\ latest'[k] # 0 /\ links[latest'[k]].purpose = k
             /\ links[latest'[k]].state # "retired"
             /\ Newest(latest'[k], k)
             /\ \A q \in Asks : asks'[q].purpose = k => asks'[q].at # "committed"
  <2>1. CASE k # p
    <3>1. k \in settled /\ latest'[k] = latest[k]
      BY <1>1, <1>2, <1>8, <2>1
    <3> QED BY <1>4, <3>1 DEF LinkInv, SettledIsMailed, LastMailWorks, Newest
  <2>2. CASE k = p /\ asks[r].alone
    <3>1. latest'[k] = l
      BY <1>1, <1>2, <2>2
    <3>2. \A q \in Asks \ {r} : asks[q].purpose = p => asks[q].at # "committed"
      BY <1>1, <2>2 DEF LinkInv, AloneIsAlone, Working
    <3>3. \A q \in Asks : asks'[q].purpose = p => asks'[q].at # "committed"
      BY <1>4, <3>2
    <3> QED BY <1>3, <2>2, <3>1, <3>3
  <2>3. CASE k = p /\ ~asks[r].alone
    BY <1>1, <1>8, <2>3 DEF LinkInv, SettledIsMailed
  <2> QED BY <2>1, <2>2, <2>3
<1>9. SettledIsMailed' /\ LastMailWorks'
  BY <1>1, <1>8 DEF SettledIsMailed, LastMailWorks, Newest
<1> QED BY <1>5, <1>6, <1>7, <1>9 DEF LinkInv

LEMMA CommitPreserves ==
  ASSUME LinkInv, NEW r \in Asks, CommitLink(r)
  PROVE  LinkInv'
<1> DEFINE p == asks[r].purpose
           new == Len(links) + 1
           H == asks[r].held
           unseen == \E q \in Asks \ {r} : asks[q].at = "retired" /\ asks[q].purpose = p
<1>1. /\ asks[r].at = "retired" /\ UNCHANGED <<account, clicks, mailbox, latest>>
      /\ links' = Append(Retired(H), [purpose |-> p, state |-> "live"])
      /\ asks' = [asks EXCEPT ![r].at = "committed", ![r].held = {}, ![r].link = new]
      /\ missed' = IF unseen THEN missed \cup {new} ELSE missed
      /\ settled' = settled \ {p}
  BY DEF CommitLink
<1>2. /\ asks \in [Asks -> AskRecord] /\ p \in Purposes /\ H \subseteq 1..Len(links)
      /\ links \in Seq(LinkRecord) /\ DOMAIN links = 1..Len(links) /\ Len(links) \in Nat
      /\ \A l \in DOMAIN links : links[l] \in LinkRecord
  BY AskTyped
\* What becomes of the rows: the held ones are retired, and one is added.
<1>3. /\ links' \in Seq(LinkRecord) /\ Len(links') = new /\ DOMAIN links' = 1..new
      /\ links'[new] = [purpose |-> p, state |-> "live"]
      /\ \A l \in DOMAIN links :
           /\ links'[l].purpose = links[l].purpose
           /\ links'[l].state = IF l \in H /\ links[l].state = "live" THEN "retired"
                                                                     ELSE links[l].state
  <2> DEFINE R == Retired(H)
             row == [purpose |-> p, state |-> "live"]
  <2>1. \A l \in DOMAIN links :
          /\ R[l] \in LinkRecord /\ R[l].purpose = links[l].purpose
          /\ R[l].state = IF l \in H /\ links[l].state = "live" THEN "retired" ELSE links[l].state
    <3> SUFFICES ASSUME NEW l \in DOMAIN links
                 PROVE  /\ R[l] \in LinkRecord /\ R[l].purpose = links[l].purpose
                        /\ R[l].state = IF l \in H /\ links[l].state = "live"
                                        THEN "retired" ELSE links[l].state
      OBVIOUS
    <3>1. links[l] \in LinkRecord
      BY <1>2
    <3> QED BY <3>1 DEF Retired, LinkRecord
  <2>2. DOMAIN R = 1..Len(links)
    BY <1>2 DEF Retired
  <2>3. R \in Seq(LinkRecord) /\ Len(R) = Len(links)
    <3>1. R \in [1..Len(links) -> LinkRecord]
      BY <1>2, <2>1, <2>2 DEF Retired
    <3>2. R \in Seq(LinkRecord)
      BY <1>2, <3>1, SeqDef
    <3> QED BY <1>2, <2>2, <3>2, LenProperties
  <2>4. row \in LinkRecord
    BY <1>2 DEF LinkRecord
  <2> HIDE DEF R, row, H
  <2>5. /\ links' \in Seq(LinkRecord) /\ Len(links') = Len(links) + 1
        /\ links'[Len(links) + 1] = row
        /\ \A l \in 1..Len(links) : links'[l] = R[l]
    BY <1>1, <2>3, <2>4, AppendProperties DEF R, row
  <2>6. DOMAIN links' = 1..(Len(links) + 1)
    BY <1>2, <2>5, LenProperties
  <2> QED BY <1>2, <2>1, <2>5, <2>6 DEF row
<1> HIDE DEF H
<1>4. /\ asks'[r].at = "committed" /\ asks'[r].purpose = p /\ asks'[r].link = new
      /\ asks'[r].alone = asks[r].alone /\ asks'[r].held = {}
      /\ \A q \in Asks \ {r} : asks'[q] = asks[q]
      /\ DOMAIN asks' = Asks /\ asks' = [asks EXCEPT ![r] = asks'[r]]
  BY <1>1, <1>2 DEF AskRecord
<1>5. \A l \in DOMAIN links' : l \in DOMAIN links \/ l = new
  BY <1>2, <1>3
<1>6. LinkTypeOK'
  <2>1. \A q \in Asks : asks'[q] \in AskRecord'
    <3> SUFFICES ASSUME NEW q \in Asks PROVE asks'[q] \in AskRecord'
      OBVIOUS
    <3>1. asks[q] \in AskRecord /\ asks[r] \in AskRecord
      BY <1>2
    <3>2. CASE q = r
      <4>1. asks'[r] = [asks[r] EXCEPT !.at = "committed", !.held = {}, !.link = new]
        BY <1>1, <1>2
      <4>2. new \in 0..Len(links') /\ {} \in SUBSET (1..Len(links'))
        BY <1>2, <1>3
      <4> HIDE DEF new
      <4> QED BY <3>1, <3>2, <4>1, <4>2 DEF AskRecord
    <3>3. CASE q # r
      BY <1>2, <1>3, <1>4, <3>1, <3>3 DEF AskRecord
    <3> QED BY <3>2, <3>3
  <2>2. asks' \in [Asks -> AskRecord']
    BY <1>1, <1>2, <2>1
  <2>3. /\ clicks' \in [Clicks -> 0..new] /\ mailbox' \subseteq 1..new
        /\ latest' \in [Purposes -> 0..new]
    BY <1>1, <1>2 DEF LinkInv, LinkTypeOK
  <2>4. missed' \subseteq 1..new /\ settled' \subseteq Purposes
    BY <1>1, <1>2 DEF LinkInv, LinkTypeOK
  <2> QED BY <1>1, <1>3, <2>2, <2>3, <2>4 DEF LinkInv, LinkTypeOK, AskRecord, LinkRecord
\* What is outstanding afterwards: the new link, and what nobody held.
<1>7. /\ missed \subseteq missed'
      /\ \A k \in Purposes : \A l \in Outstanding(k)' :
           \/ l = new /\ k = p
           \/ l \in Outstanding(k) /\ (k = p => l \notin H)
  BY <1>1, <1>2, <1>3, <1>5 DEF Outstanding, LinkRecord
<1>8. HoldsTheOutstanding'
  <2> SUFFICES ASSUME NEW q \in Asks, asks'[q].at = "retired"
               PROVE  /\ \A l \in asks'[q].held : links'[l].purpose = asks'[q].purpose
                      /\ \A l \in DOMAIN links' :
                           links'[l].purpose = asks'[q].purpose /\ links'[l].state = "live"
                             => l \in asks'[q].held \cup missed'
    BY DEF HoldsTheOutstanding, Outstanding
  <2>1. q # r /\ asks'[q] = asks[q] /\ asks[q] \in AskRecord
    BY <1>2, <1>4
  <2>2. asks[q].held \subseteq DOMAIN links /\ asks[q].purpose \in Purposes
    BY <1>2, <2>1 DEF AskRecord
  <2>3. PICK k \in Purposes : k = asks[q].purpose
    BY <2>2
  <2>4. /\ \A l \in asks[q].held : links[l].purpose = k
        /\ \A l \in Outstanding(k) : l \in asks[q].held \cup missed
    BY <2>1, <2>3 DEF LinkInv, HoldsTheOutstanding
  <2>5. k = p => new \in missed'
    BY <1>1, <2>1, <2>3
  <2>6. \A l \in Outstanding(k)' : l \in asks[q].held \cup missed'
    BY <1>7, <2>4, <2>5
  <2> QED BY <1>3, <2>1, <2>2, <2>3, <2>4, <2>6 DEF Outstanding
<1>9. NewestLinkOnly'
  <2> SUFFICES ASSUME NEW k \in Purposes, NEW l \in Outstanding(k)', l \notin missed',
                      NEW m \in DOMAIN links', links'[m].purpose = k
               PROVE  m <= l
    BY DEF NewestLinkOnly
  <2>1. CASE l = new
    BY <1>2, <1>3, <2>1
  <2>2. CASE l # new /\ k = p
    <3>1. l \in Outstanding(p) /\ l \notin H /\ l \notin missed
      BY <1>7, <2>2
    <3>2. Outstanding(p) \subseteq H \cup missed
      BY <1>1 DEF H, LinkInv, HoldsTheOutstanding
    <3> QED BY <3>1, <3>2
  <2>3. CASE l # new /\ k # p
    <3>1. l \in Outstanding(k) /\ l \notin missed
      BY <1>7, <2>3
    <3>2. m \in DOMAIN links /\ links[m].purpose = k
      BY <1>3, <1>5, <2>3
    <3> QED BY <3>1, <3>2 DEF LinkInv, NewestLinkOnly
  <2> QED BY <2>1, <2>2, <2>3
<1>10. MailsTheNewest'
  <2> SUFFICES ASSUME NEW q \in Asks, asks'[q].at = "committed"
               PROVE  /\ asks'[q].link # 0
                      /\ links'[asks'[q].link].purpose = asks'[q].purpose
                      /\ asks'[q].alone =>
                           /\ links'[asks'[q].link].state # "retired"
                           /\ \A m \in DOMAIN links' :
                                links'[m].purpose = asks'[q].purpose => m <= asks'[q].link
    BY DEF MailsTheNewest, Newest
  <2>1. CASE q = r
    BY <1>2, <1>3, <1>4, <2>1
  <2>2. CASE q # r
    <3> DEFINE l == asks[q].link
               k == asks[q].purpose
    <3>1. asks'[q] = asks[q] /\ asks[q].at = "committed" /\ asks[q] \in AskRecord
      BY <1>2, <1>4, <2>2
    <3>2. /\ l # 0 /\ links[l].purpose = k
          /\ asks[q].alone => links[l].state # "retired" /\ Newest(l, k)
      BY <3>1 DEF LinkInv, MailsTheNewest
    <3>3. l \in DOMAIN links /\ links'[l].purpose = k
      BY <1>2, <1>3, <3>1, <3>2 DEF AskRecord
    <3>4. ASSUME asks[q].alone
          PROVE  /\ links'[l].state # "retired"
                 /\ \A m \in DOMAIN links' : links'[m].purpose = k => m <= l
      \* A request that is alone has no other of its kind commit beside it.
      <4>1. k # p
        BY <1>1, <2>2, <3>1, <3>4 DEF LinkInv, AloneIsAlone, Working
      <4>2. l \notin H
        BY <1>1, <3>2, <4>1 DEF H, LinkInv, HoldsTheOutstanding
      <4> QED BY <1>3, <1>5, <3>2, <3>3, <3>4, <4>1, <4>2 DEF Newest
    <3> QED BY <3>1, <3>2, <3>3, <3>4
  <2> QED BY <2>1, <2>2
<1>11. AloneIsAlone'
  <2>1. \A q \in Asks : /\ asks'[q].purpose = asks[q].purpose
                        /\ asks'[q].alone = asks[q].alone
                        /\ asks'[q].at \in {"retired", "committed"}
                             => asks[q].at \in {"retired", "committed"}
    BY <1>1, <1>4
  <2> QED BY <2>1 DEF LinkInv, AloneIsAlone, Working
<1>12. ASSUME NEW k \in settled'
       PROVE  /\ latest'[k] # 0 /\ links'[latest'[k]].purpose = k
              /\ \A q \in Asks : asks'[q].purpose = k => asks'[q].at # "committed"
              /\ links'[latest'[k]].state # "retired"
              /\ \A m \in DOMAIN links' : links'[m].purpose = k => m <= latest'[k]
  <2>1. k \in settled /\ k # p /\ k \in Purposes /\ latest'[k] = latest[k]
    BY <1>1, <1>12 DEF LinkInv, LinkTypeOK
  <2>2. /\ latest[k] # 0 /\ links[latest[k]].purpose = k /\ links[latest[k]].state # "retired"
        /\ \A m \in DOMAIN links : links[m].purpose = k => m <= latest[k]
        /\ \A q \in Asks : asks[q].purpose = k => asks[q].at # "committed"
    BY <2>1 DEF LinkInv, SettledIsMailed, LastMailWorks
  <2>3. latest[k] \in DOMAIN links
    BY <1>2, <2>1, <2>2 DEF LinkInv, LinkTypeOK
  <2>4. latest[k] \notin H
    BY <1>1, <2>1, <2>2 DEF H, LinkInv, HoldsTheOutstanding
  <2>5. \A q \in Asks : asks'[q].purpose = k => asks'[q].at # "committed"
    BY <1>4, <2>1, <2>2
  <2> QED BY <1>3, <1>5, <2>1, <2>2, <2>3, <2>4, <2>5
<1>13. SettledIsMailed' /\ LastMailWorks'
  BY <1>12 DEF SettledIsMailed, LastMailWorks
<1> QED BY <1>6, <1>8, <1>9, <1>10, <1>11, <1>13 DEF LinkInv

LEMMA UsePreserves ==
  ASSUME LinkInv, NEW c \in Clicks, Use(c)
  PROVE  LinkInv'
<1> DEFINE u == clicks[c]
<1>1. /\ u # 0 /\ UNCHANGED <<asks, mailbox, latest, missed, settled>>
      /\ clicks' = [clicks EXCEPT ![c] = 0]
      /\ links' = [links EXCEPT ![u].state = "opened"]
      /\ account' = [account EXCEPT !.verified = TRUE]
  BY DEF Use
<1>2. /\ links \in Seq(LinkRecord) /\ DOMAIN links = 1..Len(links) /\ Len(links) \in Nat
      /\ clicks \in [Clicks -> 0..Len(links)]
  BY DEF LinkInv, LinkTypeOK, LinkRecord
<1>3. u \in DOMAIN links /\ links[u] \in LinkRecord
  BY <1>1, <1>2
<1>4. links'[u] \in LinkRecord /\ links'[u].purpose = links[u].purpose /\ links'[u].state = "opened"
  BY <1>1, <1>3 DEF LinkRecord
<1>5. DOMAIN links' = DOMAIN links /\ \A l \in DOMAIN links : l # u => links'[l] = links[l]
  BY <1>1
<1>6. links' \in Seq(LinkRecord) /\ Len(links') = Len(links)
  BY <1>1, <1>2, <1>3, <1>4
<1>7. \A l \in DOMAIN links : /\ links'[l].purpose = links[l].purpose
                              /\ links'[l].state \in {links[l].state, "opened"}
  BY <1>4, <1>5
<1>8. LinkTypeOK'
  <2>1. account' \in [verified : BOOLEAN, active : BOOLEAN]
    BY <1>1 DEF LinkInv, LinkTypeOK
  <2>2. clicks' \in [Clicks -> 0..Len(links)]
    <3>1. 0 \in 0..Len(links)
      BY <1>2
    <3> HIDE DEF u
    <3> QED BY <1>1, <1>2, <3>1
  <2> QED BY <1>1, <1>6, <2>1, <2>2 DEF LinkInv, LinkTypeOK, LinkRecord
<1>9. \A k \in Purposes : Outstanding(k)' \subseteq Outstanding(k)
  BY <1>5, <1>7 DEF Outstanding
<1>10. \A q \in Asks : /\ asks[q].held \subseteq DOMAIN links /\ asks[q].purpose \in Purposes
                       /\ asks[q].link \in 0..Len(links)
  BY <1>2, AskTyped DEF AskRecord
<1>11. HoldsTheOutstanding'
  <2> SUFFICES ASSUME NEW q \in Asks, asks[q].at = "retired"
               PROVE  /\ \A l \in asks[q].held : links'[l].purpose = asks[q].purpose
                      /\ \A l \in DOMAIN links' :
                           links'[l].purpose = asks[q].purpose /\ links'[l].state = "live"
                             => l \in asks[q].held \cup missed
    BY <1>1 DEF HoldsTheOutstanding, Outstanding
  <2>1. /\ \A l \in asks[q].held : links[l].purpose = asks[q].purpose
        /\ \A l \in DOMAIN links : links[l].purpose = asks[q].purpose /\ links[l].state = "live"
             => l \in asks[q].held \cup missed
    BY DEF LinkInv, HoldsTheOutstanding, Outstanding
  <2> QED BY <1>5, <1>7, <1>10, <2>1
<1>12. MailsTheNewest'
  <2> SUFFICES ASSUME NEW q \in Asks, asks[q].at = "committed"
               PROVE  /\ asks[q].link # 0
                      /\ links'[asks[q].link].purpose = asks[q].purpose
                      /\ asks[q].alone =>
                           /\ links'[asks[q].link].state # "retired"
                           /\ \A m \in DOMAIN links' :
                                links'[m].purpose = asks[q].purpose => m <= asks[q].link
    BY <1>1 DEF MailsTheNewest, Newest
  <2>1. /\ asks[q].link # 0 /\ links[asks[q].link].purpose = asks[q].purpose
        /\ asks[q].alone =>
             /\ links[asks[q].link].state # "retired"
             /\ \A m \in DOMAIN links : links[m].purpose = asks[q].purpose => m <= asks[q].link
    BY DEF LinkInv, MailsTheNewest, Newest
  <2>2. asks[q].link \in DOMAIN links
    BY <1>2, <1>10, <2>1
  <2> QED BY <1>5, <1>7, <2>1, <2>2
<1>13. AloneIsAlone'
  BY <1>1 DEF LinkInv, AloneIsAlone, Working
<1>14. NewestLinkOnly'
  BY <1>1, <1>5, <1>7, <1>9 DEF LinkInv, NewestLinkOnly
<1>15. SettledIsMailed' /\ LastMailWorks'
  <2>1. \A p \in settled : latest[p] \in DOMAIN links
    BY <1>2 DEF LinkInv, LinkTypeOK, SettledIsMailed
  <2>2. SettledIsMailed'
    BY <1>1, <1>7, <2>1 DEF LinkInv, SettledIsMailed
  <2>3. LastMailWorks'
    BY <1>1, <1>5, <1>7, <2>1 DEF LinkInv, LastMailWorks
  <2> QED BY <2>2, <2>3
<1> QED BY <1>8, <1>11, <1>12, <1>13, <1>14, <1>15 DEF LinkInv

-----------------------------------------------------------------------------
(* All steps *)

LEMMA LinkStepPreserves == LinkInv /\ LinkNext => LinkInv'
<1> SUFFICES ASSUME LinkInv, LinkNext PROVE LinkInv'
  OBVIOUS
<1>1. /\ account \in [verified : BOOLEAN, active : BOOLEAN]
      /\ clicks \in [Clicks -> 0..Len(links)] /\ asks \in [Asks -> AskRecord]
      /\ mailbox \subseteq 1..Len(links) /\ Len(links) \in Nat
  BY DEF LinkInv, LinkTypeOK, AskRecord
<1>2. CASE UNCHANGED linkVars
  BY <1>1, <1>2, CalmStepPreserves DEF linkVars
<1>3. ASSUME NEW p \in Purposes, NEW r \in Asks, Ask(r, p) PROVE LinkInv'
  <2>1. /\ asks' = [asks EXCEPT ![r].purpose = p, ![r].at = IF Ignored(p) THEN "over" ELSE "asked"]
        /\ UNCHANGED <<links, account, clicks, mailbox, latest, missed, settled>>
    BY <1>3 DEF Ask
  <2>2. PICK a \in {"over", "asked"} : a = IF Ignored(p) THEN "over" ELSE "asked"
    OBVIOUS
  <2>3. asks' = [asks EXCEPT ![r].purpose = p, ![r].at = a]
    BY <2>1, <2>2
  <2>4. /\ asks' \in [Asks -> AskRecord]
        /\ \A q \in Asks : \/ asks'[q] = asks[q]
                           \/ asks'[q].at \notin {"retired", "committed"}
    <3> DEFINE n == [asks[r] EXCEPT !.purpose = p, !.at = a]
    <3>1. n \in AskRecord /\ n.at = a
      BY <1>1 DEF AskRecord
    <3>2. asks' = [asks EXCEPT ![r] = n]
      BY <1>1, <2>3
    <3> HIDE DEF n
    <3> QED BY <1>1, <3>1, <3>2
  <2> QED BY <1>1, <2>1, <2>4, RestingStepPreserves
<1>4. ASSUME NEW r \in Asks, LoseMail(r) \/ Fail(r) PROVE LinkInv'
  <2>1. /\ UNCHANGED <<links, account, clicks, mailbox, latest, missed, settled>>
        /\ \/ asks' = [asks EXCEPT ![r].at = "over"]
           \/ asks' = [asks EXCEPT ![r].at = "over", ![r].held = {}]
    BY <1>4 DEF LoseMail, Fail, GivenUp
  <2>2. /\ asks' \in [Asks -> AskRecord]
        /\ \A q \in Asks : \/ asks'[q] = asks[q]
                           \/ asks'[q].at \notin {"retired", "committed"}
    <3>1. ASSUME NEW q \in Asks
          PROVE  /\ asks'[q] \in AskRecord
                 /\ \/ asks'[q] = asks[q]
                    \/ asks'[q].at \notin {"retired", "committed"}
      <4>1. asks[q] \in AskRecord
        BY <1>1
      <4>2. asks'[q] \in {asks[q], [asks[q] EXCEPT !.at = "over"],
                          [asks[q] EXCEPT !.at = "over", !.held = {}]}
        BY <1>1, <2>1
      <4> QED BY <4>1, <4>2 DEF AskRecord
    <3>2. DOMAIN asks' = Asks /\ asks' = [q \in Asks |-> asks'[q]]
      BY <1>1, <2>1
    <3> QED BY <3>1, <3>2
  <2> QED BY <1>1, <2>1, <2>2, RestingStepPreserves
<1>5. CASE RestartAll
  <2>1. /\ UNCHANGED <<links, account, mailbox, latest, missed, settled>>
        /\ clicks' = [c \in Clicks |-> 0]
        /\ asks' = [r \in Asks |-> IF asks[r].at = "idle" THEN asks[r]
                                   ELSE [asks[r] EXCEPT !.at = "over", !.held = {}]]
    BY <1>5 DEF RestartAll
  <2>2. /\ asks' \in [Asks -> AskRecord]
        /\ \A q \in Asks : \/ asks'[q] = asks[q]
                           \/ asks'[q].at \notin {"retired", "committed"}
    <3>1. ASSUME NEW q \in Asks
          PROVE  /\ asks'[q] \in AskRecord
                 /\ \/ asks'[q] = asks[q]
                    \/ asks'[q].at \notin {"retired", "committed"}
      <4>1. asks[q] \in AskRecord
        BY <1>1
      <4>2. asks'[q] \in {asks[q], [asks[q] EXCEPT !.at = "over", !.held = {}]}
        BY <2>1
      <4> QED BY <4>1, <4>2 DEF AskRecord
    <3> QED BY <2>1, <3>1
  <2>3. clicks' \in [Clicks -> 0..Len(links)]
    <3>1. 0 \in 0..Len(links)
      BY <1>1
    <3> QED BY <2>1, <3>1
  <2> QED BY <2>1, <2>2, <2>3, RestingStepPreserves
<1>6. ASSUME NEW c \in Clicks, Abandon(c) \/ \E l \in mailbox : Open(c, l) PROVE LinkInv'
  <2>1. /\ UNCHANGED <<links, account, asks, mailbox, latest, missed, settled>>
        /\ \E l \in {0} \cup mailbox : clicks' = [clicks EXCEPT ![c] = l]
    BY <1>6 DEF Abandon, Open
  <2>2. {0} \cup mailbox \subseteq 0..Len(links)
    BY <1>1
  <2>3. clicks' \in [Clicks -> 0..Len(links)]
    BY <1>1, <2>1, <2>2
  <2> QED BY <1>1, <2>1, <2>3, CalmStepPreserves
<1>7. CASE Deactivate
  <2>1. account' \in [verified : BOOLEAN, active : BOOLEAN]
    BY <1>1, <1>7 DEF Deactivate
  <2> QED BY <1>1, <1>7, <2>1, CalmStepPreserves DEF Deactivate
<1>8. ASSUME NEW p \in Purposes, TurnAway(p) PROVE LinkInv'
  BY <1>2, <1>8 DEF TurnAway
<1> QED BY <1>2, <1>3, <1>4, <1>5, <1>6, <1>7, <1>8, RetirePreserves, CommitPreserves,
           DeliverPreserves, UsePreserves DEF LinkNext

LEMMA LinkInvariant == LinkSpec => []LinkInv
<1>1. LinkInv /\ [LinkNext]_<<limiterVars, linkVars>> => LinkInv'
  <2> SUFFICES ASSUME LinkInv, [LinkNext]_<<limiterVars, linkVars>> PROVE LinkInv'
    OBVIOUS
  <2>1. CASE LinkNext
    BY <2>1, LinkStepPreserves
  <2>2. CASE UNCHANGED <<limiterVars, linkVars>>
    <3>1. /\ account \in [verified : BOOLEAN, active : BOOLEAN]
          /\ clicks \in [Clicks -> 0..Len(links)]
      BY DEF LinkInv, LinkTypeOK
    <3> QED BY <2>2, <3>1, CalmStepPreserves DEF linkVars
  <2> QED BY <2>1, <2>2
<1> QED BY LinkStart, <1>1, PTL DEF LinkSpec

\* Rows, requests and mails keep their types, with any number of requests and
\* submissions.
THEOREM LinkTypeCorrect == LinkSpec => []LinkTypeOK
<1>1. LinkInv => LinkTypeOK
  BY DEF LinkInv
<1> QED BY LinkInvariant, <1>1, PTL

\* However many requests overlap, fail or die with the process: an outstanding
\* link that is not the newest of its kind was committed while another request
\* had already looked (invalidate_outstanding).
THEOREM OnlyTheNewest == LinkSpec => []NewestLinkOnly
<1>1. LinkInv => NewestLinkOnly
  BY DEF LinkInv
<1> QED BY LinkInvariant, <1>1, PTL

\* Whatever else is asked for, opened or lost, the last mail of a kind works
\* when its request overlapped no other.
THEOREM TopMailWorks == LinkSpec => []LastMailWorks
<1>1. LinkInv => LastMailWorks
  BY DEF LinkInv
<1> QED BY LinkInvariant, <1>1, PTL
=============================================================================
