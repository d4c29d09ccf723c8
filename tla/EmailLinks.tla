----------------------------- MODULE EmailLinks -----------------------------
(***************************************************************************)
(* The links an account is mailed, to verify its address and to reset its  *)
(* password: services/verification_service.py over                         *)
(* repositories/verification.py, the endpoints in front of it              *)
(* (api/v1/endpoints/auth.py) behind the rate limiter, and the mail        *)
(* service behind it, whose failures never reach the request.              *)
(*                                                                         *)
(* One account.  A request for a link retires the outstanding links of its *)
(* kind and inserts a new one in one transaction (READ COMMITTED: the      *)
(* UPDATE retires what was committed when it began), commits, and mails.   *)
(* A link that has expired is one that nobody opens any more, so expiry    *)
(* needs no step.  The limiter's keys include the two kinds.               *)
(***************************************************************************)
EXTENDS RateLimiter

CONSTANTS
  Asks,          \* requests for a link
  Registration,  \* the one that register() makes, which no rule limits
  Clicks         \* submissions of a link that can be in flight

Purposes == {"verify", "reset"}

ASSUME AsksAssumption    == Registration \in Asks
ASSUME PurposeAssumption == Purposes \subseteq Keys

VARIABLES
  links,     \* verification_tokens, in the order their rows were committed
  account,   \* User: is_email_verified, is_active
  asks,      \* where each request for a link has got to
  clicks,    \* the link a submission has found usable, 0 for none
  mailbox,   \* the links that were delivered ...
  latest,    \* ... and the last of each kind, 0 for none
  missed,    \* history: links committed while another request had already
             \* looked for the outstanding ones
  settled    \* history: kinds whose last request overlapped no other, and
             \* was mailed

linkVars == <<links, account, asks, clicks, mailbox, latest, missed, settled>>

\* at: idle, asked (accepted by the limiter), retired (the outstanding links
\* are held), committed (not mailed yet), over.
NotAsked == [at |-> "idle", purpose |-> "verify", held |-> {}, link |-> 0, alone |-> FALSE]

LinkTypeOK ==
  /\ links \in Seq([purpose : Purposes, state : {"live", "retired", "opened"}])
  /\ account \in [verified : BOOLEAN, active : BOOLEAN]
  /\ asks \in [Asks -> [at : {"idle", "asked", "retired", "committed", "over"},
                        purpose : Purposes, held : SUBSET (1..Len(links)),
                        link : 0..Len(links), alone : BOOLEAN]]
  /\ clicks \in [Clicks -> 0..Len(links)]
  /\ mailbox \subseteq 1..Len(links)
  /\ latest \in [Purposes -> 0..Len(links)]
  /\ missed \subseteq 1..Len(links)
  /\ settled \subseteq Purposes

\* The account is registered now or was before; the requests in coming are made.
LinkInit ==
  /\ LimiterInit
  /\ links = <<>>
  /\ account = [verified |-> FALSE, active |-> TRUE]
  /\ \E coming \in SUBSET Asks :
       asks = [r \in Asks |-> [NotAsked EXCEPT !.at =
                 IF r \notin coming THEN "over"
                 ELSE IF r = Registration THEN "asked" ELSE "idle"]]
  /\ clicks = [c \in Clicks |-> 0]
  /\ mailbox = {} /\ latest = [p \in Purposes |-> 0]
  /\ missed = {} /\ settled = {}

Outstanding(p) == {l \in DOMAIN links : links[l].purpose = p /\ links[l].state = "live"}
Working(r, p)  == asks[r].at \in {"retired", "committed"} /\ asks[r].purpose = p

-----------------------------------------------------------------------------
(* Asking for a link *)

\* send_verification_email does nothing for a verified address, and
\* request_password_reset nothing, and says so to nobody, for an address
\* without an active account.
Ignored(p) == IF p = "verify" THEN account.verified ELSE ~account.active

\* resend_verification, for the signed-in learner, and forgot_password.
Ask(r, p) ==
  /\ asks[r].at = "idle"
  /\ p = "verify" => account.active
  /\ Accept(p)
  /\ asks' = [asks EXCEPT ![r].purpose = p,
                          ![r].at = IF Ignored(p) THEN "over" ELSE "asked"]
  /\ UNCHANGED <<links, account, clicks, mailbox, latest, missed, settled>>

\* Either endpoint answers 429.
TurnAway(p) == Refuse(p) /\ UNCHANGED linkVars

\* _issue: invalidate_outstanding, in the transaction of the new link.
OutstandingOfAnother(p) == Outstanding("verify")     \* mutant: a fixed purpose

ToRetire(p) == Outstanding(p)

Retire(r) ==
  LET p == asks[r].purpose
  IN  /\ asks[r].at = "asked"
      /\ asks' = [q \in Asks |->
           IF q = r THEN [asks[r] EXCEPT !.at = "retired", !.held = ToRetire(p),
                            !.alone = \A other \in Asks : ~Working(other, p)]
           ELSE IF Working(q, p) THEN [asks[q] EXCEPT !.alone = FALSE]
           ELSE asks[q]]
      /\ UNCHANGED <<limiterVars, links, account, clicks, mailbox, latest, missed, settled>>

Retired(H) ==
  [l \in DOMAIN links |->
     IF l \in H /\ links[l].state = "live" THEN [links[l] EXCEPT !.state = "retired"]
                                           ELSE links[l]]

CommitLink(r) ==
  LET p   == asks[r].purpose
      new == Len(links) + 1
      unseen == \E q \in Asks \ {r} : asks[q].at = "retired" /\ asks[q].purpose = p
  IN  /\ asks[r].at = "retired"
      /\ links' = Append(Retired(asks[r].held), [purpose |-> p, state |-> "live"])
      /\ asks' = [asks EXCEPT ![r].at = "committed", ![r].held = {}, ![r].link = new]
      /\ missed' = IF unseen THEN missed \cup {new} ELSE missed
      /\ settled' = settled \ {p}
      /\ UNCHANGED <<limiterVars, account, clicks, mailbox, latest>>

\* EmailService._dispatch: the mail gets there, or the failure is logged.
Deliver(r) ==
  /\ asks[r].at = "committed"
  /\ asks' = [asks EXCEPT ![r].at = "over"]
  /\ mailbox' = mailbox \cup {asks[r].link}
  /\ latest' = [latest EXCEPT ![asks[r].purpose] = asks[r].link]
  /\ settled' = IF asks[r].alone THEN settled \cup {asks[r].purpose} ELSE settled
  /\ UNCHANGED <<limiterVars, links, account, clicks, missed>>

LoseMail(r) ==
  /\ asks[r].at = "committed"
  /\ asks' = [asks EXCEPT ![r].at = "over"]
  /\ UNCHANGED <<limiterVars, links, account, clicks, mailbox, latest, missed, settled>>

\* An error before the commit rolls the transaction back.
GivenUp(r) == [asks EXCEPT ![r].at = "over", ![r].held = {}]

FailKeepsRetired(r) ==     \* mutant: the old links were retired for good
  /\ asks[r].at \in {"asked", "retired"}
  /\ asks' = GivenUp(r)
  /\ links' = Retired(asks[r].held)
  /\ UNCHANGED <<limiterVars, account, clicks, mailbox, latest, missed, settled>>

Fail(r) ==
  /\ asks[r].at \in {"asked", "retired"}
  /\ asks' = GivenUp(r)
  /\ UNCHANGED <<limiterVars, links, account, clicks, mailbox, latest, missed, settled>>

-----------------------------------------------------------------------------
(* Opening a link *)

\* _consume finds the token unused; a used one, or one of the other kind, is
\* answered with InvalidToken and changes nothing.
Open(c, l) ==
  /\ clicks[c] = 0
  /\ l \in mailbox /\ links[l].state = "live"
  /\ clicks' = [clicks EXCEPT ![c] = l]
  /\ UNCHANGED <<limiterVars, links, account, asks, mailbox, latest, missed, settled>>

\* verify_email and reset_password commit.  The row waits for a request that
\* is retiring it; whoever was found usable stays so, retired meanwhile or not.
\* (What a reset does to the sessions of the account is in Sessions.)
Use(c) ==
  LET l == clicks[c]
  IN  /\ l # 0
      /\ \A r \in Asks : asks[r].at = "retired" => l \notin asks[r].held
      /\ clicks' = [clicks EXCEPT ![c] = 0]
      /\ links' = [links EXCEPT ![l].state = "opened"]
      /\ account' = [account EXCEPT !.verified = TRUE]
      /\ UNCHANGED <<limiterVars, asks, mailbox, latest, missed, settled>>

Abandon(c) ==
  /\ clicks[c] # 0
  /\ clicks' = [clicks EXCEPT ![c] = 0]
  /\ UNCHANGED <<limiterVars, links, account, asks, mailbox, latest, missed, settled>>

-----------------------------------------------------------------------------
\* UserService.deactivate.
Deactivate ==
  /\ account.active
  /\ account' = [account EXCEPT !.active = FALSE]
  /\ UNCHANGED <<limiterVars, links, asks, clicks, mailbox, latest, missed, settled>>

\* A new process: the limiter has forgotten everything, and no request that was
\* in flight goes on.  What was committed and not mailed never is.
RestartAll ==
  /\ Restart
  /\ asks' = [r \in Asks |-> IF asks[r].at = "idle" THEN asks[r]
                             ELSE [asks[r] EXCEPT !.at = "over", !.held = {}]]
  /\ clicks' = [c \in Clicks |-> 0]
  /\ UNCHANGED <<links, account, mailbox, latest, missed, settled>>

LinkNext ==
  \/ (Tick \/ Prune) /\ UNCHANGED linkVars
  \/ \E k \in Keys \ Purposes : (Accept(k) \/ Refuse(k)) /\ UNCHANGED linkVars
  \/ \E p \in Purposes : TurnAway(p) \/ \E r \in Asks : Ask(r, p)
  \/ \E r \in Asks : \/ Retire(r) \/ CommitLink(r) \/ Fail(r)
                     \/ Deliver(r) \/ LoseMail(r)
  \/ \E c \in Clicks : Use(c) \/ Abandon(c) \/ \E l \in mailbox : Open(c, l)
  \/ Deactivate
  \/ RestartAll

LinkSpec == LinkInit /\ [][LinkNext]_<<limiterVars, linkVars>>

-----------------------------------------------------------------------------
\* "Issuing a new link must retire the previous one, otherwise every reset email
\* ever sent stays usable until it expires" (invalidate_outstanding): of each
\* kind only the newest link is outstanding, but for those that were committed
\* while another request had already looked for what to retire.
NewestLinkOnly ==
  \A p \in Purposes :
    \A l \in Outstanding(p) \ missed, k \in DOMAIN links :
      links[k].purpose = p => k <= l

\* The mail on top of the mailbox works: once a request that overlapped no other
\* of its kind was mailed, its link was not retired and is the newest of its
\* kind, until another one is committed.  Failed, refused and superfluous
\* requests, lost mails of the other kind and restarts do not break it.
LastMailWorks ==
  \A p \in settled :
    /\ latest[p] # 0
    /\ links[latest[p]].state # "retired"
    /\ \A k \in DOMAIN links : links[k].purpose = p => k <= latest[p]

-----------------------------------------------------------------------------
(* The inductive invariant *)

Newest(l, p) == \A k \in DOMAIN links : links[k].purpose = p => k <= l

\* What a request is retiring is of its kind, and is all there is to retire but
\* for what was committed since it looked.
HoldsTheOutstanding ==
  \A r \in Asks : asks[r].at = "retired" =>
    /\ \A l \in asks[r].held : links[l].purpose = asks[r].purpose
    /\ Outstanding(asks[r].purpose) \subseteq asks[r].held \cup missed

\* A request that is alone has committed the newest link of its kind.
MailsTheNewest ==
  \A r \in Asks : asks[r].at = "committed" =>
    /\ asks[r].link # 0
    /\ links[asks[r].link].purpose = asks[r].purpose
    /\ asks[r].alone => /\ links[asks[r].link].state # "retired"
                        /\ Newest(asks[r].link, asks[r].purpose)

AloneIsAlone ==
  \A r, q \in Asks :
    r # q /\ Working(r, asks[r].purpose) /\ Working(q, asks[r].purpose) => ~asks[r].alone

\* No request of a settled kind has a mail to send.
SettledIsMailed ==
  \A p \in settled :
    /\ latest[p] # 0 /\ links[latest[p]].purpose = p
    /\ \A r \in Asks : asks[r].purpose = p => asks[r].at # "committed"

LinkInv ==
  /\ LinkTypeOK
  /\ HoldsTheOutstanding
  /\ MailsTheNewest
  /\ AloneIsAlone
  /\ SettledIsMailed
  /\ NewestLinkOnly
  /\ LastMailWorks
=============================================================================
