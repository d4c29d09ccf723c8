----------------------------- MODULE MCDelivery -----------------------------
(***************************************************************************)
(* Two things that are to be delivered: frames in a simulated network, and *)
(* the links an account is mailed.  They do not touch each other and are   *)
(* tried one at a time.                                                    *)
(*                                                                         *)
(* Frames: two hosts a and b behind the switches s and t, joined by two    *)
(* cables (a loop), and a third host whose cable is unplugged.             *)
(*                                                                         *)
(* Links: both kinds under the rule email_rule() gives them, sign-ins      *)
(* under the other rule, half-second ticks; registration's own request and *)
(* two more.  Links do not look at the limiter's clock: either they are    *)
(* asked for and the clock stands still, or nobody asks and it runs.       *)
(***************************************************************************)
EXTENDS FrameWalk, EmailLinks, TLC

CONSTANTS
  a, b, c, s, t,                        \* devices
  a1, b1, c1, s1, s2, s3, t1, t2, t3    \* ports
CONSTANTS v1, v20                       \* VLANs
CONSTANTS r0, r1, r2                    \* requests for a link

MCInterfaces ==
  a :> <<a1>> @@ b :> <<b1>> @@ c :> <<c1>> @@
  s :> <<s1, s2, s3>> @@ t :> <<t1, t2, t3>>

MCDeviceOf ==
  [p \in Ports |-> CHOOSE d \in Devices :
     \E i \in 1..Len(MCInterfaces[d]) : MCInterfaces[d][i] = p]

Cable(p, q) == p :> q @@ q :> p
MCPeer ==
  Cable(a1, s1) @@ Cable(b1, t1) @@ Cable(s2, t2) @@ Cable(s3, t3) @@ c1 :> NoPort

Setting(mode, access, allowed) ==
  [enabled |-> TRUE, mode |-> mode, access |-> access, allowed |-> allowed]

Plain  == Setting("none", v1, {})
Off    == [Plain EXCEPT !.enabled = FALSE]
In(v)  == Setting("access", v, {})
Trunk  == Setting("trunk", v1, {})
Trunk20 == Setting("trunk", v1, {v20})

\* A port that faces a host is an access port, a trunk or unconfigured; the
\* cables between the switches are configured in all ways that differ.
Combined(h1, h2, x2, y2, x3, y3) ==
  a1 :> Plain @@ b1 :> Plain @@ c1 :> Plain @@ s1 :> h1 @@ t1 :> h2 @@
  s2 :> x2 @@ t2 :> y2 @@ s3 :> x3 @@ t3 :> y3

MCConfigurations ==
  {Combined(h1, h2, x2, y2, x3, y3) :
     h1 \in {In(v1), In(v20), Plain, Trunk}, h2 \in {In(v1), In(v20), Plain},
     x2 \in {In(v1), Trunk, Plain, Off}, y2 \in {In(v1), In(v20), Trunk, Plain},
     x3 \in {In(v20), Trunk, Trunk20}, y3 \in {In(v20), Trunk, Plain}}

MCAsks     == {r0, r1, r2}
RuleLimit  == ("verify" :> 2) @@ ("reset" :> 2) @@ ("login" :> 2)
RuleWindow == ("verify" :> 2) @@ ("reset" :> 2) @@ ("login" :> 2)
Symmetric  == Permutations({r1, r2})

AnyConfiguration == CHOOSE any \in Configurations : TRUE

VARIABLE
  trial          \* what is tried in this behaviour

DeliveryInit ==
  /\ trial \in {"frames", "limiter", "links"}
  /\ WalkInit /\ (trial # "frames" => port = AnyConfiguration)
  /\ LinkInit
  /\ IF trial = "links" THEN now = Horizon
     ELSE now = 0 /\ \A r \in Asks : asks[r].at = "over"

Walk ==
  /\ trial = "frames" /\ WalkNext
  /\ UNCHANGED <<limiterVars, linkVars, trial>>

Mail ==
  /\ trial # "frames" /\ LinkNext
  /\ UNCHANGED <<vars, hop, trial>>

DeliveryNext == Walk \/ Mail

DeliverySpec ==
  DeliveryInit /\ [][DeliveryNext]_<<vars, hop, limiterVars, linkVars, trial>>
=============================================================================
