------------------------------ MODULE MCStreams ------------------------------
(***************************************************************************)
(* Instances of Streams for TLC.  Agent a may reach web and offers ssh;    *)
(* agent b has nothing but claims to be a.                                 *)
(***************************************************************************)
EXTENDS Streams, TLC

CONSTANTS a, b, web, ssh, f1, f2, r1, r2, p1, q1, x1

Info(ag, cl, sv, d, rq) ==
    [agent |-> ag, claim |-> cl, service |-> sv, dir |-> d, request |-> rq]

TwoAgents == {a, b}
TwoServices == {web, ssh}
OnlyA(svc) == [x \in Agents |-> IF x = a THEN {svc} ELSE {}]
WebForA == OnlyA(web)
SshForA == OnlyA(ssh)

(* Two reverse clients for one place, a reverse probe, a false claim. *)
PolicySessions == {r1, r2, q1, x1}
PolicyInfo == (r1 :> Info(a, a, ssh, "reverse", "open"))
           @@ (r2 :> Info(a, a, ssh, "reverse", "open"))
           @@ (q1 :> Info(a, b, ssh, "reverse", "probe"))
           @@ (x1 :> Info(b, a, web, "forward", "open"))

(* Two forward clients compete for one place, and with a probe for a dial. *)
OneAgent == {a}
LimitSessions == {f1, f2, p1}
LimitInfo == (f1 :> Info(a, a, web, "forward", "open"))
          @@ (f2 :> Info(a, a, web, "forward", "open"))
          @@ (p1 :> Info(a, a, web, "forward", "probe"))
==============================================================================
