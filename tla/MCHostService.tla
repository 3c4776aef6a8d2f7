--------------------------- MODULE MCHostService ---------------------------
(* Instances of HostService for TLC: two workers, and three clients that   *)
(* between the loads send each kind of line and of request, to hosts that  *)
(* are open to all, ask for a token, and do not start.                     *)
EXTENDS HostService, TLC

CONSTANTS w1, w2, c1, c2, c3, n1, n2

Sent(line, request, ns) ==
  [line |-> line, v |-> "none", token |-> "none", request |-> request, ns |-> ns]
Load(s1, s2, s3) == c1 :> s1 @@ c2 :> s2 @@ c3 :> s3
Local(sent) == [routable |-> FALSE, limited |-> TRUE, bearer |-> "none", sends |-> sent]

Secret(ns) == [Sent("whole", "good", ns) EXCEPT !.token = "secret", !.v = "1"]

MCLoads ==
  {Local(Load(Sent("whole", "good", n1), Sent("slow", "good", n1), Sent("whole", "refused", n2))),
   Local(Load(Sent("whole", "scrape", Nobody), Sent("gone", "good", n1), Sent("whole", "malformed", n1))),
   Local(Load(Sent("long", "good", n1), Sent("whole", "good", Nobody),
              [Sent("whole", "good", n1) EXCEPT !.v = "2"])),
   [routable |-> TRUE, limited |-> TRUE, bearer |-> "secret",
    sends |-> Load(Secret(n1), Sent("whole", "good", n1), [Secret(n2) EXCEPT !.token = "other"])],
   [routable |-> TRUE, limited |-> TRUE, bearer |-> "none",
    sends |-> Load(Secret(n1), Secret(n1), Secret(n2))],
   [routable |-> FALSE, limited |-> FALSE, bearer |-> "none",
    sends |-> Load(Secret(n1), Secret(n1), Secret(n2))],
   [routable |-> FALSE, limited |-> TRUE, bearer |-> "empty",
    sends |-> Load(Secret(n1), Secret(n1), Secret(n2))]}
=============================================================================
