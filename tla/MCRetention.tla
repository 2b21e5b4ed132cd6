----------------------------- MODULE MCRetention -----------------------------
(***************************************************************************)
(* Two requests and two prunes, the second with a later cutoff; the judge  *)
(* of the first request has answered after the first cutoff, the second    *)
(* request is beyond it.                                                   *)
(*   Meeting: a client rewrites the verdict of the first request, another  *)
(*     gives feedback on it, a third notes what was sent of it.            *)
(*   Apart: a view of the first is rewritten and a rewrite of the second   *)
(*     while feedback is given on the second.                              *)
(***************************************************************************)
EXTENDS Retention, TLC

CONSTANTS a, b, first, second, k1, k2, k3

RequestsDef == {first, second}
CommandsDef == {a, b}
ClientsDef == {k1, k2, k3}

Rewriting(q, source) == [is |-> "rewrites", request |-> q, source |-> source]

Plain(what, q) == [is |-> what, request |-> q, source |-> "none"]

Each(x, y, z) == (k1 :> x) @@ (k2 :> y) @@ (k3 :> z)

Meeting == Each(Rewriting(first, "request_judge"), Plain("feedback", first), Plain("sent_messages", first))

Apart == Each(Rewriting(first, "request_views"), Plain("feedback", second), Rewriting(second, "rewrites"))

AsksDef == {Meeting, Apart}

CutoffDef == (a :> 2) @@ (b :> 3)

CreatedAtDef == (first :> 1) @@ (second :> 2)

ResponsesDef ==
  {[id |-> "view1", request |-> first, at |-> 1], [id |-> "verdict1", request |-> first, at |-> 2],
   [id |-> "verdict2", request |-> second, at |-> 2], [id |-> "rewrite2", request |-> second, at |-> 2]}

Shows(t, q, r) == [table |-> t, request |-> q, shows |-> r]

ChildrenDef ==
  {Shows("request_views", first, "view1"), Shows("request_judge", first, "verdict1"),
   Shows("request_views", second, "none"), Shows("request_judge", second, "verdict2"),
   Shows("rewrites", second, "rewrite2")}
=============================================================================
