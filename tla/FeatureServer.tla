----------------------------- MODULE FeatureServer -----------------------------
(* What relay_loop promises the driver of the virtual pad (proxy.rs:1756-2006), *)
(* without a cache, channels or a real pad: the one request the driver has      *)
(* outstanding is answered once and in kind.  A GET gets the report it names or *)
(* is refused, a SET is done or fails and is never answered by a report, and a  *)
(* session that ends takes the request and the last answer with it.             *)
CONSTANTS Ids, Reports, None

VARIABLES
    request,   \* what the driver waits for, or None
    answer     \* the last answer it got, or None

vars == <<request, answer>>

Init == request = None /\ answer = None

Ask ==
    /\ request = None
    /\ request' \in [op: {"get"}, id: Ids] \cup [op: {"set", "state"}]
    /\ answer' = None

Waiting(ops) == request # None /\ request.op \in ops /\ request' = None

Give ==
    /\ Waiting({"get"})
    /\ \E d \in Reports : d.id = request.id /\ answer' = [id |-> request.id, data |-> d]

Refuse == Waiting({"get"}) /\ answer' \in [err: {"EINVAL", "EIO"}]

Done == Waiting({"set", "state"}) /\ answer' \in [err: {"none", "EIO"}]

Over == request' = None /\ answer' = None

Next == Ask \/ Give \/ Refuse \/ Done \/ Over

Spec == Init /\ [][Next]_vars
=============================================================================
