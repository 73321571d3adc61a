------------------------------ MODULE VirtualPad ------------------------------
(***************************************************************************)
(* What the holder promises its users (holder.rs:1-14), without a loop,    *)
(* sockets or events: proxies come and go, and the virtual pad does not    *)
(* notice.  The pad only changes while some proxy is being served, when    *)
(* the kernel gives up on it, or with the daemon itself; a pad that is     *)
(* there is never replaced by another one of its own shape.                *)
(***************************************************************************)
CONSTANTS Conns, Shapes, None

VARIABLES
    up,     \* the daemon runs
    pad,    \* None, or the pad: its shape, and whether the kernel added it
    owner   \* the proxy being served, or None

vars == <<up, pad, owner>>

Fresh(s) == [shape |-> s, added |-> FALSE]

Init == up = TRUE /\ pad = None /\ owner = None

Acquire(c) == up /\ owner = None /\ owner' = c /\ UNCHANGED <<up, pad>>

Release == up /\ owner # None /\ owner' = None /\ UNCHANGED <<up, pad>>

\* The owner asks for a shape the pad does not have.
Plug(s) ==
    /\ up /\ owner # None
    /\ pad # None => pad.shape # s
    /\ pad' = Fresh(s)
    /\ UNCHANGED <<up, owner>>

\* The owner takes the pad down, or its new shape could not be made.
Unplug == up /\ owner # None /\ pad' = None /\ UNCHANGED <<up, owner>>

KernelAdds ==
    /\ pad # None
    /\ pad' = [pad EXCEPT !.added = TRUE]
    /\ UNCHANGED <<up, owner>>

KernelGivesUp == pad' = None /\ UNCHANGED <<up, owner>>

Down == up /\ up' = FALSE /\ pad' = None /\ owner' = None

Up == ~up /\ up' = TRUE /\ UNCHANGED <<pad, owner>>

Next ==
    \/ \E c \in Conns : Acquire(c)
    \/ Release
    \/ \E s \in Shapes : Plug(s)
    \/ Unplug \/ KernelAdds \/ KernelGivesUp \/ Down \/ Up

Spec == Init /\ [][Next]_vars
=============================================================================
