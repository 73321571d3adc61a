------------------------------ MODULE MCInput ------------------------------
EXTENDS InputPath

R(d, l) == [down |-> d, l2 |-> l]

\* The user holds cross, PS and L2 in all the ways that matter to a chord ...
SomeReports ==
    {R({}, 0), R({"cross"}, 0), R({"up"}, 0), R({}, 2),
     R({"ps"}, 0), R({"ps", "cross"}, 0), R({"ps"}, 1), R({"ps"}, 2), R({"ps"}, 3)}

\* ... or just presses a button, with and without PS.
FewReports == {R({}, 0), R({"cross"}, 0), R({"ps", "cross"}, 0)}

\* A gated session with XInput, and an L2CAP session.
SomeOptions ==
    {[gate |-> TRUE, paced |-> FALSE, neutral |-> TRUE, xinput |-> TRUE],
     [gate |-> FALSE, paced |-> TRUE, neutral |-> FALSE, xinput |-> FALSE]}
=============================================================================
