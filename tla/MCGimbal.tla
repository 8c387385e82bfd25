------------------------------ MODULE MCGimbal ------------------------------
(* Small instances of Gimbal for TLC, with one axis.                       *)
EXTENDS Gimbal, TLC

CONSTANTS pan

One(p) == pan :> p

Step(to) == [kind |-> "step", to |-> to, auto |-> TRUE]
Absolute(to) == [kind |-> "abs", to |-> to, auto |-> TRUE]
Mode(on) == [kind |-> "mode", to |-> Home, auto |-> on]

OneLo == One(0)
OneSign == One(-1)
OneGain == One(1)

\* Seven positions with the face in the middle: a gimbal that comes from an
\* end can pass the face and swing back to where the error is a pixel again.
\* Manual commands drive it to either end and beyond.
SevenHi == One(6)
SevenOrders == {Step(One(-9)), Absolute(One(9)), Mode(TRUE), Mode(FALSE)}
SevenPlaces == {One(3)}

\* Eleven positions, the face inside and beyond the end.
OneHi == One(10)
OneOrders == {Step(One(-3)), Absolute(One(7)), Mode(TRUE), Mode(FALSE)}
OnePlaces == {One(5), One(13)}
=============================================================================
