-------------------------- MODULE OdometerTolerance --------------------------
(***************************************************************************)
(* When two stored odometers are the same reading, and what is unknown.    *)
(* The code's band grows with the figure by three millionths, which is     *)
(* constant over the few neighbouring figures a check uses.                *)
(***************************************************************************)
EXTENDS Integers

CONSTANTS
    None,           \* an unknown date or figure
    Tol             \* odometer_tolerance

Known(v) == v # None

Below(a, b) == a + Tol < b
=============================================================================
