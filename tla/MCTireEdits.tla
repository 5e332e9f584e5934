----------------------------- MODULE MCTireEdits -----------------------------
(* The instance of what edits leave behind: the mount history of a tire and *)
(* its low-tread warning.  The two share no column, so a behaviour is about *)
(* one of them while the other stays where it began: every step of each is  *)
(* there, in every order with the other steps of its half.                  *)
EXTENDS MCTireService, TreadWarning

\* A worn tread, and a sound one on a later day.
Observations == {[on |-> d, depth |-> d] : d \in 1 .. 2}

Anyone == Permutations(Request)

EitherView == <<History, treadVars>>

NoTread == tire = Unknown /\ TreadInit
NoMounts == History = <<[t \in Tire |-> None], [t \in Tire |-> <<>>], <<>>>>

EitherInit == Init /\ TreadInit /\ (NoTread \/ NoMounts)

EitherNext ==
    \/ NoTread /\ Next /\ UNCHANGED treadVars
    \/ NoMounts /\ TreadNext /\ UNCHANGED vars

EitherSpec == EitherInit /\ [][EitherNext]_<<vars, treadVars>>
=============================================================================
