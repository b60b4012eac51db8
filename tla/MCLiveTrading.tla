--------------------------- MODULE MCLiveTrading ---------------------------
(***************************************************************************)
(* LiveTrading for TLC.  Overlapping ticks are interchangeable.  What is   *)
(* of no consequence to one another is not combined: the switch does not   *)
(* trip once ticks have overlapped (a tick that fails or does not decide   *)
(* ends in the same way), and the limits change only where ticks do not    *)
(* overlap, the switch is not tripped, the broker stays configured and no  *)
(* order leaves the book.                                                  *)
(***************************************************************************)
EXTENDS LiveTrading, TLC

Symmetry == Permutations(Generator)

SwitchBound == ~(overlapped' /\ tripped')

\* Elsewhere the limits stay as enrolled, and only the enrolled window slides.
LimitsBound ==
    overlapped' \/ tripped' \/ unmatched' # {} \/ configured' = "none" =>
        limits' = Enrolled /\ \A w \in Window : w # Enrolled.window => windowFrom'[w] = 1
=============================================================================
