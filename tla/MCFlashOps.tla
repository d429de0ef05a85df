----------------------------- MODULE MCFlashOps -----------------------------
(***************************************************************************)
(* Instances of FlashOps: erase blocks of different sizes, as on STM32     *)
(* F2/F4/F7, given by the addresses they start at.                         *)
(***************************************************************************)
EXTENDS FlashRefinement

StartsAt(starts) ==
    [a \in Addr |-> CHOOSE s \in starts :
        s <= a /\ \A t \in starts : t <= a => t <= s]

EndsAt(starts) ==
    [a \in Addr |-> CHOOSE e \in (starts \cup {Base + Size}) :
        e > a /\ \A t \in starts \cup {Base + Size} : t > a => e <= t]

MixedStart == StartsAt({Base, Base + 2, Base + 3})
MixedEnd == EndsAt({Base, Base + 2, Base + 3})

(* A large block before a small one that ends where the flash does.        *)
StepStart == StartsAt({Base, Base + 4})
StepEnd == EndsAt({Base, Base + 4})
=============================================================================
