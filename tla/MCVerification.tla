--------------------------- MODULE MCVerification ---------------------------
(* Two owners, so that one worker of the script has two NGOs to see to.    *)
EXTENDS Verification, TLC

MCSymmetry == Permutations(Owners)
=============================================================================
