------------------------------ MODULE MCStacks ------------------------------
(* Instances of Stacks for TLC: start requests are interchangeable.        *)
EXTENDS Stacks, TLC

CONSTANTS r1, e1, h1, h2

StarterSymmetry == Permutations(Starters)
=============================================================================
