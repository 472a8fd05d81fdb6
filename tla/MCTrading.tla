----------------------------- MODULE MCTrading -----------------------------
(***************************************************************************)
(* Small instances of Trading for TLC.                                     *)
(***************************************************************************)
EXTENDS Trading

CONSTANTS n1, u1, u2

\* One name, which u1 holds; its etching paid too little to lift its price
\* above the market's minimum.
OwnedByFirst == [n \in Names |-> u1]
CheapEtching == [n \in Names |-> 500]

\* Tasks are interchangeable, and so are the handler slots they occupy.
TaskSymmetry == Permutations(Handlers)
=============================================================================
