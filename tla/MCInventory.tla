---------------------------- MODULE MCInventory -----------------------------
(* Inventory with a few commands and names, which may be exchanged. *)
EXTENDS Inventory, TLC
ExchangeSymmetry == Permutations(Command) \cup Permutations(Name)

\* What comes after a race is not explored: the properties say nothing of it.
UpToFirstRace == ~raced

\* One resource has instances; the other one is an ssh resource, whose entry may
\* be lost. A cluster is looked at alone.
OneBackend ==
    LET others == {n \in Name : type[n] # "ssh"}
        used == {name[c] : c \in Command} \ {None}
    IN  /\ Cardinality(others) <= 1
        /\ \A n \in others : type[n] = "aws-condor" => used \subseteq {n}
=============================================================================
