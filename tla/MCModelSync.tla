----------------------------- MODULE MCModelSync -----------------------------
(* Small instances of ModelSync for TLC.                                    *)
EXTENDS ModelSync, TLC

CONSTANTS a, stored_a

\* A direct config is registered with tokenizer_path None and comes back from
\* its row with ''; a token config comes back as it was.
MCDbForm == [c \in Configs |-> IF c = a THEN stored_a ELSE c]

\* Workers and requests are interchangeable.
Symmetry == Permutations(Workers) \union Permutations(Clients)
=============================================================================
