------------------------- MODULE MCProcessorManager -------------------------
(* Small instances of ProcessorManager for TLC.                             *)
EXTENDS ProcessorManager

CONSTANTS a, b, tk, k1

\* Config a runs in token mode with tokenizer tk, config b forwards directly.
MCTokenizerOf == [c \in Configs |-> IF c = a THEN tk ELSE None]
\* The YAML file of the worker names one model, or none.
MCStatic == [k \in Keys |-> IF k = k1 THEN b ELSE None]
MCNoStatic == [k \in Keys |-> None]
=============================================================================
