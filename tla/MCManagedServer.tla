-------------------------- MODULE MCManagedServer ---------------------------
(* Small instances of ManagedServer for TLC.                               *)
EXTENDS ManagedServer

CONSTANTS m1, m2, c1, c2

\* Two built-in servers, one on any port and one on port 1; two commands that
\* want port 1.
MCRecipe ==
  [p \in Predictors |->
     [kind |-> IF p \in {m1, m2} THEN "builtin" ELSE "command",
      port |-> IF p = m1 THEN 0 ELSE 1]]
=============================================================================
