----------------------------- MODULE MCCompiler -----------------------------
(***************************************************************************)
(* A small instance of Compiler for TLC: three calls contend for one URI,   *)
(* or two run while AddResource is called for two.  Only who calls and when *)
(* is restricted; what a call does is Compiler's.                           *)
(***************************************************************************)
EXTENDS Compiler, TLC

CONSTANTS c1, c2, c3, u1, d2

Active == {c \in Call : pc[c] # "idle"}

\* Calls are interchangeable, so that they may start in this order.
Starts(c) ==
    CASE c = c1 -> TRUE
      [] c = c2 -> c1 \in Active
      [] c = c3 -> c2 \in Active /\ adds = 0

\* So are documents, and as registered URIs: what comes into an empty registry is
\* not d2 and not for another URI than u1.
Registers(u, d) == c3 \notin Active /\ (arrays[resources] = <<>> => u = u1 /\ d # d2)

MCNext ==
    \/ \E c \in Call : Step(c)
    \/ \E c \in Call : Starts(c) /\ (CallCompile(c) \/ CallURL(c, u1))
    \/ \E u \in URI, d \in Doc : Registers(u, d) /\ AddResource(u, d)

\* Step is not restricted, nor is the fairness it is given.
MCSpec == Init /\ [][MCNext]_vars /\ Fairness
=============================================================================
