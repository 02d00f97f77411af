------------------------------ MODULE MCServer ------------------------------
(* A small instance of Server for TLC: two environments (host and           *)
(* temperature set, all but the temperature) and administrators who move    *)
(* every field, once to a provider that cannot be built.                    *)
EXTENDS Server, TLC

CONSTANTS ollama, openai, anthropic, h1, h2, cool, warm, r1, r2, n1, n2

Set(p, h, t, r) == [provider |-> p, host |-> h, temperature |-> t, registration |-> r]

MCWanted == {Set(ollama, h1, warm, "open"), Set(openai, h2, cool, "closed"),
             Set(anthropic, h1, cool, "open")}

MCEnvironments == {Set(NotSet, h1, cool, NotSet), Set(openai, h2, NotSet, "closed")}

Symmetry == Permutations({r1, r2}) \cup Permutations({n1, n2})
=============================================================================
