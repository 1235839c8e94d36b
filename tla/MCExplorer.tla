------------------------------ MODULE MCExplorer ------------------------------
(* Small instances of Explorer. *)
EXTENDS Explorer

CONSTANTS e1, e2, e3, e4, e5, e6, e7

Enc == {e1, e2, e3, e4, e5, e6, e7}

\* Two ways to e5, and the longer one may be searched first: e6 is then beyond the
\* maximal depth and is found only if e5 is expanded again.
TwoWays == [x \in Enc |-> CASE x = e1 -> {e2, e3} [] x = e2 -> {e4} [] x = e3 -> {e5}
                            [] x = e4 -> {e5} [] x = e5 -> {e6} [] x \in {e6, e7} -> {}]

\* A refused operation, and what the encoding becomes with its code.
RefusedAtE2 == [x \in Enc |-> IF x = e2 THEN {e7} ELSE {}]

\* Two of the values an uninitialised m_depth may have.
SomeDepths == {-1, 0}
===============================================================================
