-------------------------- MODULE MCTcgTranslator --------------------------
(* TcgTranslator with one register that holds 0 or 1, a global at offset 1 and *)
(* a field at offset 2 of the addresses it leads to, a local temp and a plain  *)
(* one.                                                                        *)
EXTENDS TcgTranslator

CONSTANTS env, cc, loc, tmp

BaseOf   == [g \in {cc} |-> env]
OffsetOf == [g \in {cc} |-> 1]
Sum(x, y) == (x + y) % 2
=============================================================================
