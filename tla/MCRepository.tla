---------------------------- MODULE MCRepository ----------------------------
(* The documents share their code.                                         *)
EXTENDS Repository

Codes == <<1, 1>>
Symmetry == Permutations(Procs)
=============================================================================
