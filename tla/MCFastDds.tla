------------------------------ MODULE MCFastDds ------------------------------
(* One topic of a Fast DDS provider for TLC.                                *)
EXTENDS FastDdsProvider, TLC

CONSTANTS s1, bad

\* A remote publisher on a bound that is not this provider's own, and a
\* sample that cannot be used.
MCAnnouncements == {[schema |-> s1, bound |-> 8], [schema |-> bad, bound |-> 4]}
Symmetry == Permutations(Threads)
==============================================================================
