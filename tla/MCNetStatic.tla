---------------------------- MODULE MCNetStatic ----------------------------
(***************************************************************************)
(* Instances of NetStatic for TLC.                                         *)
(***************************************************************************)
EXTENDS NetStatic, TLC

CONSTANTS n1, n2, a1, a2, b1, b2

\* All interfaces, and only the second: the first loses what it has in the cache.
MCLists == {{}, {n2}}

\* All interfaces only.
MCAll == {{}}

\* A damaged file: it is renamed, so there is none, and then what the agent saves.
MCFiles == {Corrupt}

\* One byte at a time with all else, or two of them with one goroutine of each kind and
\* nothing else amiss, so that one cache holds what is from both sides of the reset.
Bounded ==
  \/ /\ \A n \in Nics : expected[n] + pending[n] <= 1
     /\ faults = 0 \/ ~signalled
  \/ /\ faults = 0 /\ nics = {} /\ ~signalled
     /\ \A kind \in {Samplers, Savers} :
          Cardinality({w \in kind : worker[w].stage # "none"}) <= 1

Symmetry == Permutations(Samplers) \cup Permutations(Savers)
=============================================================================
