------------------------------- MODULE Paths -------------------------------
(***************************************************************************)
(* Reachability in directed graphs given as sets of records with fields    *)
(* src and dst: what llvm's graph traversals compute.                      *)
(***************************************************************************)
EXTENDS Naturals

\* The nodes reachable from S along the edges es, within k steps.
ReachWithin(S, es, k) ==
    LET R[i \in 0 .. k] ==
          IF i = 0 THEN S
          ELSE LET r == R[i - 1]
               IN  r \cup {e.dst : e \in {f \in es : f.src \in r}}
    IN  R[k]

Backwards(es) == {[src |-> e.dst, dst |-> e.src] : e \in es}

=============================================================================
