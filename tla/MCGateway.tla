-------------------------------- MODULE MCGateway --------------------------------
(* Two pages, three leases, and a buffer that one or two events fill.         *)
EXTENDS Gateway
CONSTANTS a, b
MCClient == {a, b}
MCSymmetry == Permutations(MCClient)

\* The pages are interchangeable: let the first to take control be a. With
\* liveness this stands for a symmetry; no fairness is about claims.
MCNext == Next /\ (lease = 0 => job'[b] = Idle)
MCSpec == /\ Init /\ [][MCNext]_vars
          /\ SF_vars(Supervise)
          /\ WF_vars(Read \/ ReadEnd)
          /\ \A x \in Actor : WF_vars(Operate(x))
=============================================================================
