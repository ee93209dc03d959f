------------------------------- MODULE Mishaps -------------------------------
(***************************************************************************)
(* What may go wrong around the program: a remote call that fails, a send  *)
(* that is lost, a transaction rolled back, a process that dies.  A run    *)
(* names the kinds it admits.  Persistent kinds may happen any number of   *)
(* times; the others share a budget of MaxFaults.                          *)
(***************************************************************************)
EXTENDS Naturals

CONSTANTS FaultKinds, Persistent, MaxFaults

ASSUME FaultBudget == MaxFaults \in Nat

VARIABLE faults          \* how much of the budget has been spent

Mishap(kind) ==
  \/ kind \in Persistent /\ UNCHANGED faults
  \/ kind \in FaultKinds /\ faults < MaxFaults /\ faults' = faults + 1

NoMishap == UNCHANGED faults

=============================================================================
