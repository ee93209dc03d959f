--------------------------- MODULE MCSearchService ---------------------------
(***************************************************************************)
(* Instances of SearchService for TLC: the environment sends MaxSends      *)
(* messages in all, writes the two tables a document is built from, and    *)
(* leaves the budget of mishaps to the listener.                           *)
(***************************************************************************)
EXTENDS SearchService

CONSTANT MaxSends

VARIABLE sends

Empty(h) == rows[h] = {} /\ rev[h] = 0

MCInit == Init /\ sends = 0 /\ \A h \in Houses : Empty(h)

MCEnvSend ==
  /\ EnvSend
  /\ sends < MaxSends
  /\ sends' = sends + 1

MCEnvRows ==
  /\ UNCHANGED <<faults, sends>>
  /\ EnvRows
  /\ \A h \in Houses : rows'[h] \subseteq {"house", "detail"}

Listener == (ListenerNext \/ Crash) /\ UNCHANGED sends

MCNext == Listener \/ MCEnvSend \/ MCEnvRows

MCSpec == MCInit /\ [][MCNext]_<<searchVars, sends>>

mcVars == <<searchVars, sends>>

MCFairness ==
  /\ WF_mcVars((Poll \/ Handle) /\ UNCHANGED <<rows, rev, sends>>)
  /\ WF_mcVars(Refresh /\ UNCHANGED <<rows, rev, sends>>)

MCFairSpec == MCSpec /\ MCFairness

=============================================================================
