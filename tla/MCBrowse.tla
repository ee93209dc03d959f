------------------------------- MODULE MCBrowse -------------------------------
(***************************************************************************)
(* Instances of Browse for TLC: the environment of MCSearchService and a   *)
(* visitor.                                                                *)
(***************************************************************************)
EXTENDS Browse, MCSearchService

MCBrowseInit == MCInit /\ BrowseInit

MCSite ==
  /\ (ListenerNext /\ UNCHANGED sends) \/ MCEnvSend \/ MCEnvRows
  /\ UNCHANGED page

MCVisit == (Visit \/ Die) /\ UNCHANGED sends

MCBrowseSpec == MCBrowseInit /\ [][MCSite \/ MCVisit]_<<browseVars, sends>>

=============================================================================
