-------------------------------- MODULE Screens --------------------------------
(***************************************************************************)
(* The parts of the system that only show things and share no state: the   *)
(* side chat's fork, the dashboard, a child's transcript, its viewport and *)
(* the watch overlay.  One behaviour is about one of them.                 *)
(***************************************************************************)
EXTENDS SideChat, Dashboard, ChildView, WatchViewport, WatchOverlay

VARIABLE part

Parts == {"chat", "dashboard", "view", "viewport", "overlay"}

screens == <<part, chatVars, dashVars, viewVars, scrollVars, overlayVars>>

Init ==
  /\ part \in Parts /\ ChatInit /\ DashInit /\ ViewInit /\ ScrollInit /\ OverlayInit
  /\ part # "overlay" => term = MainScreen(CHOOSE kind \in Terminals : TRUE)

Next ==
  /\ UNCHANGED part
  /\ \/ part = "chat" /\ ChatNext /\ UNCHANGED <<dashVars, viewVars, scrollVars, overlayVars>>
     \/ part = "dashboard" /\ DashNext /\ UNCHANGED <<chatVars, viewVars, scrollVars, overlayVars>>
     \/ part = "view" /\ ViewNext /\ UNCHANGED <<chatVars, dashVars, scrollVars, overlayVars>>
     \/ part = "viewport" /\ ScrollNext /\ UNCHANGED <<chatVars, dashVars, viewVars, overlayVars>>
     \/ part = "overlay" /\ OverlayNext /\ UNCHANGED <<chatVars, dashVars, viewVars, scrollVars>>

(* Fairness is the dashboard's. *)
Fairness ==
  /\ \A step \in FairSteps : WF_dashVars(part = "dashboard" /\ Fair(step))
  /\ \A s \in Slots : WF_dashVars(part = "dashboard" /\ FetchGoesOn(s))

Spec == Init /\ [][Next]_screens /\ Fairness
=============================================================================
