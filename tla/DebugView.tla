------------------------------ MODULE DebugView ------------------------------
(***************************************************************************)
(* What the editor shows of a debugging session, composed: the sources of  *)
(* SourceView and the registers of RegisterPanel. Both are views of one    *)
(* halted target, and both are void once it runs.                          *)
(***************************************************************************)
EXTENDS SourceView, RegisterPanel

viewVars == <<vars, panelVars>>

ViewTypeOK == TypeOK /\ PanelTypeOK

ViewInit == Init /\ PanelInit

(* Before the target runs, and when it does. A scenario with a panel sets   *)
(* no breakpoints: neither touches what the other reads.                   *)
SourceStep ==
  /\ \/ ResolveDebugConfiguration \/ CreateDebugAdapterDescriptor
     \/ HandleLaunch \/ HandleAttach
     \/ ~scenario.panel /\ \E s \in Sources, lines \in Requests : HandleSetBreakpoints(s, lines)
     \/ HandleConfigurationDone /\ config.stopOnEntry
     \/ HandleStackTrace
  /\ UNCHANGED panelVars

RunStep ==
  /\ \/ HandleConfigurationDone /\ ~config.stopOnEntry
     \/ RunAndHalt
  /\ IF scenario.panel THEN TargetRuns ELSE UNCHANGED panelVars

PanelStep == phase = "debugging" /\ scenario.panel /\ PanelNext /\ UNCHANGED vars

ViewNext == SourceStep \/ RunStep \/ PanelStep \/ (Ended /\ UNCHANGED panelVars)

ViewSpec == ViewInit /\ [][ViewNext]_viewVars
=============================================================================
