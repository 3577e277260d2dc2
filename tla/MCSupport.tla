------------------------------ MODULE MCSupport ------------------------------
(* The support application for TLC: its tickets and its public pages.  The    *)
(* two share no state, so that runs of one beside the other show nothing new: *)
(* TLC explores each while the other rests in its initial state.             *)
EXTENDS SupportTickets, HelpCenter

Init == TicketInit /\ HelpInit
Next ==
  \/ HelpInit /\ TicketNext /\ UNCHANGED helpVars
  \/ TicketInit /\ HelpNext /\ UNCHANGED ticketVars
Spec == Init /\ [][Next]_<<ticketVars, helpVars>>
==============================================================================
