------------------------ MODULE MCAutopilotDispatch ------------------------
(* AutopilotDispatch with two workers next to the request or the plan.     *)
EXTENDS AutopilotDispatch, TLC

CONSTANTS w1, w2, f

=============================================================================
