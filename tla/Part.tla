-------------------------------- MODULE Part --------------------------------
(* Components that share no state, side by side: a behaviour moves one of  *)
(* them, and the variables of the others stay as they are.                 *)
CONSTANTS Callers   \* calls, requests and transactions in progress

VARIABLES part      \* the component that moves
=============================================================================
