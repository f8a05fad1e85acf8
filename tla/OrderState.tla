----------------------------- MODULE OrderState -----------------------------
(***************************************************************************)
(* The order life cycle every component of the execution stack shares: the *)
(* states of exec_types.hpp and the transition relation of order_state.hpp *)
(***************************************************************************)

OrderStates ==
  {"new_order", "risk_rejected", "pending_send", "sent", "acknowledged", "rejected",
   "unknown", "partially_filled", "filled", "cancel_pending", "cancelled", "expired"}

Terminal == {"risk_rejected", "filled", "cancelled", "rejected", "expired"}

is_terminal(s) == s \in Terminal

\* Exposure is held from pending_send until a terminal state; unknown holds all of it.
reserves_exposure(s) == ~is_terminal(s) /\ s # "new_order"

\* The states each state may move to (legal(a, b) is b \in Successors(a)).
Successors(a) ==
  CASE a = "new_order"        -> {"risk_rejected", "pending_send"}
    [] a = "pending_send"     -> {"sent"}
    [] a = "sent"             -> {"acknowledged", "rejected", "unknown"}
    [] a = "acknowledged"     -> {"partially_filled", "filled", "cancel_pending", "expired"}
    [] a = "partially_filled" -> {"partially_filled", "filled", "cancel_pending"}
    [] a = "cancel_pending"   -> {"cancelled", "filled", "unknown"}
    [] a = "unknown"          -> Terminal
    [] OTHER                  -> {}

legal(a, b) == b \in Successors(a)
=============================================================================
