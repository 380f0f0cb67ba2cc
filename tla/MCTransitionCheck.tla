--------------------------- MODULE MCTransitionCheck ---------------------------
(***************************************************************************)
(* A small instance of TransitionCheck: one FSM of three states, and every *)
(* template that lists some of them with transitions of a few shapes.      *)
(***************************************************************************)
EXTENDS TransitionCheck

CONSTANTS f1, RESET, IDLE, WAIT, i1, i2

Reset == [f \in Fsm |-> RESET]

Edges ==
  { {}, {<<f1, RESET, IDLE>>}, {<<f1, RESET, IDLE>>, <<f1, IDLE, WAIT>>},
    {<<f1, IDLE, WAIT>>, <<f1, WAIT, IDLE>>}, {<<f1, IDLE, IDLE>>, <<f1, RESET, WAIT>>} }

Templates ==
  { [states |-> listed, transitions |-> edges, waitPoints |-> {<<f1, WAIT>>}] :
      listed \in { Fsm \X State, Fsm \X {RESET, IDLE} }, edges \in Edges }

=============================================================================
