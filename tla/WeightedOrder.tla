---------------------------- MODULE WeightedOrder ----------------------------
(***************************************************************************)
(* The weighted round-robin order of src/ip_model_automation/common.py.    *)
(*                                                                         *)
(* An order is the sequence in which each name occurs as many times in a   *)
(* row as its weight; the index is the place the next scan starts from.    *)
(* Everything here is a constant-level operator: the components that own   *)
(* an order keep the index among their variables.                          *)
(***************************************************************************)
EXTENDS Naturals, Sequences

\* The distances a scan covers: one full turn over the order.
Offsets(order) == 0 .. Len(order) - 1

\* The name a scan that starts at index meets after offset steps.  The source
\* counts places from 0; index may equal Len(order), which is place 0 again.
Slot(order, index, offset) == order[((index + offset) % Len(order)) + 1]

\* The set that holds the first name of the scan that lies in candidates, and
\* is empty when the scan meets none of them (the Optional of the source).
FirstOf(order, index, candidates) ==
  { name \in candidates :
      \E k \in Offsets(order) :
        /\ Slot(order, index, k) = name
        /\ \A j \in 0 .. k - 1 : Slot(order, index, j) \notin candidates }

\* The indices advance_to_after(selected) may leave: one past the first slot,
\* from the index on, that holds selected.
AfterFirst(order, index, selected) ==
  { ((index + k) % Len(order)) + 1 :
      k \in { o \in Offsets(order) :
                /\ Slot(order, index, o) = selected
                /\ \A j \in 0 .. o - 1 : Slot(order, index, j) # selected } }

\* The index after advance_to_after(selected): unchanged when the order does
\* not hold the name at all.
AdvanceToAfter(order, index, selected) ==
  IF AfterFirst(order, index, selected) = {}
  THEN index
  ELSE CHOOSE i \in AfterFirst(order, index, selected) : TRUE

==============================================================================
