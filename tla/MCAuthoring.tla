------------------------------ MODULE MCAuthoring ------------------------------
(***************************************************************************)
(* A small instance of Authoring: a DLD in three versions.  A, in a shape  *)
(* of the author's own, says nothing of waiting at its status port; B      *)
(* does, and lists the drain FSM's states; C adds an FSM and changes a     *)
(* timing.  NA, NB and NC are the same in the extractor's shape, and XB is *)
(* NB with a state in the wrong FSM.                                       *)
(***************************************************************************)
EXTENDS Authoring

MCMode == {"wait_for_response", "wait_for_ack_inline"}
MCParts == ("accept.STALL" :> {"accept", "STALL"}) @@ ("drain.HOLD" :> {"drain", "HOLD"})
MCMeasure == {"2 ns", "3 ns", "4 ns", "depth 8"}
MCBlocking == {"wait", "stalls", "until"}

Section(heading, name, title, states, text, marked) ==
  [heading |-> heading, name |-> name, title |-> title, states |-> states, wait |-> NoWait,
   text |-> text, marked |-> marked]
Waits(s, mode, point) == [s EXCEPT !.wait = [block |-> TRUE, mode |-> mode, points |-> {point}]]
Row(fsm, op) == [fsm |-> fsm, ops |-> {op}]

Why(title) ==
  Section("plain", None, title, {}, {"host", "commands", "level", "port", "depth 8", "why", "cmd_ready"}, {})
Accept(time) ==
  Section("fsm", "accept", {"Accept", "FSM"}, {"IDLE", "STALL"}, {"accept", "takes", "commands", time}, {})
Drain(states) ==
  Section("fsm", "drain", {"Drain", "FSM"}, states, {"drain", "empties", "slots"} \cup
          (IF states = {} THEN {"HOLD", "DONE"} ELSE {}), IF states = {} THEN {"HOLD", "DONE"} ELSE {})
Flush == Section("fsm", "flush", {"Flush", "FSM"}, {"SWEEP", "REST"}, {"flush", "clears", "3 ns"}, {})
Request(heading) ==
  Section(heading, "request", {"Request", heading}, {},
          {"requester", "stalls", "until", "cmd_ready"} \cup (IF heading = "plain" THEN {"STALL"} ELSE {}),
          {"cmd_ready"})
SilentStatus(heading) ==
  Section(heading, "status", {"Status", heading}, {}, {"status", "reads", "polled"}, {})
Status(heading) ==
  Section(heading, "status", {"Status", heading}, {},
          {"status", "reads", "stalls"} \cup (IF heading = "plain" THEN {"HOLD"} ELSE {}), {})

A == [sections |-> <<Why({"Why"}), Accept("2 ns"), Drain({}), Request("plain"), SilentStatus("plain")>>,
      count |-> 2, rows |-> <<>>]
B == [sections |-> <<Why({"Why"}), Accept("2 ns"), Drain({"HOLD", "DONE"}), Request("plain"), Status("plain")>>,
      count |-> None, rows |-> <<>>]
C == [sections |-> <<Why({"Why"}), Accept("4 ns"), Drain({"HOLD", "DONE"}), Flush, Request("plain"), Status("plain")>>,
      count |-> None, rows |-> <<>>]

NormalRequest == Waits(Request("interface"), "wait_for_ack_inline", "accept.STALL")
NormalStatus == Waits(Status("interface"), "wait_for_response", "drain.HOLD")
NA == [sections |-> <<Why({"Purpose"}), Drain({"HOLD", "DONE"}), Accept("2 ns"), NormalRequest,
                      SilentStatus("interface")>>,
       count |-> 2, rows |-> <<Row("accept", "2 ns")>>]
NB == [sections |-> <<Why({"Purpose"}), Accept("2 ns"), Drain({"HOLD", "DONE"}), NormalRequest, NormalStatus>>,
       count |-> 2, rows |-> <<Row("accept", "2 ns")>>]
NC == [sections |-> <<Why({"Purpose"}), Accept("4 ns"), Drain({"HOLD", "DONE"}), Flush, NormalRequest, NormalStatus>>,
       count |-> None, rows |-> <<Row("accept", "4 ns"), Row("flush", "3 ns")>>]
XB == [NB EXCEPT !.sections[2].states = {"IDLE"}, !.sections[3].states = {"HOLD", "DONE", "STALL"}]

MCDoc == {"A", "B", "C", "NA", "NB", "NC", "XB"}
MCText == [A |-> A, B |-> B, C |-> C, NA |-> NA, NB |-> NB, NC |-> NC, XB |-> XB]
MCWordDoc == {"WB", "WC"}
MCConversion == [WB |-> "B", WC |-> "C"]

================================================================================
