---------------------------- MODULE MCTraceMatrix ----------------------------
(***************************************************************************)
(* Two L1 requirements, an L2 and an L3: at first one chain of three       *)
(* levels that is verified at its end, and an L1 verified by inspection.   *)
(* As any requirement may be put below any L1 or L2, the other L1 also     *)
(* serves as a sibling of the L2 and of the L3.                            *)
(***************************************************************************)
EXTENDS TraceMatrix

MCIds == {"L1-A", "L1-B", "L2-A", "L3-A"}
MCLevel == [id \in MCIds |-> IF id \in {"L1-A", "L1-B"} THEN 1
                             ELSE IF id = "L3-A" THEN 3 ELSE 2]

MCFirstTree ==
  [reqs |-> [id \in MCIds |->
               [parent |-> CASE id = "L2-A" -> "L1-A" [] id = "L3-A" -> "L2-A" [] OTHER -> None,
                tested |-> id # "L1-B"]],
   marks |-> {<<"test", "L3-A">>}]
=============================================================================
