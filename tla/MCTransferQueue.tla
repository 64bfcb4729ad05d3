--------------------------- MODULE MCTransferQueue ---------------------------
(***************************************************************************)
(* Small instances of the transfer queue: three transfers and two commands *)
(* at once, or two transfers in any state a stopped application leaves.    *)
(***************************************************************************)
EXTENDS TransferQueue

CONSTANTS j1, j2, j3, u1, u2

MCJob == {j1, j2, j3}
MCTwoJobs == {j1, j2}
MCCaller == {u1}
MCTwoCallers == {u1, u2}

MCRow(s, p) == [state |-> s, priority |-> p]

(* Tables that a stopped application has left.                            *)
MCStart ==
  {(j1 :> MCRow("Running", "low") @@ j2 :> MCRow(s, "normal")) :
     s \in {"Running", "Paused", "WaitingForConflict", "Failed"}}

MCOneRunning == {(j1 :> MCRow("Running", "normal"))}

MCSymmetry == Permutations(MCTwoCallers)

=============================================================================
