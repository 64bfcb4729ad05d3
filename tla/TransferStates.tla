---------------------------- MODULE TransferStates ----------------------------
(***************************************************************************)
(* The states of a transfer and the moves between them that               *)
(* TransferQueue::transition accepts.                                      *)
(***************************************************************************)

State == {"Queued", "Running", "Paused", "WaitingForConflict",
          "WaitingForAuthentication", "Completed", "Failed", "Cancelled",
          "Interrupted"}

IsTerminal(s) == s \in {"Completed", "Failed", "Cancelled"}

ValidTransitions ==
       {"Queued", "Interrupted"} \X {"Running"}
  \cup {<<"Queued", "Paused">>}
  \cup {"Interrupted"} \X {"WaitingForAuthentication", "Failed"}
  \cup {"Queued", "Running", "Paused", "Interrupted"} \X {"Cancelled"}
  \cup {"Running"} \X {"Paused", "WaitingForConflict",
                       "WaitingForAuthentication", "Completed", "Failed",
                       "Interrupted"}
  \cup {"Paused", "WaitingForConflict", "WaitingForAuthentication",
        "Interrupted", "Failed"} \X {"Queued"}

IsValidTransition(from, to) == <<from, to>> \in ValidTransitions

Policy == {"ask", "skip", "overwrite", "rename"}

(* TransferListFilter::matches. *)
Filter == {"all", "active", "completed", "failed"}

Matches(f, s) ==
  \/ f = "all"
  \/ f = "active" /\ ~IsTerminal(s)
  \/ f = "completed" /\ s = "Completed"
  \/ f = "failed" /\ s \in {"Failed", "Cancelled"}

=============================================================================
