-------------------------- MODULE TransactionStates --------------------------
(* The states of an update transaction and the table of legal transitions    *)
(* (src/internal/app/reliability.go), and what a terminal transaction means  *)
(* for its job (src/internal/app/job_lifecycle.go).  "none" stands for a     *)
(* transaction whose row does not exist.                                     *)

PreMutation == {"queued", "preflight", "snapshot", "restore_point", "prepared"}
Terminal == {"success", "failed", "skipped", "rolled_back", "cancelled"}
PostMutation ==
    {"updating", "image_verify", "docker_health", "dependencies", "verifying",
     "refreshing", "recovering", "rollback", "recovery_required"}
TxStates == PreMutation \cup PostMutation \cup Terminal

ActiveTxStatus == {"running", "recovering", "recovery_required"}
TxStatuses == ActiveTxStatus \cup Terminal \cup {"interrupted"}

ActiveJob == {"queued", "running", "cancel_requested"}
FinalJob == {"success", "failed", "skipped", "cancelled"}
JobStates == ActiveJob \cup FinalJob

transactionTransitions ==
    [queued        |-> {"preflight", "cancelled"},
     preflight     |-> {"snapshot", "prepared", "skipped", "cancelled"},
     snapshot      |-> {"restore_point", "skipped", "cancelled"},
     restore_point |-> {"prepared", "skipped", "cancelled"},
     prepared      |-> {"updating", "cancelled"},
     updating      |-> {"image_verify", "rollback"},
     image_verify  |-> {"docker_health", "rollback"},
     docker_health |-> {"dependencies", "verifying", "rollback"},
     dependencies  |-> {"verifying", "rollback"},
     verifying     |-> {"refreshing", "rollback"},
     refreshing    |-> {"success"},
     recovering    |-> {"docker_health", "dependencies", "verifying", "rollback",
                        "success", "recovery_required"},
     rollback      |-> {"rolled_back", "recovery_required"},
     recovery_required |-> {"rollback"}]

\* The table plus the two blanket rules.  As written, the rules also let a
\* skipped or cancelled transaction leave its terminal state.
validTransactionTransition(from, to) ==
    \/ from = to
    \/ to = "recovering" /\ from \notin {"success", "failed", "rolled_back"}
    \/ to = "failed" /\ from \notin {"success", "rolled_back"}
    \/ from \in DOMAIN transactionTransitions /\ to \in transactionTransitions[from]

\* Where the pipeline goes after each verification it passes.
NextStage == [docker_health |-> {"dependencies", "verifying"},
              dependencies  |-> {"verifying"},
              verifying     |-> {"refreshing"}]

terminalJobStateForTransaction(state) ==
    IF state \in {"success", "skipped", "cancelled"} THEN state ELSE "failed"
=============================================================================
