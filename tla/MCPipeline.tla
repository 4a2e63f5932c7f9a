----------------------------- MODULE MCPipeline -----------------------------
(* FastDev, as pipelines/arka-norn-fastdev.json defines it.                     *)
EXTENDS Pipeline

FastDevId == {"rework_brief", "development_report", "delivery_audit", "delivery_validation"}
FastDev ==
    [s \in FastDevId |->
        CASE s = "rework_brief" ->
                [order |-> 1, required |-> TRUE, multiple |-> FALSE, dependsOn |-> {},
                 policy |-> [type |-> "presence"]]
          [] s = "development_report" ->
                [order |-> 2, required |-> TRUE, multiple |-> TRUE,
                 dependsOn |-> {"rework_brief"},
                 policy |-> [type |-> "delivery", pass |-> {"delivered"},
                             inProgress |-> {"partial"}]]
          [] s = "delivery_audit" ->
                [order |-> 3, required |-> TRUE, multiple |-> TRUE,
                 dependsOn |-> {"development_report"},
                 policy |-> [type |-> "audit_then_fix", target |-> "development_report",
                             pass |-> {"pass"}, fail |-> {"corrections_required", "blocked"},
                             retry |-> "development_report"]]
          [] s = "delivery_validation" ->
                [order |-> 4, required |-> TRUE, multiple |-> TRUE,
                 dependsOn |-> {"development_report", "delivery_audit"},
                 policy |-> [type |-> "review_latest", target |-> "development_report",
                             pass |-> {"pass"}, fail |-> {"fail"}, inProgress |-> {"partial"},
                             retry |-> "development_report"]]]
=============================================================================
