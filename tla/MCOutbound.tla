----------------------------- MODULE MCOutbound -----------------------------
(***************************************************************************)
(* A small instance: every integration complete, or some of them lacking a *)
(* setting, disabled or asking for a higher verdict.                       *)
(***************************************************************************)
EXTENDS Outbound

Settings(enabled, min, given) == [enabled |-> enabled, min |-> min, given |-> given]

All == {"api_url", "api_key", "customer_id", "project_key", "issue_type", "token"}

Complete ==
    [s \in {"webhook", "wazuh", "thehive", "iris", "jira"} |-> Settings(TRUE, "suspicious", All)]

MCConfigs ==
    {Complete,
     [Complete EXCEPT !["webhook"].given = {}, !["wazuh"].min = "phishing",
                      !["thehive"].given = {"api_url"}, !["iris"].min = "", !["jira"].enabled = FALSE]}
=============================================================================
