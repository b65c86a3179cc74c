--------------------------- MODULE Notifications ---------------------------
(***************************************************************************)
(* Verdicts on their way out (internal/notify).  After its analysis every  *)
(* submission is handed to a goroutine that calls the configured sinks one *)
(* by one and then the webhooks its organisation subscribed, each with ten *)
(* seconds of its own and without a second try.  The subscriptions are     *)
(* edited, and the key their secrets are sealed with changes, while        *)
(* deliveries are under way; a restart forgets the unfinished ones.        *)
(***************************************************************************)
EXTENDS Integers, Sequences, SequencesExt, FiniteSetsExt

CONSTANTS
    Orgs, NoOrg,    \* the organisations, and the empty one
    Events,         \* analysed submissions
    Configs,        \* the integrations as configured: [Sinks -> settings]
    MaxHooks,       \* bound: subscriptions created
    MaxOutTrouble   \* bound: database errors and restarts

ASSUME NotifyAssumption ==
    NoOrg \notin Orgs /\ MaxHooks \in Nat /\ MaxOutTrouble \in Nat

VARIABLES
    config,      \* the integrations, fixed while the process runs
    cipher,      \* the key in the environment; 0 is none
    hooks,       \* the webhooks table; ids number its rows by created_at
    delivery,    \* event -> its goroutine
    tried,       \* event -> the sinks and the hooks called for it, in order
    created, outTrouble,
    standing     \* (ghost) event -> hooks there since its delivery began

outVars == <<config, cipher, hooks, delivery, tried, created, outTrouble, standing>>

-----------------------------------------------------------------------------
Verdicts == {"clean", "suspicious", "needs_review", "phishing"}

\* Rank: needs_review is worse than suspicious; any other word is below clean.
Rank(v) ==
    CASE v = "clean" -> 0 [] v = "suspicious" -> 1 [] v = "needs_review" -> 2
      [] v = "phishing" -> 3 [] OTHER -> -1

\* What each sink does with a verdict.  A sink that lacks a setting it needs
\* reports an error without calling anyone.
WebhookSends(set, verdict) == TRUE

WazuhSends(set, verdict) == Rank(verdict) >= Rank(set.min) /\ "api_url" \in set.given

TheHiveSends(set, verdict) ==
    Rank(verdict) >= Rank(set.min) /\ {"api_url", "api_key"} \subseteq set.given

IRISSends(set, verdict) ==
    Rank(verdict) >= Rank(set.min) /\ {"api_url", "api_key", "customer_id"} \subseteq set.given

JiraSends(set, verdict) ==
    /\ Rank(verdict) >= Rank(set.min)
    /\ {"api_url", "project_key", "issue_type", "token"} \subseteq set.given

Sends(sink, set, verdict) ==
    CASE sink = "webhook" -> WebhookSends(set, verdict)
      [] sink = "wazuh" -> WazuhSends(set, verdict)
      [] sink = "thehive" -> TheHiveSends(set, verdict)
      [] sink = "iris" -> IRISSends(set, verdict)
      [] sink = "jira" -> JiraSends(set, verdict)

\* NewFanout: the enabled ones in this order, the webhook only with a URL.
Order == <<"webhook", "wazuh", "thehive", "iris", "jira">>

Notifiers ==
    {i \in DOMAIN Order : /\ config[Order[i]].enabled
                          /\ Order[i] = "webhook" => "api_url" \in config[Order[i]].given}

Waiting == [at |-> "new", org |-> NoOrg, verdict |-> "clean", next |-> 0, queue |-> {},
            cut |-> FALSE, sealed |-> {}]

NotifyInit ==
    /\ config \in Configs
    /\ cipher \in {0, 1}
    /\ hooks = {}
    /\ delivery = [e \in Events |-> Waiting]
    /\ tried = [e \in Events |-> [sinks |-> <<>>, hooks |-> <<>>]]
    /\ created = 0 /\ outTrouble = 0
    /\ standing = [e \in Events |-> {}]

HookIds == {h.id : h \in hooks}

\* ListWebhooks: the organisation's own rows; an empty one sees them all.
Visible(org) == {h \in hooks : h.org = org \/ org = NoOrg}

\* The rows are listed newest first.
Newest(rows) == CHOOSE h \in rows : \A k \in rows : k.id <= h.id

Opens(h) == cipher # 0 /\ h.sealed = cipher

-----------------------------------------------------------------------------
(* Fanout.Notify, in a goroutine that nothing cancels.                      *)

StartDelivery(e, org, verdict) ==
    /\ delivery[e].at = "new"
    /\ delivery' = [delivery EXCEPT ![e] =
         [@ EXCEPT !.at = "sinks", !.org = org, !.verdict = verdict, !.next = 1]]
    /\ standing' = [standing EXCEPT ![e] = HookIds]
    /\ UNCHANGED <<config, cipher, hooks, tried, created, outTrouble>>

\* The sinks that are still to be called.
Ahead(e) == {i \in Notifiers : i >= delivery[e].next}

\* Fault: the context of the first call, cancelled by now, is passed on.
CallSinkOnSpentContext(e) ==
    /\ delivery[e].at = "sinks" /\ Ahead(e) # {}
    /\ LET i == Min(Ahead(e)) IN
       /\ tried' = IF i = Min(Notifiers) /\ Sends(Order[i], config[Order[i]], delivery[e].verdict)
                   THEN [tried EXCEPT ![e].sinks = Append(@, Order[i])] ELSE tried
       /\ delivery' = [delivery EXCEPT ![e].next = i + 1]
    /\ UNCHANGED <<config, cipher, hooks, created, outTrouble, standing>>

\* Whatever the sink answers, and even if it hangs for its ten seconds.
CallSink(e) ==
    /\ delivery[e].at = "sinks" /\ Ahead(e) # {}
    /\ LET i == Min(Ahead(e)) IN
       /\ tried' = IF Sends(Order[i], config[Order[i]], delivery[e].verdict)
                   THEN [tried EXCEPT ![e].sinks = Append(@, Order[i])] ELSE tried
       /\ delivery' = [delivery EXCEPT ![e].next = i + 1]
    /\ UNCHANGED <<config, cipher, hooks, created, outTrouble, standing>>

\* One secret that does not open fails the whole list, as an error does.
LoadHooks(e) ==
    /\ delivery[e].at = "sinks" /\ Ahead(e) = {}
    /\ LET rows == Visible(delivery[e].org)
           shut == {r \in rows : ~Opens(r)} IN
       \/ /\ shut = {}
          /\ delivery' = [delivery EXCEPT ![e].at = "hooks", ![e].queue = rows]
          /\ UNCHANGED outTrouble
       \/ /\ shut # {}
          /\ delivery' = [delivery EXCEPT ![e].at = "over", ![e].sealed = shut]
          /\ UNCHANGED outTrouble
       \/ /\ outTrouble < MaxOutTrouble /\ outTrouble' = outTrouble + 1
          /\ delivery' = [delivery EXCEPT ![e].at = "over", ![e].cut = TRUE]
    /\ UNCHANGED <<config, cipher, hooks, tried, created, standing>>

\* Fault: a disabled hook is not passed over.
CallHookStuckAtDisabled(e) ==
    /\ delivery[e].at = "hooks" /\ delivery[e].queue # {}
    /\ LET h == Newest(delivery[e].queue) IN
       /\ h.enabled
       /\ tried' = [tried EXCEPT ![e].hooks = Append(@, h)]
       /\ delivery' = [delivery EXCEPT ![e].queue = @ \ {h}]
    /\ UNCHANGED <<config, cipher, hooks, created, outTrouble, standing>>

\* The list was read before: a hook deleted since is still called.
CallHook(e) ==
    /\ delivery[e].at = "hooks" /\ delivery[e].queue # {}
    /\ LET h == Newest(delivery[e].queue) IN
       /\ tried' = IF h.enabled THEN [tried EXCEPT ![e].hooks = Append(@, h)] ELSE tried
       /\ delivery' = [delivery EXCEPT ![e].queue = @ \ {h}]
    /\ UNCHANGED <<config, cipher, hooks, created, outTrouble, standing>>

EndDelivery(e) ==
    /\ delivery[e].at = "hooks" /\ delivery[e].queue = {}
    /\ delivery' = [delivery EXCEPT ![e].at = "over"]
    /\ UNCHANGED <<config, cipher, hooks, tried, created, outTrouble, standing>>

-----------------------------------------------------------------------------
(* handleCreateWebhook and handleDeleteWebhook.                             *)

\* A secret needs a key to be sealed with, and a name is used once in an
\* organisation; otherwise 500 or 409 and no row.
CreateWebhook(org, name, enabled) ==
    /\ created < MaxHooks
    /\ cipher # 0
    /\ \A h \in hooks : ~(h.org = org /\ h.name = name)
    /\ created' = created + 1
    /\ hooks' = hooks \cup {[id |-> created + 1, org |-> org, name |-> name,
                             sealed |-> cipher, enabled |-> enabled]}
    /\ UNCHANGED <<config, cipher, delivery, tried, outTrouble, standing>>

\* Only a row of the caller's organisation, and not all of them for none.
DeleteWebhook(org, id) ==
    /\ \E h \in hooks : h.org = org /\ h.id = id
    /\ hooks' = {h \in hooks : ~(h.org = org /\ h.id = id)}
    /\ standing' = [e \in Events |-> standing[e] \ {id}]
    /\ UNCHANGED <<config, cipher, delivery, tried, created, outTrouble>>

\* The process stops without waiting for deliveries and may come back with
\* another key.
RestartNotify(key) ==
    /\ outTrouble < MaxOutTrouble /\ outTrouble' = outTrouble + 1
    /\ cipher' = key
    /\ delivery' = [e \in Events |->
         IF delivery[e].at \in {"sinks", "hooks"}
         THEN [delivery[e] EXCEPT !.at = "over", !.queue = {}, !.cut = TRUE]
         ELSE delivery[e]]
    /\ UNCHANGED <<config, hooks, tried, created, standing>>

DeliveryStep(e) == CallSink(e) \/ LoadHooks(e) \/ CallHook(e) \/ EndDelivery(e)

NotifyNext ==
    \/ \E e \in Events : DeliveryStep(e)
    \/ \E e \in Events, org \in Orgs \cup {NoOrg}, v \in Verdicts : StartDelivery(e, org, v)
    \/ \E org \in Orgs \cup {NoOrg}, name \in {"soc", "siem"}, enabled \in BOOLEAN :
         CreateWebhook(org, name, enabled)
    \/ \E org \in Orgs \cup {NoOrg}, id \in 1..MaxHooks : DeleteWebhook(org, id)

-----------------------------------------------------------------------------
Times(seq, x) == Cardinality({i \in DOMAIN seq : seq[i] = x})

Entitled(e) ==
    {h \in hooks :
        h.id \in standing[e] /\ h.enabled /\ delivery[e].org \in {NoOrg, h.org}}

\* A delivery that ran to its end called every sink meant to hear of its
\* verdict exactly once, and every hook that stood enabled for its
\* organisation all the while, whatever the ones before answered; the hooks
\* are missed only for a secret among the organisation's own that does not
\* open (notify.go, Fanout.Notify; sqlite.go, ListWebhooks).
EveryReceiverIsTried ==
    \A e \in Events : delivery[e].at = "over" /\ ~delivery[e].cut =>
        /\ \A s \in DOMAIN config : Times(tried[e].sinks, s) =
             IF (\E i \in Notifiers : Order[i] = s) /\ Sends(s, config[s], delivery[e].verdict) THEN 1 ELSE 0
        /\ \A h \in Entitled(e) :
             \/ Times(tried[e].hooks, h) = 1
             \/ \E k \in delivery[e].sealed : delivery[e].org \in {NoOrg, k.org}

\* An organisation's event is sent to its own hooks only, and to each of
\* them at most once (Fanout.Notify, ListWebhooks).
EventsStayInOrganisation ==
    \A e \in Events : \A h \in ToSet(tried[e].hooks) :
        /\ delivery[e].org \in {NoOrg, h.org}
        /\ Times(tried[e].hooks, h) = 1

\* A verdict goes to everyone it is meant for, and to nobody else (the two
\* conditions above).
VerdictsReachTheirReceivers == EveryReceiverIsTried /\ EventsStayInOrganisation

\* A delivery ends, however slow or broken its receivers are.
DeliveryEnds == \A e \in Events : delivery[e].at = "sinks" ~> delivery[e].at = "over"
=============================================================================
