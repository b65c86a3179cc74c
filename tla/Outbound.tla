------------------------------ MODULE Outbound ------------------------------
(***************************************************************************)
(* What leaves the service: verdicts to sinks and hooks, and answers to    *)
(* the people who reported a message.  The two share nothing but the       *)
(* process, so a behaviour is about one of them, chosen at the start.      *)
(***************************************************************************)
EXTENDS Notifications, MailReply

VARIABLE outgoing

outboundVars == <<outgoing, outVars, mailVars>>

\* The settings of the part that is not looked at do not matter.
OutboundInit ==
    /\ outgoing \in {"verdicts", "answers"}
    /\ NotifyInit /\ MailInit
    /\ outgoing = "verdicts" => mailConfig = [complete |-> TRUE, port |-> 587, user |-> TRUE]
    /\ outgoing = "answers" => cipher = 0

Deliver ==
    /\ outgoing = "verdicts"
    /\ NotifyNext \/ \E key \in 0..2 : RestartNotify(key)
    /\ UNCHANGED <<outgoing, mailVars>>

Reply ==
    /\ outgoing = "answers"
    /\ MailNext \/ RestartMail
    /\ UNCHANGED <<outgoing, outVars>>

OutboundNext == Deliver \/ Reply

\* Every call of a delivery has ten seconds of its own, so it goes on.
OutboundSpec ==
    OutboundInit /\ [][OutboundNext]_outboundVars /\ \A e \in Events : WF_outVars(DeliveryStep(e))
=============================================================================
