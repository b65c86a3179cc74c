----------------------------- MODULE MailReply -----------------------------
(***************************************************************************)
(* Answering a reporter by mail (internal/notify/email.go), asked for by   *)
(* an analyst (handleReplySubmission) or by the mailbox receiver           *)
(* (cli/serve.go).  The dialogue with the mail server may break at any     *)
(* point, or run out of its ten seconds.                                   *)
(***************************************************************************)
EXTENDS Naturals

CONSTANTS MaxReplies  \* bound: replies asked for

ASSUME ReplyAssumption == MaxReplies \in Nat

VARIABLES
    reply,      \* the reply under way: who asked and how far it is
    mailConfig, \* the settings of the mail account
    replied     \* replies asked for, accepted by the server, refused after it
                \* had accepted, told as sent, and written to the audit log

mailVars == <<reply, mailConfig, replied>>

-----------------------------------------------------------------------------
NoReply == [at |-> "idle", asker |-> "http"]

MailInit ==
    /\ reply = NoReply
    /\ mailConfig \in [complete : BOOLEAN, port : {465, 587}, user : BOOLEAN]
    /\ replied = [asked |-> 0, accepted |-> 0, regretted |-> 0, told |-> 0, audited |-> 0]

Goes(from, to) == reply.at = from /\ reply' = [reply EXCEPT !.at = to]

Fails(from) == reply.at = from /\ reply' = NoReply /\ UNCHANGED <<mailConfig, replied>>

\* SendEmailReply checks its settings and the recipient before it connects.
AskReply(asker, recipientIsValid) ==
    /\ reply.at = "idle" /\ replied.asked < MaxReplies
    /\ replied' = [replied EXCEPT !.asked = @ + 1]
    /\ reply' = IF mailConfig.complete /\ recipientIsValid
                THEN [at |-> "connect", asker |-> asker] ELSE NoReply
    /\ UNCHANGED mailConfig

Connect == Goes("connect", "greeting") /\ UNCHANGED <<mailConfig, replied>>

\* Port 465 insists on TLS, any other takes it where it is offered.
Greet(offersTLS) ==
    /\ Goes("greeting", IF mailConfig.port = 465 \/ offersTLS THEN "tls" ELSE "auth")
    /\ UNCHANGED <<mailConfig, replied>>

StartTLS == Goes("tls", "auth") /\ UNCHANGED <<mailConfig, replied>>

\* Without a user nobody logs in, so nothing can be refused here.
Auth == Goes("auth", "envelope") /\ UNCHANGED <<mailConfig, replied>>

AuthFails == mailConfig.user /\ Fails("auth")

\* MAIL, RCPT and DATA.
Envelope == Goes("envelope", "data") /\ UNCHANGED <<mailConfig, replied>>

\* Fault: the answer to the message is not looked at.
CloseDataUnchecked ==
    \E taken \in 0..1 :
        /\ Goes("data", "quit")
        /\ replied' = [replied EXCEPT !.accepted = @ + taken]
        /\ UNCHANGED mailConfig

\* The server answers to the end of the message: only now it has taken it.
CloseData ==
    /\ Goes("data", "quit")
    /\ replied' = [replied EXCEPT !.accepted = @ + 1]
    /\ UNCHANGED mailConfig

\* The answer is lost although the message was taken, or QUIT is refused.
BreaksAfterwards ==
    /\ \/ reply.at = "quit" /\ replied' = [replied EXCEPT !.regretted = @ + 1]
       \/ reply.at = "data" /\ replied' = [replied EXCEPT !.accepted = @ + 1, !.regretted = @ + 1]
    /\ reply' = NoReply
    /\ UNCHANGED mailConfig

\* The receiver only logs; the handler audits, if it can, and answers 202.
Quit ==
    /\ reply.at = "quit"
    /\ reply' = NoReply
    /\ \E audit \in IF reply.asker = "http" THEN 0..1 ELSE {0} :
         replied' = [replied EXCEPT !.told = @ + 1, !.audited = @ + audit]
    /\ UNCHANGED mailConfig

RestartMail ==
    /\ reply.at # "idle"
    /\ reply' = NoReply
    /\ replied' = IF reply.at = "quit" THEN [replied EXCEPT !.regretted = @ + 1] ELSE replied
    /\ UNCHANGED mailConfig

MailNext ==
    \/ \E asker \in {"http", "imap"}, valid \in BOOLEAN : AskReply(asker, valid)
    \/ Connect \/ StartTLS \/ Auth \/ AuthFails \/ Envelope \/ CloseData \/ Quit
    \/ \E offers \in BOOLEAN : Greet(offers)
    \/ \E from \in {"connect", "greeting", "tls", "envelope", "data"} : Fails(from)
    \/ BreaksAfterwards

-----------------------------------------------------------------------------
\* Who is told that an answer went out, and every line of the audit log, has
\* a message the mail server took; one it took that nobody was told of broke
\* after the last byte (email.go, SendEmailReply; handleReplySubmission).
RepliesAreAccounted ==
    /\ replied.audited <= replied.told
    /\ replied.accepted = replied.told + replied.regretted + (IF reply.at = "quit" THEN 1 ELSE 0)
=============================================================================
