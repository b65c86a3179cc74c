---------------------------- MODULE AnalyzeRequest ----------------------------
(***************************************************************************)
(* A request from the bytes it brings to its answer: the first stage of    *)
(* the analysis is the parse of the document, step by step, and the rest   *)
(* follows if it gave a mail (analyzer.go, Analyze).                       *)
(***************************************************************************)
EXTENDS AnalysisPipeline, MailParser

CONSTANT Plain         \* the document of the messages in Mails

ASSUME PlainAssumption == Plain \in Documents

requestVars == <<vars, parserVars>>

\* What is true of a message matters once it is parsed: the documents that
\* are of interest to the parser alone come with one message.
RequestInit ==
    /\ Init /\ ParserInit
    /\ document = Plain \/ (mail = {} /\ ~online /\ ~llm)

Parses ==
    /\ stage = "parse"
    /\ ParserNext
    /\ UNCHANGED vars

\* Analyze returns the error of the parse, and goes on from a mail, with a
\* warning if that lacks the text of its picture.
ParseWasReturned ==
    stage = "parse" =>
        /\ ParserOver
        /\ stage' = "refused" <=> parsed = "refused"
        /\ warnings' # {} <=> parsed = "degraded"

Analyses == Work /\ ParseWasReturned /\ UNCHANGED parserVars

Timeout == DeadlinePasses /\ UNCHANGED parserVars

RequestNext == Parses \/ Analyses \/ Timeout

\* The goroutine of the analysis parses as well.
RequestSpec == RequestInit /\ [][RequestNext]_requestVars /\ WF_requestVars(Parses \/ Analyses)
==============================================================================
