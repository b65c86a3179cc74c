----------------------------- MODULE MCPipeline ------------------------------
(***************************************************************************)
(* A small registry with one check of every kind, weights and confidences  *)
(* as the checks and data/weights.yaml give them; and the documents that   *)
(* small limits tell apart: messages of up to two parts on each of three   *)
(* levels, forwarded or not, and one of each other kind and trouble.       *)
(***************************************************************************)
EXTENDS AnalyzeRequest, TLC

Sig(weight, confidence, category, source) ==
    [weight |-> weight, confidence |-> confidence, category |-> category, source |-> source]

\* Two or more highlighted spans give the model's opinion confidence 1.
MCCatalog ==
    "attachment.virustotal"     :> Sig(35, 95, "attachment", "heuristic") @@
    "auth.aligned_official"     :> Sig(-40, 100, "auth", "heuristic") @@
    "auth.dmarc_fail"           :> Sig(25, 95, "auth", "heuristic") @@
    "header.received_ip_listed" :> Sig(30, 90, "header", "ti") @@
    "reputation.domain_age"     :> Sig(25, 90, "reputation", "dns") @@
    "reputation.domain_listed"  :> Sig(40, 100, "reputation", "ti") @@
    "reputation.ip_listed"      :> Sig(30, 90, "reputation", "dns") @@
    "reputation.org_blocklist"  :> Sig(100, 100, "reputation", "heuristic") @@
    "reputation.org_allowlist"  :> Sig(-30, 100, "reputation", "heuristic") @@
    "semantic.llm_phishing"     :> Sig(25, 100, "semantic", "llm") @@
    "semantic.llm_suspicious"   :> Sig(10, 100, "semantic", "llm") @@
    "semantic.llm_clean"        :> Sig(-15, 100, "semantic", "llm")

\* An organisation's table that trusts the feeds less than the checks do.
MCWeights == "reputation.domain_listed" :> 5

MCThresholds == [phishing |-> 70, suspicious |-> 40]

MCHeuristics == <<"attachment.virustotal", "auth.aligned_official", "auth.dmarc_fail",
                  "header.received_ip_listed">>

MCItems == [c \in {"attachment.virustotal", "auth.aligned_official", "auth.dmarc_fail",
                   "reputation.domain_age", "reputation.ip_listed"} |-> 1]
           @@ "header.received_ip_listed" :> 2
           @@ "reputation.domain_listed" :> 2
           @@ "reputation.org_blocklist" :> 2

Having(id, items) == {[id |-> id, item |-> n] : n \in items}

\* What the local checks, the feeds and the organisation's lists may say of a
\* message: a sender aligned with the brand passed DMARC, and a domain is
\* young only where its host is listed.
MCMails ==
    {locals \cup feeds \cup lists :
        locals \in {{}, Having("auth.aligned_official", {1}),
                    Having("attachment.virustotal", {1}) \cup Having("auth.dmarc_fail", {1})
                        \cup Having("header.received_ip_listed", {1, 2})},
        feeds \in {{}, Having("reputation.ip_listed", {1}),
                   Having("reputation.domain_listed", {1}) \cup Having("reputation.ip_listed", {1}),
                   Having("reputation.domain_listed", {1, 2})
                       \cup Having("reputation.domain_age", {1})},
        lists \in {{}, Having("reputation.org_allowlist", {2}),
                   Having("reputation.org_blocklist", {1})
                       \cup Having("reputation.org_allowlist", {2})}}

-----------------------------------------------------------------------------
Leaf(type, name) ==
    [type |-> type, name |-> name, attached |-> FALSE, big |-> FALSE, garbled |-> FALSE,
     blank |-> FALSE, format |-> "none", entries |-> <<>>, children |-> <<>>,
     hrefs |-> <<>>, shown |-> <<>>]

Text == [Leaf("text", "text") EXCEPT !.shown = <<"a", "b">>]
Html == [Leaf("html", "html") EXCEPT !.hrefs = <<"mailto", "c", "a">>, !.shown = <<"b">>]
Archive == [Leaf("other", "zip") EXCEPT !.format = "zip", !.entries = <<"dir", "file", "sealed">>]
Blank == [Leaf("text", "blank") EXCEPT !.blank = TRUE]
Large == [Leaf("text", "large") EXCEPT !.big = TRUE]
Image == Leaf("image", "image")
Unread == Leaf("message", "unread")

Multi(children) == [Leaf("multipart", "multi") EXCEPT !.children = children]
Forward(part) == [Leaf("message", "forward") EXCEPT !.children = <<part>>]
AttachedForward(part) == [Forward(part) EXCEPT !.attached = TRUE]

Pairs(S) == {<<>>} \cup {<<x>> : x \in S} \cup (S \X S)

Level0 == {Text, Html, Archive, Large}
Level1 == Level0 \cup {Multi(c) : c \in Pairs(Level0)} \cup {Forward(p) : p \in Level0}
Level2 == {Multi(c) : c \in Pairs(Level1)} \cup {Forward(p) : p \in Level1}
Level3 == {Multi(<<p>>) : p \in {Multi(<<q>>) : q \in Level1} \cup {Forward(q) : q \in Level1}}

Others == {Blank, Image, Unread, AttachedForward(Large), [Text EXCEPT !.attached = TRUE],
           [Html EXCEPT !.garbled = TRUE],
           [Archive EXCEPT !.format = "7z", !.entries = <<"dir", "sealed">>],
           [Archive EXCEPT !.format = "7z", !.entries = <<"file", "sealed", "file">>],
           [Archive EXCEPT !.format = "office", !.entries = <<"file", "macro">>]}

Document(kind, body) ==
    [kind |-> kind, readable |-> TRUE, big |-> FALSE, headed |-> TRUE, body |-> body,
     streams |-> {}]

MCPlain == Document("eml", Text)

Outlook(streams) == [Document("msg", Blank) EXCEPT !.streams = streams]

Picture == [Image EXCEPT !.hrefs = <<"a">>, !.shown = <<"a", "b">>]
Pages == [Text EXCEPT !.hrefs = <<"c", "c", "a">>]

MCDocuments ==
    {Document("eml", b) : b \in Level1 \cup Level2 \cup Level3}
    \cup {Document("eml", Multi(<<Html, p>>)) : p \in Others}
    \cup {Document("text", b) : b \in Level1 \cup Level3}
    \cup {[Document("text", Text) EXCEPT !.headed = FALSE], Document("empty", Text),
           Document("unknown", Text), Outlook({}), Outlook({Text, Html, Archive, Leaf("other", "pdf")}),
           Outlook({Html, Blank}), Outlook({Text, Large}), Document("image", Picture),
           Document("image", [Picture EXCEPT !.garbled = TRUE]), Document("pdf", Pages)}
    \cup {[Document(k, Picture) EXCEPT !.readable = FALSE] : k \in {"eml", "text", "msg", "image", "pdf"}}
    \cup {[Document(k, Picture) EXCEPT !.big = TRUE] : k \in {"image", "pdf"}}

MCBodies ==
    {d.body : d \in MCDocuments} \cup Level1 \cup Level2 \cup Others
    \cup UNION {Range(p.children) : p \in Others}
==============================================================================
