----------------------------- MODULE MailParser ------------------------------
(***************************************************************************)
(* internal/parse: a document of one of five kinds becomes a mail or is    *)
(* refused.  A message is walked part by part (walkBody), one step for     *)
(* each call of it, under limits on the nesting, on the parts of the whole *)
(* message and on what one part holds.  What a part says is its name, the  *)
(* links it carries and the entries of an archive; redirects of shortened  *)
(* links, which only annotate them, are left out.                          *)
(***************************************************************************)
EXTENDS Naturals, FiniteSets, Sequences, SequencesExt

CONSTANTS
    Documents,         \* [kind, readable, big, headed, body, streams]
    Bodies,            \* their bodies, and whatever parts are found in them
    MaxDepth, MaxParts, MaxLinks, MaxArchiveNames,   \* Limits
    Unfollowed         \* links that lead nowhere: mailto:, tel:, fragments

ASSUME LimitsAssumption ==
    {MaxDepth, MaxParts, MaxLinks, MaxArchiveNames} \subseteq Nat \ {0}

ASSUME BodiesAssumption ==
    /\ {d.body : d \in Documents} \cup UNION {Range(p.children) : p \in Bodies} \subseteq Bodies
    /\ \A p \in Bodies :
           /\ p.type \in {"text", "html", "image", "other", "message", "multipart"}
           /\ p.type \notin {"message", "multipart"} => p.children = <<>>
           /\ p.children \in Seq(Range(p.children))
           /\ p.hrefs \in Seq(Range(p.hrefs)) /\ p.shown \in Seq(Range(p.shown))

VARIABLES
    document,
    ocr,               \* what reads images: "none", or one that "answers" or "fails"
    agenda,            \* the parts still to be walked, with their depths
    parts,             \* the parts counted so far
    found,             \* what the mail holds
    links,             \* its links, once it is finished
    parsed             \* "no", "walking", or how the parse ended

parserVars == <<document, ocr, agenda, parts, found, links, parsed>>

Nothing == [text |-> <<>>, html |-> <<>>, images |-> <<>>, attachments |-> <<>>]

ParserInit ==
    /\ document \in Documents
    /\ ocr \in IF document.kind = "image" THEN {"none", "answers", "fails"} ELSE {"none"}
    /\ agenda = <<>> /\ parts = 0
    /\ found = Nothing /\ links = <<>>
    /\ parsed = "no"

-----------------------------------------------------------------------------
FirstOf(n, s) == SubSeq(s, 1, IF Len(s) < n THEN Len(s) ELSE n)

\* An archive's names, as far as they are listed, and whether it is sealed.
ListZip(entries) ==
    LET names == FirstOf(MaxArchiveNames, entries)
    IN  [nested |-> Len(names), sealed |-> "sealed" \in Range(names)]

\* Directories are passed over, and only the first file is tried.
List7z(entries) ==
    LET files == SelectSeq(entries, LAMBDA e : e # "dir")
    IN  IF files # <<>> /\ files[1] = "sealed"
        THEN [nested |-> 1, sealed |-> TRUE]
        ELSE [nested |-> Len(FirstOf(MaxArchiveNames, files)), sealed |-> FALSE]

\* An office document keeps no names, only whether a macro is among them.
AttachmentFrom(part) ==
    LET listing == IF part.format = "zip" THEN ListZip(part.entries)
                   ELSE IF part.format = "7z" THEN List7z(part.entries)
                   ELSE [nested |-> 0, sealed |-> FALSE]
    IN  [name |-> part.name, nested |-> listing.nested, sealed |-> listing.sealed,
         macro |-> /\ part.format = "office"
                   /\ "macro" \in Range(FirstOf(MaxArchiveNames, part.entries))]

\* The leaf of a message goes where its type and disposition say.  A type
\* of "other" is one that is neither a text nor an image.
IsAttachment(part) == part.attached \/ part.type \in {"other", "message"}

Keep(f, part) ==
    IF IsAttachment(part) THEN [f EXCEPT !.attachments = Append(@, AttachmentFrom(part))]
    ELSE IF part.type = "image" THEN [f EXCEPT !.images = Append(@, part.name)]
    ELSE IF part.blank THEN f
    ELSE [f EXCEPT ![part.type] = Append(@, part)]

\* The links of a mail: each once, those that lead nowhere left out, up to a
\* limit.
ClassifyLinks(from) ==
    LET kept[i \in 0..Len(from)] ==
            IF i = 0 THEN <<>>
            ELSE LET before == kept[i - 1] IN
                 IF Len(before) >= MaxLinks \/ from[i] \in Unfollowed \cup Range(before)
                 THEN before ELSE Append(before, from[i])
    IN  kept[Len(from)]

Concat(seqs) ==
    LET all[i \in 0..Len(seqs)] == IF i = 0 THEN <<>> ELSE all[i - 1] \o seqs[i]
    IN  all[Len(seqs)]
HrefsOf(pieces) == Concat([i \in DOMAIN pieces |-> pieces[i].hrefs])
ShownIn(pieces) == Concat([i \in DOMAIN pieces |-> pieces[i].shown])

\* finish: the links of the HTML, then the addresses its text shows, or the
\* plain text where the mail has one.
LinksOf(f) ==
    HrefsOf(f.html) \o (IF f.text # <<>> THEN ShownIn(f.text) ELSE ShownIn(f.html))

Ends(how, f, from) ==
    /\ parsed' = how
    /\ found' = f
    /\ links' = ClassifyLinks(from)
    /\ agenda' = <<>>
    /\ UNCHANGED <<document, ocr, parts>>

Refuses == Ends("refused", Nothing, <<>>)

-----------------------------------------------------------------------------
\* Empty input, a kind nobody knows, a header, a signature or a page that
\* cannot be read, or a document that is too big as a whole.
RefuseDocument ==
    /\ parsed = "no"
    /\ \/ document.kind \in {"empty", "unknown"}
       \/ document.kind \in {"eml", "msg", "image", "pdf"} /\ ~document.readable
       \/ document.kind \in {"image", "pdf"} /\ document.big
    /\ Refuses

\* EML, and text that carries the headers of a message.
OpenMessage ==
    /\ parsed = "no"
    /\ document.kind = "eml" \/ (document.kind = "text" /\ document.headed)
    /\ document.readable
    /\ agenda' = <<[part |-> document.body, depth |-> 0]>>
    /\ parsed' = "walking"
    /\ UNCHANGED <<document, ocr, parts, found, links>>

\* Text that is no message, or one that was refused, is taken as it stands.
AsText == Ends("accepted", [Nothing EXCEPT !.text = <<document.body>>], document.body.shown)

ReadText ==
    /\ parsed = "no"
    /\ document.kind = "text" /\ ~(document.headed /\ document.readable)
    /\ AsText

\* MSG: a stream that is too big or cannot be read refuses the message; the
\* attachments come in the order of a Go map, those without content are
\* passed over.
ReadOutlook ==
    /\ parsed = "no"
    /\ document.kind = "msg" /\ document.readable
    /\ LET Of(type) == {s \in document.streams : s.type = type /\ ~s.blank}
           body(type) == SetToSeq(Of(type))
       IN  IF \E s \in document.streams : s.big \/ s.garbled
           THEN Refuses
           ELSE \E order \in SetToSeqs(Of("other")) :
                    LET f == [text |-> body("text"), html |-> body("html"), images |-> <<>>,
                              attachments |-> [i \in DOMAIN order |-> AttachmentFrom(order[i])]]
                    IN  Ends("accepted", f, LinksOf(f))

\* Without OCR the analysis goes on without the text of the picture; one that
\* fails, or pixels that it cannot be given, refuse it.  A QR code is a link.
ReadImage ==
    /\ parsed = "no"
    /\ document.kind = "image" /\ document.readable /\ ~document.big
    /\ LET code    == IF document.body.garbled THEN <<>> ELSE document.body.hrefs
           picture == [Nothing EXCEPT !.images = <<document.body.name>>]
       IN  \/ ocr = "none" /\ Ends("degraded", picture, code)
           \/ ocr # "none" /\ (document.body.garbled \/ ocr = "fails") /\ Refuses
           \/ /\ ocr = "answers" /\ ~document.body.garbled
              /\ Ends("accepted", [picture EXCEPT !.text = <<document.body>>],
                      code \o document.body.shown)

\* The first addresses found, repeated ones among them, and then the text.
ReadPDF ==
    /\ parsed = "no"
    /\ document.kind = "pdf" /\ document.readable /\ ~document.big
    /\ Ends("accepted", [Nothing EXCEPT !.text = <<document.body>>],
            FirstOf(MaxLinks, document.body.hrefs) \o document.body.shown)

-----------------------------------------------------------------------------
Part == Head(agenda).part
Depth == Head(agenda).depth

Multipart == Part.type = "multipart"
Forwarded == Part.type = "message" /\ ~Part.attached /\ Part.children # <<>>

\* What makes walkBody return an error, and every call above it.
Exceeds ==
    \/ Depth > MaxDepth
    \/ parts + 1 > MaxParts
    \/ ~Multipart /\ (Part.big \/ Part.garbled)

Walking == parsed = "walking" /\ agenda # <<>>

\* Text() falls back where EML() returns an error.
RefusePart ==
    /\ Walking /\ Exceeds
    /\ IF document.kind = "text" THEN AsText ELSE Refuses

\* Fault: what a forwarded message holds is counted from the top again.
AtTheTop == [i \in DOMAIN Part.children |-> [part |-> Part.children[i], depth |-> 0]]

\* The parts of a multipart (as far as they can be read: a truncated one ends
\* early, one without boundary has none), or the message that was forwarded.
OneDeeper == [i \in DOMAIN Part.children |-> [part |-> Part.children[i], depth |-> Depth + 1]]

OpenPart ==
    /\ Walking /\ ~Exceeds
    /\ Multipart \/ Forwarded
    /\ agenda' = OneDeeper \o Tail(agenda)
    /\ parts' = parts + 1
    /\ UNCHANGED <<document, ocr, found, links, parsed>>

KeepPart ==
    /\ Walking /\ ~Exceeds
    /\ ~Multipart /\ ~Forwarded
    /\ found' = Keep(found, Part)
    /\ agenda' = Tail(agenda)
    /\ parts' = parts + 1
    /\ UNCHANGED <<document, ocr, links, parsed>>

Finish ==
    /\ parsed = "walking" /\ agenda = <<>>
    /\ Ends("accepted", found, LinksOf(found))

ParserNext ==
    \/ RefuseDocument \/ OpenMessage \/ ReadText \/ ReadOutlook \/ ReadImage \/ ReadPDF
    \/ RefusePart \/ OpenPart \/ KeepPart \/ Finish

ParserOver == parsed \in {"accepted", "degraded", "refused"}
-----------------------------------------------------------------------------
(* What the walk is compared with.                                          *)

\* The places of parts, down to the first that lies too deep.
Places == [part : Bodies, depth : 0..MaxDepth + 1]

\* The parts from this one downward, in the order of the message.
Below[n \in Places] ==
    <<n>> \o
        IF n.depth > MaxDepth \/ (n.part.type = "message" /\ n.part.attached) THEN <<>>
        ELSE Concat([i \in DOMAIN n.part.children |->
                        Below[[part |-> n.part.children[i], depth |-> n.depth + 1]]])

PartsOf(body) == Below[[part |-> body, depth |-> 0]]

\* A part within its limits: of depth, and of the size of a leaf.
IsFine(n) ==
    n.depth <= MaxDepth /\ (n.part.type # "multipart" => ~n.part.big /\ ~n.part.garbled)

WithinLimits(body) ==
    /\ Len(PartsOf(body)) <= MaxParts
    /\ \A i \in DOMAIN PartsOf(body) : IsFine(PartsOf(body)[i])

Inner(part) ==
    \/ part.type = "multipart"
    \/ part.type = "message" /\ ~part.attached /\ part.children # <<>>

\* A leaf that is not blank text.
IsLeaf(part) == ~Inner(part) /\ (IsAttachment(part) \/ part.type = "image" \/ ~part.blank)

\* Where they are among these parts.
Leaves(all) == {i \in DOMAIN all : IsLeaf(all[i].part)}

NamesOf(pieces) == {pieces[i].name : i \in DOMAIN pieces}

NamesIn(f) ==
    NamesOf(f.text) \cup NamesOf(f.html) \cup Range(f.images) \cup NamesOf(f.attachments)

SizeOf(f) == Len(f.text) + Len(f.html) + Len(f.images) + Len(f.attachments)

\* Every leaf of these parts is in the mail, once.
Holds(f, all) ==
    /\ NamesIn(f) = {all[i].part.name : i \in Leaves(all)}
    /\ SizeOf(f) = Cardinality(Leaves(all))

IsMessage == document.kind = "eml" \/ (document.kind = "text" /\ document.headed)

\* A message is refused exactly when it exceeds a limit ("MIME parts total",
\* "multipart nesting", parse.go:31), wherever forwarded messages and nested
\* parts put the excess; otherwise every leaf is in the mail once, also after
\* a part that was truncated (eml.go, walkBody).
MessagesAreWhole ==
    ParserOver /\ IsMessage /\ document.readable =>
        LET within == WithinLimits(document.body) IN
        /\ document.kind = "eml" => (parsed = "refused" <=> ~within)
        /\ within => Holds(found, PartsOf(document.body))

\* Links are dropped only as repetitions, as leading nowhere, or for the
\* limit, and none appears that the mail does not show (links.go).
LinksAreThoseShown ==
    parsed = "accepted" /\ IsMessage =>
        LET shown == Range(LinksOf(found)) \ Unfollowed
        IN  /\ Range(links) \subseteq shown
            /\ Cardinality(Range(links)) = Len(links) /\ Len(links) <= MaxLinks
            /\ Len(links) < MaxLinks => Range(links) = shown

\* The parser gives the whole message or refuses it (the two conditions above).
ParsedIsWhole == MessagesAreWhole /\ LinksAreThoseShown
==============================================================================
