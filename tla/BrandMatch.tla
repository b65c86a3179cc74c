----------------------------- MODULE BrandMatch -----------------------------
(***************************************************************************)
(* How a message is matched with a brand (internal/brands/brands.go and    *)
(* internal/similarity), as functions of the list of brands.  A domain, a  *)
(* keyword, a logo or a colour is a value; only the two words whose edit   *)
(* distance decides are sequences of letters.  A score is a fraction       *)
(* <<n, d>>.                                                               *)
(***************************************************************************)
EXTENDS Naturals, Sequences, SequencesExt, FiniteSetsExt

CONSTANTS
    Hosts,           \* host -> [under, labels, sld, disguised]
    Sld,             \* a brand's domain -> the word before its public suffix
    StopLabels,      \* words too common to stand for a brand
    HashDistance,    \* <<image hash, logo hash>> -> distance, where both parse
    ColourDistance   \* <<colour, colour>> -> distance, where both parse

-----------------------------------------------------------------------------
(* DamerauLevenshtein: optimal string alignment, row by row.                *)

Least(S) == CHOOSE n \in S : \A k \in S : n <= k

\* Fault: the transposition reads the diagonal neighbour.
CellOneBack(d, a, b, i, j) ==
    LET cost == IF a[i] = b[j] THEN 0 ELSE 1
        crossed == i > 1 /\ j > 1 /\ a[i] = b[j - 1] /\ a[i - 1] = b[j]
    IN  Least({d[<<i - 1, j>>] + 1, d[<<i, j - 1>>] + 1, d[<<i - 1, j - 1>>] + cost}
              \cup IF crossed THEN {d[<<i - 1, j - 1>>]} ELSE {})

Cell(d, a, b, i, j) ==
    LET cost == IF a[i] = b[j] THEN 0 ELSE 1
        crossed == i > 1 /\ j > 1 /\ a[i] = b[j - 1] /\ a[i - 1] = b[j]
    IN  Least({d[<<i - 1, j>>] + 1, d[<<i, j - 1>>] + 1, d[<<i - 1, j - 1>>] + cost}
              \cup IF crossed THEN {d[<<i - 2, j - 2>>] + 1} ELSE {})

DamerauLevenshtein(a, b) ==
    LET d[at \in (0..Len(a)) \X (0..Len(b))] ==
            IF at[1] = 0 THEN at[2] ELSE IF at[2] = 0 THEN at[1]
            ELSE Cell(d, a, b, at[1], at[2])
    IN  d[<<Len(a), Len(b)>>]

-----------------------------------------------------------------------------
(* Candidates are met in the order of the loops, and only a strictly higher *)
(* score replaces the best one so far: the first of the highest is kept.    *)

NoBrand == [name |-> "", method |-> "", score |-> <<0, 1>>]

Candidate(b, method, score) == [name |-> b.name, method |-> method, score |-> score]

Each(seq, Of(_)) ==
    LET upTo[n \in 0..Len(seq)] == IF n = 0 THEN <<>> ELSE upTo[n - 1] \o Of(seq[n])
    IN  upTo[Len(seq)]

Higher(s, t) == s[1] * t[2] > t[1] * s[2]

Highest(candidates) ==
    {c \in candidates : c.score[1] > 0 /\ \A d \in candidates : ~Higher(d.score, c.score)}

BestOf(candidates) ==
    LET best == Highest(ToSet(candidates))
        at == {i \in DOMAIN candidates : candidates[i] \in best}
    IN  IF at = {} THEN NoBrand ELSE candidates[Min(at)]

-----------------------------------------------------------------------------
(* Matcher.MatchDomain.                                                     *)

Owns(b, host) == Hosts[host].under \cap (b.domains \cup b.esp) # {}

Owners(list, host) == {i \in DOMAIN list : Owns(list[i], host)}

\* Words of the name and of the domains, of four letters or more.
Labels(b) ==
    {w \in b.words \cup {Sld[d] : d \in b.domains} : Len(w) >= 4 /\ w \notin StopLabels}

\* Short labels tolerate one edit, long ones two.
Tolerated(w) == IF Len(w) >= 8 THEN 2 ELSE 1

LookalikeBy(b, host, w) ==
    LET h == Hosts[host]
        edits == DamerauLevenshtein(h.sld, w)
        Method(plain) == IF h.disguised THEN "homoglyph" ELSE plain
    IN  IF w \in h.labels THEN Candidate(b, Method("typosquat"), <<95, 100>>)
        ELSE IF Len(h.sld) >= 5 /\ Len(w) >= 5 /\ edits \in 1..Tolerated(w)
             THEN Candidate(b, Method("domain_similarity"), <<Len(w) - edits, Len(w)>>)
             ELSE NoBrand

\* Between two words of one brand that score the same, only the method could
\* differ.
LookalikeOf(b, host) ==
    LET best == Highest({LookalikeBy(b, host, w) : w \in Labels(b)}) IN
    IF best = {} THEN NoBrand ELSE CHOOSE c \in best : TRUE

Lookalikes(list, host) == [i \in DOMAIN list |-> LookalikeOf(list[i], host)]

Official(b) == Candidate(b, "domain", <<1, 1>>)

\* Fault: resemblance is looked at before ownership.
MatchDomainResemblanceFirst(list, host) ==
    LET owners == Owners(list, host)
        best == BestOf(Lookalikes(list, host))
    IN  IF best = NoBrand /\ owners # {} THEN Official(list[Min(owners)]) ELSE best

MatchDomain(list, host) ==
    LET owners == Owners(list, host) IN
    IF owners # {} THEN Official(list[Min(owners)]) ELSE BestOf(Lookalikes(list, host))

-----------------------------------------------------------------------------
(* The other ways a message can point at a brand.                           *)

\* A hash or a colour that does not parse has no distance.
LogoCandidates(list, images) ==
    Each(images, LAMBDA img : Each(list, LAMBDA b :
        LET pair == <<img.hash, b.logo>> IN
        IF pair \in DOMAIN HashDistance /\ HashDistance[pair] <= 8
        THEN <<Candidate(b, "logo", <<64 - HashDistance[pair], 64>>)>> ELSE <<>>))

ColourCandidates(list, images) ==
    Each(images, LAMBDA img : Each(img.colours, LAMBDA seen : Each(list, LAMBDA b :
        Each(b.colours, LAMBDA expected :
            LET pair == <<seen, expected>> IN
            IF pair \in DOMAIN ColourDistance /\ ColourDistance[pair] <= 70
            THEN <<Candidate(b, "color", <<441 - ColourDistance[pair], 441>>)>> ELSE <<>>))))

\* The brand with the most keywords in the text; two are as good as more.
MatchText(list, words) ==
    LET best == BestOf([i \in DOMAIN list |->
            Candidate(list[i], "keyword", <<Cardinality(list[i].keywords \cap words), 1>>)])
    IN  IF best = NoBrand THEN NoBrand
        ELSE [best EXCEPT !.score = IF @[1] >= 2 THEN <<1, 1>> ELSE <<1, 2>>]

\* Get finds the first brand of a name.
Named(list, name) == {i \in DOMAIN list : list[i].name = name}

Get(list, name) == list[Min(Named(list, name))]

IsOfficial(list, name, host) == Named(list, name) # {} /\ Owns(Get(list, name), host)

Locale(list, name) == IF Named(list, name) = {} THEN "" ELSE Get(list, name).locale

\* The places of a message in the order Match looks at them.
Places(mail) ==
    <<[kind |-> "sender", host |-> mail.from]>>
    \o [i \in DOMAIN mail.links |-> [kind |-> "link", host |-> mail.links[i]]]
    \o [i \in 1..3 |-> [kind |-> <<"logo", "color", "keyword">>[i], host |-> mail.from]]

\* A link that is a brand's own is no lookalike.
LookAt(list, mail, place) ==
    LET domain == MatchDomain(list, place.host) IN
    CASE place.kind = "sender" -> domain
      [] place.kind = "link" -> IF domain.method = "domain" THEN NoBrand ELSE domain
      [] place.kind = "logo" -> BestOf(LogoCandidates(list, mail.images))
      [] place.kind = "color" -> BestOf(ColourCandidates(list, mail.images))
      [] place.kind = "keyword" -> MatchText(list, mail.words)

-----------------------------------------------------------------------------
(* What the functions promise, said without their loops.                    *)

\* The fewest operations that turn one word into the other, no letter being
\* edited twice: every way to cut both words into equal letters and edits.
Alignments(a, b) ==
    LET cost[at \in (0..Len(a)) \X (0..Len(b))] ==
        LET i == at[1]
            j == at[2]
            keep == IF i > 0 /\ j > 0 /\ a[i] = b[j] THEN cost[<<i - 1, j - 1>>] ELSE {}
            swap == IF i > 1 /\ j > 1 /\ SubSeq(a, i - 1, i) = Reverse(SubSeq(b, j - 1, j))
                    THEN cost[<<i - 2, j - 2>>] ELSE {}
            replace == IF i > 0 /\ j > 0 THEN cost[<<i - 1, j - 1>>] ELSE {}
            drop == IF i > 0 THEN cost[<<i - 1, j>>] ELSE {}
            add == IF j > 0 THEN cost[<<i, j - 1>>] ELSE {}
        IN IF i = 0 /\ j = 0 THEN {0}
           ELSE keep \cup {c + 1 : c \in swap \cup replace \cup drop \cup add}
    IN cost[<<Len(a), Len(b)>>]
=============================================================================
