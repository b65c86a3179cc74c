------------------------------- MODULE Brands -------------------------------
(***************************************************************************)
(* The brands messages are matched with: the list in memory (Matcher), the *)
(* table of custom brands, the requests and commands that add to them, the *)
(* start that fills the list again, and messages being matched while the   *)
(* list changes.  Matcher's lock covers one look at the list, not a whole  *)
(* match.                                                                  *)
(***************************************************************************)
EXTENDS BrandMatch

CONSTANTS
    BuiltIn,        \* the brands of brands.yaml, in their order
    NoOrg,          \* the organisation of the built-in brands and of admins
    Tenants,        \* the other organisations
    Offers,         \* brands that requests offer; "spelled" is the name as given
    Mails,          \* messages: [from, links, images, words]
    Adders,         \* requests that add a brand at the same time
    MaxBrandSteps   \* bound: adds, restarts and failures together

ASSUME BrandAssumption ==
    /\ NoOrg \notin Tenants /\ MaxBrandSteps \in Nat /\ Mails # {}
    /\ BuiltIn \in Seq(ToSet(BuiltIn))
    /\ \A m \in Mails : m.links \in Seq(DOMAIN Hosts)

VARIABLES
    list,           \* Matcher.brands
    brandRows,      \* the table, in the order of names
    adding,         \* adder -> its request
    matching,       \* the match under way or done last
    brandSteps,
    unfollowed      \* (ghost) <<org, name>> the list need not hold as stored

brandVars == <<list, brandRows, adding, matching, brandSteps, unfollowed>>

-----------------------------------------------------------------------------
SameBrand(b, c) == b.name = c.name /\ b.org = c.org

\* Fault: the organisation is not compared.
AddAnyOrg(brands, b) ==
    LET at == {i \in DOMAIN brands : brands[i].name = b.name} IN
    IF at = {} THEN Append(brands, b) ELSE [brands EXCEPT ![Min(at)] = b]

\* Matcher.Add: names are compared without case and surrounding space.
Add(brands, b) ==
    LET at == {i \in DOMAIN brands : SameBrand(brands[i], b)} IN
    IF at = {} THEN Append(brands, b) ELSE [brands EXCEPT ![Min(at)] = b]

AddAll(brands, more) ==
    LET upTo[n \in 0..Len(more)] == IF n = 0 THEN brands ELSE Add(upTo[n - 1], more[n])
    IN  upTo[Len(more)]

\* AddBrand upserts on the organisation and the name as it was spelled.
AddBrand(rows, b) ==
    {r \in rows : ~(r.org = b.org /\ r.spelled = b.spelled)} \cup {b}

\* ListBrands in the order of names, and in any order under one name.
ListBrands(rows, org) ==
    LET found == {r \in rows : r.org \in {org, NoOrg}} IN
    {s \in [1..Cardinality(found) -> found] :
        /\ ToSet(s) = found
        /\ \A i, j \in DOMAIN s : i < j => s[i].rank <= s[j].rank}

BrandKey(b) == <<b.org, b.name>>

NoMatch == [mail |-> CHOOSE m \in Mails : TRUE, at |-> 0, found |-> NoBrand,
            official |-> FALSE, locale |-> "", owner |-> {}, always |-> {}]

BrandsInit ==
    /\ list = AddAll(<<>>, BuiltIn)
    /\ brandRows = {}
    /\ adding = [a \in Adders |-> [at |-> "idle", brand |-> CHOOSE o \in Offers : TRUE]]
    /\ matching = NoMatch
    /\ brandSteps = 0
    /\ unfollowed = {}

BrandStep == brandSteps < MaxBrandSteps /\ brandSteps' = brandSteps + 1

\* (ghost) Who owned the sender's domain at some time, and all the time.
OwnersNow(l) == {l[i] : i \in Owners(l, matching.mail.from)}

NoteOwners(l) ==
    matching' = IF matching.at = 0 THEN matching
                ELSE [matching EXCEPT !.owner = @ \cup OwnersNow(l),
                                      !.always = @ \cap OwnersNow(l)]

-----------------------------------------------------------------------------
(* handleAddBrand: the row, its audit (ignored), then the list in memory.   *)

Busy(key) == {a \in Adders : adding[a].at # "idle" /\ BrandKey(adding[a].brand) = key}

StoreBrand(a, offer, org) ==
    LET b == [offer EXCEPT !.org = org] IN
    /\ BrandStep
    /\ adding[a].at = "idle"
    /\ adding' = [adding EXCEPT ![a] = [at |-> "add", brand |-> b]]
    /\ brandRows' = AddBrand(brandRows, b)
    /\ unfollowed' = IF Busy(BrandKey(b)) # {}
                          \/ \E r \in brandRows : SameBrand(r, b) /\ r.spelled # b.spelled
                     THEN unfollowed \cup {BrandKey(b)} ELSE unfollowed \ {BrandKey(b)}
    /\ UNCHANGED <<list, matching>>

\* A row that cannot be stored is not added to the list either: 500.
StoreBrandFails(a) ==
    /\ BrandStep
    /\ adding[a].at = "idle"
    /\ UNCHANGED <<list, brandRows, adding, matching, unfollowed>>

AddToList(a) ==
    /\ adding[a].at = "add"
    /\ list' = Add(list, adding[a].brand)
    /\ adding' = [adding EXCEPT ![a].at = "idle"]
    /\ NoteOwners(list')
    /\ UNCHANGED <<brandRows, brandSteps, unfollowed>>

\* phishlens brands add writes the table of a service that does not look.
AddFromCLI(offer, org) ==
    LET b == [offer EXCEPT !.org = org] IN
    /\ BrandStep
    /\ brandRows' = AddBrand(brandRows, b)
    /\ unfollowed' = unfollowed \cup {BrandKey(b)}
    /\ UNCHANGED <<list, adding, matching>>

\* New: brands.yaml, then the custom brands of no organisation; an error
\* leaves them out without a word.
RestartBrands ==
    /\ BrandStep
    /\ \/ /\ \E stored \in ListBrands(brandRows, NoOrg) :
               list' = AddAll(AddAll(<<>>, BuiltIn), stored)
          /\ unfollowed' = {BrandKey(r) : r \in {x \in brandRows :
                \/ x.org # NoOrg
                \/ \E y \in brandRows : SameBrand(x, y) /\ x.spelled # y.spelled}}
       \/ /\ list' = AddAll(<<>>, BuiltIn)
          /\ unfollowed' = {BrandKey(r) : r \in brandRows}
    /\ adding' = [a \in Adders |-> [adding[a] EXCEPT !.at = "idle"]]
    /\ matching' = NoMatch
    /\ UNCHANGED brandRows

-----------------------------------------------------------------------------
(* Matcher.Match: one look at a time; at = 0 when nothing is under way.     *)

StartMatch(mail) ==
    /\ matching.at = 0
    /\ matching' = [NoMatch EXCEPT !.mail = mail, !.at = 1,
                        !.owner = {list[i] : i \in Owners(list, mail.from)},
                        !.always = {list[i] : i \in Owners(list, mail.from)}]
    /\ UNCHANGED <<list, brandRows, adding, brandSteps, unfollowed>>

Looking == matching.at \in DOMAIN Places(matching.mail) /\ matching.found = NoBrand

Look ==
    /\ Looking
    /\ LET seen == LookAt(list, matching.mail, Places(matching.mail)[matching.at]) IN
       matching' = [matching EXCEPT !.found = seen, !.at = IF seen = NoBrand THEN @ + 1 ELSE @]
    /\ UNCHANGED <<list, brandRows, adding, brandSteps, unfollowed>>

\* Locale and IsOfficial look the name up again: of the sender's match only
\* the locale, its official is what MatchDomain said.
Describe ==
    /\ matching.found # NoBrand /\ matching.at \in DOMAIN Places(matching.mail)
    /\ LET kind == Places(matching.mail)[matching.at].kind
           seen == matching.found
       IN  matching' = [matching EXCEPT !.at = 0, !.locale = Locale(list, seen.name),
               !.official = IF kind = "sender" THEN seen.method = "domain"
                            ELSE IsOfficial(list, seen.name, matching.mail.from),
               !.found = IF kind = "link" THEN [seen EXCEPT !.method = "link_" \o @] ELSE seen]
    /\ UNCHANGED <<list, brandRows, adding, brandSteps, unfollowed>>

NothingMatches ==
    /\ matching.at = Len(Places(matching.mail)) + 1
    /\ matching' = [matching EXCEPT !.at = 0]
    /\ UNCHANGED <<list, brandRows, adding, brandSteps, unfollowed>>

BrandsNext ==
    \/ \E a \in Adders, offer \in Offers, org \in Tenants \cup {NoOrg} : StoreBrand(a, offer, org)
    \/ \E a \in Adders : StoreBrandFails(a) \/ AddToList(a)
    \/ \E offer \in Offers, org \in Tenants \cup {NoOrg} : AddFromCLI(offer, org)
    \/ RestartBrands
    \/ \E mail \in Mails : StartMatch(mail)
    \/ Look \/ Describe \/ NothingMatches

-----------------------------------------------------------------------------
\* The list in memory holds a stored brand as the table has it, once the
\* request that stored it is over; not promised for a brand added from the
\* command line, an organisation's brand after a restart, one name spelled
\* in two ways, and two requests for one name at once (handleAddBrand, New,
\* Matcher.Add).
MatcherFollowsTable ==
    \A r \in brandRows :
        \/ BrandKey(r) \in unfollowed
        \/ Busy(BrandKey(r)) # {}
        \/ \E i \in DOMAIN list : list[i] = r

Done == matching.at = 0 /\ matching.found # NoBrand

\* Whatever is added meanwhile, a message from a domain some brand owns all
\* the time is matched as official, and one matched as official is from a
\* domain a brand of that name owned while it was looked at (Matcher.Match).
OfficialMeansOwner ==
    /\ matching.at = 0 /\ matching.always # {} => Done /\ matching.official
    /\ Done /\ matching.official => \E b \in matching.owner : b.name = matching.found.name
=============================================================================
