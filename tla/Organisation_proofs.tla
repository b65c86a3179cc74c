------------------------- MODULE Organisation_proofs -------------------------
(***************************************************************************)
(* Theorems about what organisations set up, for any number of them, of    *)
(* entries and brands, and of requests and analyses at the same time.      *)
(* ListsInv follows each load of a list from the table to the cache,       *)
(* TableInv each brand from its row to the list in memory, and MatchInv    *)
(* what a match under way may still find of the sender's owner.  The edit  *)
(* distance is the least cost of an alignment for words of every length.   *)
(***************************************************************************)
EXTENDS Organisation, NaturalsInduction, WellFoundedInduction, FiniteSetTheorems, TLAPS

-----------------------------------------------------------------------------
(* Smallest numbers, and induction. *)

LEMMA MinIsIn ==
    ASSUME NEW S \in SUBSET Nat, S # {}
    PROVE  Min(S) \in S /\ \A n \in S : Min(S) <= n
<1> DEFINE Less == {ss \in Nat \X Nat : ss[1] < ss[2]}
<1>1. PICK n \in S : \A m \in S : <<m, n>> \notin Less
  <2>1. IsWellFoundedOn(Less, Nat)
    BY NatLessThanWellFounded DEF OpToRel
  <2> HIDE DEF Less
  <2> QED
    BY <2>1, WFMin, Zenon
<1>2. ASSUME NEW m \in S  PROVE n <= m
  <2>1. m \in Nat /\ n \in Nat
    OBVIOUS
  <2>2. m < n => <<m, n>> \in Less
    BY <2>1
  <2> QED
    BY <1>1, <2>1, <2>2
<1> QED
  BY <1>1, <1>2 DEF Min

LEMMA Reaches ==
    ASSUME NEW S, 0 \in S, \A n \in Nat : n \in S => n + 1 \in S
    PROVE  Nat \subseteq S
<1> SUFFICES ASSUME Nat \ S # {}  PROVE FALSE
  OBVIOUS
<1> DEFINE n == Min(Nat \ S)
<1>1. n \in Nat \ S /\ \A m \in Nat \ S : n <= m
  BY MinIsIn
<1> HIDE DEF n
<1>2. n # 0 /\ n - 1 \in Nat
  BY <1>1
<1>3. n - 1 \in S
  BY <1>1, <1>2
<1> QED
  BY <1>1, <1>2, <1>3

-----------------------------------------------------------------------------
(* The lists.  A load under way holds a list that was in the table, and    *)
(* still is unless it failed or an edit passed it; the cache holds nothing *)
(* that was never listed, and what it holds agrees with the table, or an   *)
(* editor has yet to drop it, or nobody promised.                          *)

Loads ==
    [at : {"idle", "lookup", "store"}, org : Orgs \cup {Global}, kind : Kinds \cup {Quiet.kind},
     about : DOMAIN Forms \cup {Quiet.about}, values : SUBSET Values, failed : BOOLEAN,
     late : BOOLEAN, found : SUBSET Values]

LoadIsRight(r, now, ever) ==
    /\ r.at # "idle" => r.kind \in Kinds /\ r.about \in DOMAIN Forms
    /\ r.at = "lookup" => r.values = {}
    /\ r.at = "store" => /\ r.values \subseteq ListEntries(ever, r.org, r.kind)
                         /\ r.failed \/ r.late \/ r.values = ListEntries(now, r.org, r.kind)
    /\ r.found \subseteq ListEntries(ever, r.org, r.kind)

ListsInv ==
    /\ entries \subseteq everListed
    /\ asking \in [Analyses -> Loads]
    /\ \A a \in Analyses : LoadIsRight(asking[a], entries, everListed)
    /\ cache \in [Keys -> [held : BOOLEAN, values : SUBSET Values]]
    /\ \A k \in Keys : cache[k].values \subseteq ListEntries(everListed, k[1], k[2])
    /\ editing \in [Editors -> {"idle", "invalidate", "audit"}]
    /\ CacheAgreesWithTable

LEMMA ListsGrow ==
    ASSUME NEW S, NEW T, S \subseteq T, NEW org, NEW kind
    PROVE  ListEntries(S, org, kind) \subseteq ListEntries(T, org, kind)
BY DEF ListEntries

LEMMA ListsHoldValues ==
    ASSUME NEW S, NEW org, NEW kind
    PROVE  ListEntries(S, org, kind) \in SUBSET Values
BY DEF ListEntries

\* What matches a list is in it.
LEMMA MatchIsIn ==
    ASSUME NEW values \in SUBSET Values, NEW c \in DOMAIN Forms
    PROVE  Match(values, c) \subseteq values
<1> DEFINE hits == {i \in DOMAIN Forms[c] : Forms[c][i] \in values}
<1>1. hits \in SUBSET Nat
  BY ListAssumption
<1>2. CASE hits = {}
  BY <1>2 DEF Match
<1>3. CASE hits # {}
  <2>1. Min(hits) \in hits
    BY <1>1, <1>3, MinIsIn
  <2>2. Forms[c][Min(hits)] \in values
    BY <2>1
  <2>3. Match(values, c) = {Forms[c][Min(hits)]}
    BY <1>3 DEF Match
  <2> QED
    BY <2>2, <2>3
<1> QED
  BY <1>2, <1>3

LEMMA QuietIsALoad ==
    /\ Quiet \in Loads /\ Quiet.at = "idle" /\ Quiet.values = {} /\ Quiet.found = {}
    /\ ~Quiet.failed /\ ~Quiet.late
BY DEF Quiet, Loads

\* A load that stays right when others write to the table.
LEMMA LoadStaysRight ==
    ASSUME NEW r \in Loads, NEW now, NEW ever, NEW now2, NEW ever2,
           LoadIsRight(r, now, ever), ever \subseteq ever2,
           r.at = "store" => r.late \/ now2 = now
    PROVE  LoadIsRight(r, now2, ever2)
<1>1. ListEntries(ever, r.org, r.kind) \subseteq ListEntries(ever2, r.org, r.kind)
  BY ListsGrow
<1> QED
  BY <1>1 DEF LoadIsRight

\* One load goes on; the table is not written.
LEMMA OneLoadMoves ==
    ASSUME ListsInv, NEW a \in Analyses, NEW r \in Loads, asking' = [asking EXCEPT ![a] = r],
           LoadIsRight(r, entries, everListed), UNCHANGED <<entries, everListed>>
    PROVE  /\ asking' \in [Analyses -> Loads]
           /\ \A b \in Analyses : LoadIsRight(asking'[b], entries', everListed')
<1>1. asking' \in [Analyses -> Loads] /\ asking'[a] = r
      /\ \A b \in Analyses \ {a} : asking'[b] = asking[b]
  BY DEF ListsInv
<1>2. \A b \in Analyses : LoadIsRight(asking'[b], entries, everListed)
  BY <1>1 DEF ListsInv
<1> QED
  BY <1>1, <1>2

Answered(r, values) ==
    [r EXCEPT !.at = "idle", !.values = {}, !.failed = FALSE, !.late = FALSE,
              !.found = Match(values, r.about)]

LEMMA AnswerIsRight ==
    ASSUME ListsInv, NEW a \in Analyses, asking[a].at # "idle",
           NEW values \in SUBSET Values,
           values \subseteq ListEntries(everListed, asking[a].org, asking[a].kind),
           Answer(a, values), UNCHANGED <<entries, everListed>>
    PROVE  /\ asking' \in [Analyses -> Loads]
           /\ \A b \in Analyses : LoadIsRight(asking'[b], entries', everListed')
<1> DEFINE r == Answered(asking[a], values)
<1>1. asking[a] \in Loads /\ asking[a].about \in DOMAIN Forms
  BY DEF ListsInv, LoadIsRight
<1>2. Match(values, asking[a].about) \subseteq values
  BY <1>1, MatchIsIn
<1>3. /\ r \in Loads /\ r.at = "idle" /\ r.org = asking[a].org /\ r.kind = asking[a].kind
      /\ r.found \subseteq values
  BY <1>1, <1>2 DEF Loads, Answered
<1>4. asking' = [asking EXCEPT ![a] = r]
  BY DEF Answer, Answered, ListsInv
<1> HIDE DEF r
<1>5. LoadIsRight(r, entries, everListed)
  BY <1>3 DEF LoadIsRight
<1> QED
  BY <1>3, <1>4, <1>5, OneLoadMoves

LEMMA AskKeeps ==
    ASSUME ListsInv, NEW a \in Analyses, NEW org \in Orgs \cup {Global}, NEW kind \in Kinds,
           NEW c \in DOMAIN Forms, Ask(a, org, kind, c)
    PROVE  ListsInv'
<1> DEFINE r == [Quiet EXCEPT !.at = "lookup", !.org = org, !.kind = kind, !.about = c]
<1>1. r \in Loads /\ r.at = "lookup" /\ r.kind = kind /\ r.about = c /\ r.values = {}
      /\ r.found = {}
  BY QuietIsALoad DEF Loads
<1>2. asking' = [asking EXCEPT ![a] = r] /\ UNCHANGED <<entries, everListed>>
  BY DEF Ask
<1> HIDE DEF r
<1>3. LoadIsRight(r, entries, everListed)
  BY <1>1 DEF LoadIsRight
<1>4. asking' \in [Analyses -> Loads]
      /\ \A b \in Analyses : LoadIsRight(asking'[b], entries', everListed')
  BY <1>1, <1>2, <1>3, OneLoadMoves
<1> QED
  BY <1>4 DEF Ask, ListsInv, CacheAgreesWithTable

LEMMA KeyOfLoad ==
    ASSUME ListsInv, NEW a \in Analyses, asking[a].at # "idle"
    PROVE  KeyOf(a) \in Keys /\ KeyOf(a)[1] = asking[a].org /\ KeyOf(a)[2] = asking[a].kind
<1>1. asking[a].org \in Orgs \cup {Global} /\ asking[a].kind \in Kinds
  BY DEF ListsInv, Loads, LoadIsRight
<1> QED
  BY <1>1 DEF KeyOf, Key, Keys

LEMMA CacheHitKeeps ==
    ASSUME ListsInv, NEW a \in Analyses, CacheHit(a)
    PROVE  ListsInv'
<1> DEFINE k == KeyOf(a)
<1>1. asking[a].at # "idle" /\ Answer(a, cache[k].values) /\ UNCHANGED <<entries, everListed>>
  BY DEF CacheHit
<1>2. k \in Keys /\ k[1] = asking[a].org /\ k[2] = asking[a].kind
  BY <1>1, KeyOfLoad
<1>3. cache[k].values \in SUBSET Values
      /\ cache[k].values \subseteq ListEntries(everListed, asking[a].org, asking[a].kind)
  BY <1>2 DEF ListsInv
<1>4. asking' \in [Analyses -> Loads]
      /\ \A b \in Analyses : LoadIsRight(asking'[b], entries', everListed')
  BY <1>1, <1>3, AnswerIsRight
<1> QED
  BY <1>4 DEF CacheHit, ListsInv, CacheAgreesWithTable

LEMMA ReadTableKeeps ==
    ASSUME ListsInv, NEW a \in Analyses, ReadTable(a)
    PROVE  ListsInv'
<1>1. asking[a] \in Loads /\ LoadIsRight(asking[a], entries, everListed)
      /\ asking[a].at = "lookup"
  BY DEF ListsInv, ReadTable
<1>2. asking' \in [Analyses -> Loads]
      /\ \A b \in Analyses : LoadIsRight(asking'[b], entries', everListed')
  <2>1. CASE asking' = [asking EXCEPT ![a].at = "store",
               ![a].values = ListEntries(entries, asking[a].org, asking[a].kind)]
    <3> DEFINE now == ListEntries(entries, asking[a].org, asking[a].kind)
               r == [asking[a] EXCEPT !.at = "store", !.values = now]
    <3>1. now \in SUBSET Values
      BY ListsHoldValues
    <3>2. now \subseteq ListEntries(everListed, asking[a].org, asking[a].kind)
      BY ListsGrow DEF ListsInv
    <3>3. asking' = [asking EXCEPT ![a] = r]
      BY <2>1 DEF ListsInv
    <3> HIDE DEF now
    <3>4. /\ r \in Loads /\ r.at = "store" /\ r.values = now /\ r.org = asking[a].org
          /\ r.kind = asking[a].kind /\ r.about = asking[a].about /\ r.found = asking[a].found
      BY <1>1, <3>1 DEF Loads
    <3> HIDE DEF r
    <3>5. LoadIsRight(r, entries, everListed)
      BY <1>1, <3>2, <3>4 DEF LoadIsRight, now
    <3> QED
      BY <3>3, <3>4, <3>5, OneLoadMoves DEF ReadTable
  <2>2. CASE asking' = [asking EXCEPT ![a].at = "store", ![a].failed = TRUE]
    <3> DEFINE r == [asking[a] EXCEPT !.at = "store", !.failed = TRUE]
    <3>1. asking' = [asking EXCEPT ![a] = r]
      BY <2>2 DEF ListsInv
    <3>2. /\ r \in Loads /\ r.at = "store" /\ r.values = asking[a].values /\ r.failed
          /\ r.org = asking[a].org
          /\ r.kind = asking[a].kind /\ r.about = asking[a].about /\ r.found = asking[a].found
      BY <1>1 DEF Loads
    <3> HIDE DEF r
    <3>3. LoadIsRight(r, entries, everListed)
      BY <1>1, <3>2 DEF LoadIsRight
    <3> QED
      BY <3>1, <3>2, <3>3, OneLoadMoves DEF ReadTable
  <2> QED
    BY <2>1, <2>2 DEF ReadTable
<1> QED
  BY <1>2 DEF ReadTable, ListsInv, CacheAgreesWithTable

LEMMA WriteBackKeeps ==
    ASSUME ListsInv, NEW a \in Analyses, WriteBack(a)
    PROVE  ListsInv'
<1> DEFINE k == KeyOf(a)
           load == asking[a]
<1>1. load.at = "store" /\ Answer(a, load.values) /\ UNCHANGED <<entries, everListed, editing>>
      /\ cache' = [cache EXCEPT ![k] = Held(load.values)]
  BY DEF WriteBack
<1>2. k \in Keys /\ k[1] = load.org /\ k[2] = load.kind
  BY <1>1, KeyOfLoad
<1>3. load.values \in SUBSET Values
      /\ load.values \subseteq ListEntries(everListed, load.org, load.kind)
      /\ (load.failed \/ load.late \/ load.values = ListEntries(entries, load.org, load.kind))
  BY <1>1 DEF ListsInv, Loads, LoadIsRight
<1>4. asking' \in [Analyses -> Loads]
      /\ \A b \in Analyses : LoadIsRight(asking'[b], entries', everListed')
  BY <1>1, <1>3, AnswerIsRight
<1>5. /\ cache' \in [Keys -> [held : BOOLEAN, values : SUBSET Values]]
      /\ cache'[k].values = load.values
      /\ \A j \in Keys \ {k} : cache'[j] = cache[j]
  BY <1>1, <1>2, <1>3 DEF ListsInv, Held
<1>6. \A j \in Keys : cache'[j].values \subseteq ListEntries(everListed', j[1], j[2])
  BY <1>1, <1>2, <1>3, <1>5 DEF ListsInv
<1>7. CacheAgreesWithTable'
  <2>1. ASSUME NEW j \in Keys \ {k}
        PROVE  \/ ~cache'[j].held
               \/ cache'[j].values = ListEntries(entries', j[1], j[2])
               \/ \E e \in Editors : editing'[e] # "idle"
               \/ j \in excused'
    <3>1. cache'[j] = cache[j] /\ (j \in excused => j \in excused')
      BY <1>5 DEF WriteBack
    <3> QED
      BY <1>1, <3>1 DEF ListsInv, CacheAgreesWithTable
  <2>2. cache'[k].values = ListEntries(entries', k[1], k[2]) \/ k \in excused'
    <3>1. CASE load.failed \/ load.late
      BY <3>1 DEF WriteBack
    <3>2. CASE ~(load.failed \/ load.late)
      BY <1>1, <1>2, <1>3, <1>5, <3>2
    <3> QED
      BY <3>1, <3>2
  <2> QED
    BY <2>1, <2>2 DEF CacheAgreesWithTable
<1> QED
  BY <1>1, <1>4, <1>5, <1>6, <1>7 DEF ListsInv

LEMMA ExpireKeeps ==
    ASSUME ListsInv, NEW k \in Keys, Expire(k)
    PROVE  ListsInv'
<1>1. cache' = [cache EXCEPT ![k] = Nothing]
      /\ UNCHANGED <<entries, asking, editing, everListed>> /\ excused' = excused \ {k}
  BY DEF Expire
<1>2. /\ cache' \in [Keys -> [held : BOOLEAN, values : SUBSET Values]]
      /\ ~cache'[k].held /\ cache'[k].values = {}
      /\ \A j \in Keys \ {k} : cache'[j] = cache[j]
  BY <1>1 DEF ListsInv, Nothing
<1>3. \A j \in Keys : cache'[j].values \subseteq ListEntries(everListed', j[1], j[2])
  BY <1>1, <1>2 DEF ListsInv
<1>4. CacheAgreesWithTable'
  BY <1>1, <1>2 DEF ListsInv, CacheAgreesWithTable
<1> QED
  BY <1>1, <1>2, <1>3, <1>4 DEF ListsInv

\* The loads under way are late once the table is written.
LEMMA WriteTableKeepsLoads ==
    ASSUME ListsInv, NEW entry, NEW add, WriteTable(entry, add)
    PROVE  /\ entries' \subseteq everListed' /\ everListed \subseteq everListed'
           /\ asking' \in [Analyses -> Loads]
           /\ \A a \in Analyses : LoadIsRight(asking'[a], entries', everListed')
           /\ \A k \in Keys : cache[k].values \subseteq ListEntries(everListed', k[1], k[2])
<1>1. entries' \subseteq everListed' /\ everListed \subseteq everListed'
  BY DEF WriteTable
<1>2. ASSUME NEW a \in Analyses
      PROVE  asking'[a] \in Loads /\ LoadIsRight(asking'[a], entries', everListed')
  <2> DEFINE r == asking[a]
  <2>1. asking'[a] = [r EXCEPT !.late = @ \/ r.at = "store"]
    BY DEF WriteTable, MarkLate
  <2>2. r \in Loads /\ LoadIsRight(r, entries, everListed)
    BY DEF ListsInv
  <2> HIDE DEF r
  <2>3. CASE r.at = "store"
    <3>1. asking'[a] = [r EXCEPT !.late = TRUE]
      BY <2>1, <2>3
    <3>2. /\ asking'[a] \in Loads /\ asking'[a].late
          /\ LoadIsRight(asking'[a], entries, everListed)
      BY <2>2, <3>1 DEF Loads, LoadIsRight
    <3> QED
      BY <1>1, <3>2, LoadStaysRight
  <2>4. CASE r.at # "store"
    <3>1. asking'[a] = r
      BY <2>1, <2>2, <2>4 DEF Loads
    <3> QED
      BY <1>1, <2>2, <2>4, <3>1, LoadStaysRight
  <2> QED
    BY <2>3, <2>4
<1>3. asking' \in [Analyses -> Loads]
  BY <1>2 DEF WriteTable, MarkLate
<1>4. \A k \in Keys : cache[k].values \subseteq ListEntries(everListed', k[1], k[2])
  <2> TAKE k \in Keys
  <2>1. cache[k].values \subseteq ListEntries(everListed, k[1], k[2])
    BY DEF ListsInv
  <2> QED
    BY <1>1, <2>1, ListsGrow
<1> QED
  BY <1>1, <1>2, <1>3, <1>4

\* An edit by a request, which drops the cache later.
LEMMA RequestKeeps ==
    ASSUME ListsInv, NEW e \in Editors, NEW entry, NEW add, WriteTable(entry, add),
           NEW next \in {"invalidate", "audit"}, editing' = [editing EXCEPT ![e] = next],
           UNCHANGED cache
    PROVE  ListsInv'
<1>1. editing' \in [Editors -> {"idle", "invalidate", "audit"}] /\ editing'[e] # "idle"
  BY DEF ListsInv
<1>2. CacheAgreesWithTable'
  BY <1>1 DEF CacheAgreesWithTable
<1>3. /\ entries' \subseteq everListed' /\ asking' \in [Analyses -> Loads]
      /\ \A a \in Analyses : LoadIsRight(asking'[a], entries', everListed')
      /\ \A k \in Keys : cache[k].values \subseteq ListEntries(everListed', k[1], k[2])
  BY WriteTableKeepsLoads
<1> QED
  BY <1>1, <1>2, <1>3 DEF ListsInv

LEMMA EditFromCLIKeeps ==
    ASSUME ListsInv, NEW entry, NEW add, EditFromCLI(entry, add)
    PROVE  ListsInv'
<1>1. WriteTable(entry, add) /\ ExcuseCached /\ UNCHANGED <<cache, editing>>
  BY DEF EditFromCLI
<1>2. CacheAgreesWithTable'
  BY <1>1 DEF ExcuseCached, CacheAgreesWithTable
<1>3. /\ entries' \subseteq everListed' /\ asking' \in [Analyses -> Loads]
      /\ \A a \in Analyses : LoadIsRight(asking'[a], entries', everListed')
      /\ \A k \in Keys : cache[k].values \subseteq ListEntries(everListed', k[1], k[2])
  BY <1>1, WriteTableKeepsLoads
<1> QED
  BY <1>1, <1>2, <1>3 DEF ListsInv

LEMMA AuditBlockKeeps ==
    ASSUME ListsInv, NEW e \in Editors, AuditBlock(e)
    PROVE  ListsInv'
<1>1. UNCHANGED <<entries, cache, asking, everListed>> /\ editing[e] = "audit"
  BY DEF AuditBlock
<1>2. editing' \in [Editors -> {"idle", "invalidate", "audit"}]
  BY DEF AuditBlock, ListsInv
<1>3. CacheAgreesWithTable'
  <2>1. CASE editing' = [editing EXCEPT ![e] = "invalidate"] /\ UNCHANGED excused
    <3>1. editing'[e] # "idle"
      BY <2>1 DEF ListsInv
    <3> QED
      BY <3>1 DEF CacheAgreesWithTable
  <2>2. CASE ExcuseCached
    BY <1>1, <2>2 DEF ExcuseCached, CacheAgreesWithTable
  <2> QED
    BY <2>1, <2>2 DEF AuditBlock
<1> QED
  BY <1>1, <1>2, <1>3 DEF ListsInv

LEMMA InvalidateKeeps ==
    ASSUME ListsInv, NEW e \in Editors, Invalidate(e)
    PROVE  ListsInv'
<1>1. UNCHANGED <<entries, asking, everListed>> /\ cache' = [k \in Keys |-> Nothing]
  BY DEF Invalidate, InvalidateListCache
<1>2. editing' \in [Editors -> {"idle", "invalidate", "audit"}]
  BY DEF Invalidate, ListsInv
<1>3. /\ cache' \in [Keys -> [held : BOOLEAN, values : SUBSET Values]]
      /\ \A k \in Keys : ~cache'[k].held /\ cache'[k].values = {}
  BY <1>1 DEF Nothing
<1>4. CacheAgreesWithTable'
  BY <1>3 DEF CacheAgreesWithTable
<1> QED
  BY <1>1, <1>2, <1>3, <1>4 DEF ListsInv

LEMMA ListsInvInit == Init => ListsInv
<1> SUFFICES ASSUME ListsInit  PROVE ListsInv
  BY DEF Init
<1>1. asking \in [Analyses -> Loads]
      /\ \A a \in Analyses : LoadIsRight(asking[a], entries, everListed)
  BY QuietIsALoad DEF ListsInit, LoadIsRight
<1>2. /\ cache \in [Keys -> [held : BOOLEAN, values : SUBSET Values]]
      /\ \A k \in Keys : ~cache[k].held /\ cache[k].values = {}
  BY DEF ListsInit, Nothing
<1> QED
  BY <1>1, <1>2 DEF ListsInit, ListsInv, CacheAgreesWithTable

LEMMA ListsStep == ListsInv /\ [Next]_vars => ListsInv'
<1> SUFFICES ASSUME ListsInv, [Next]_vars  PROVE ListsInv'
  OBVIOUS
<1>1. CASE UNCHANGED listVars
  BY <1>1 DEF listVars, ListsInv, CacheAgreesWithTable
<1>2. CASE ListWorks
  BY <1>2, CacheHitKeeps, ReadTableKeeps, WriteBackKeeps, AuditBlockKeeps, InvalidateKeeps,
     ExpireKeeps DEF ListWorks
<1>3. CASE ListRequests
  <2>1. CASE \E a \in Analyses, org \in Orgs \cup {Global}, kind \in Kinds,
                c \in DOMAIN Forms : Ask(a, org, kind, c)
    BY <2>1, AskKeeps
  <2>2. CASE \E entry \in Entries, add \in BOOLEAN : \E e \in Editors : EditEntry(e, entry, add)
    BY <2>2, RequestKeeps DEF EditEntry
  <2>3. CASE \E entry \in Entries, add \in BOOLEAN : EditFromCLI(entry, add)
    BY <2>3, EditFromCLIKeeps
  <2>4. CASE \E e \in Editors, org \in Orgs \cup {Global}, value \in Values :
               BlockDomain(e, org, value)
    BY <2>4, RequestKeeps DEF BlockDomain
  <2> QED
    BY <1>3, <2>1, <2>2, <2>3, <2>4 DEF ListRequests
<1> QED
  BY <1>1, <1>2, <1>3 DEF Next, Lists, ListsNext, CustomBrands, vars

\* A cached list is the table's, except while an editor has yet to drop it
\* and where nothing is promised, and no answer shows an entry of another
\* organisation or of the other list: for any number of organisations,
\* entries, analyses and editors (lists.go, load and match).
THEOREM TheListsAreRight == Spec => []ListsAreRight
<1>1. ListsInv => ListsAreRight
  BY DEF ListsInv, LoadIsRight, ListsAreRight, ListsStayApart
<1> QED
  BY <1>1, ListsInvInit, ListsStep, PTL DEF Spec

-----------------------------------------------------------------------------
(* The list of brands in memory: what Add and AddAll do to it. *)

\* The list k has the brand b, and of l all but the others of that name.
TakesIn(k, l, b) ==
    /\ \E i \in DOMAIN k : k[i] = b
    /\ \A i \in DOMAIN l : ~SameBrand(l[i], b) \/ l[i] = b => \E j \in DOMAIN k : k[j] = l[i]

LEMMA AddKeeps ==
    ASSUME NEW S, NEW l \in Seq(S), NEW b \in S
    PROVE  Add(l, b) \in Seq(S) /\ TakesIn(Add(l, b), l, b)
<1> DEFINE at == {i \in DOMAIN l : SameBrand(l[i], b)}
<1>1. DOMAIN l = 1..Len(l) /\ Len(l) \in Nat
  OBVIOUS
<1>2. CASE at = {}
  <2>1. Add(l, b) = Append(l, b)
    BY <1>2 DEF Add
  <2>2. /\ Append(l, b) \in Seq(S) /\ Append(l, b)[Len(l) + 1] = b
        /\ DOMAIN Append(l, b) = 1..(Len(l) + 1)
        /\ \A i \in 1..Len(l) : Append(l, b)[i] = l[i]
    OBVIOUS
  <2> QED
    BY <1>1, <2>1, <2>2 DEF TakesIn
<1>3. CASE at # {}
  <2> DEFINE k == Min(at)
             new == [l EXCEPT ![k] = b]
  <2>1. at \in SUBSET Nat
    BY <1>1
  <2>2. k \in at
    BY <1>3, <2>1, MinIsIn
  <2>3. Add(l, b) = new
    BY <1>3 DEF Add
  <2>4. k \in DOMAIN l /\ SameBrand(l[k], b)
    BY <2>2
  <2> HIDE DEF k
  <2>5. /\ new \in Seq(S) /\ DOMAIN new = DOMAIN l /\ new[k] = b
        /\ \A i \in DOMAIN l : i # k => new[i] = l[i]
    BY <1>1, <2>4
  <2> HIDE DEF new
  <2>6. \A i \in DOMAIN l : ~SameBrand(l[i], b) \/ l[i] = b => \E j \in DOMAIN l : new[j] = l[i]
    BY <2>4, <2>5
  <2> QED
    BY <2>3, <2>4, <2>5, <2>6 DEF TakesIn
<1> QED
  BY <1>2, <1>3

\* The list after each of the first n brands was added.
Adds(l, more, f, n) == f = [k \in 0..n |-> IF k = 0 THEN l ELSE Add(f[k - 1], more[k])]

LEMMA AddsExist ==
    ASSUME NEW l, NEW more, NEW N \in Nat
    PROVE  \E f : Adds(l, more, f, N)
<1> DEFINE S == {n \in Nat : \E f : Adds(l, more, f, n)}
<1>1. 0 \in S
  <2> DEFINE f == [k \in 0..0 |-> l]
  <2>1. Adds(l, more, f, 0)
    BY DEF Adds
  <2> QED
    BY <2>1
<1>2. ASSUME NEW n \in Nat, n \in S  PROVE n + 1 \in S
  <2>1. PICK f : Adds(l, more, f, n)
    BY <1>2
  <2> DEFINE v == Add(f[n], more[n + 1])
             g == [k \in 0..(n + 1) |-> IF k = n + 1 THEN v ELSE f[k]]
  <2>2. \A k \in 0..n : f[k] = IF k = 0 THEN l ELSE Add(f[k - 1], more[k])
    BY <2>1 DEF Adds
  <2> HIDE DEF v
  <2>3. ASSUME NEW k \in 0..(n + 1)
        PROVE  g[k] = IF k = 0 THEN l ELSE Add(g[k - 1], more[k])
    <3>1. CASE k = n + 1
      <4>1. g[k] = v /\ g[k - 1] = f[n] /\ k # 0
        BY <3>1
      <4> QED
        BY <3>1, <4>1 DEF v
    <3>2. CASE k \in 0..n
      <4>1. g[k] = f[k] /\ (k # 0 => g[k - 1] = f[k - 1])
        BY <3>2
      <4> QED
        BY <2>2, <3>2, <4>1
    <3> QED
      BY <3>1, <3>2
  <2>4. Adds(l, more, g, n + 1)
    BY <2>3 DEF Adds
  <2> QED
    BY <2>4
<1> HIDE DEF S
<1>3. N \in S
  BY <1>1, <1>2, Reaches
<1> QED
  BY <1>3 DEF S

\* A list has the brands of another that no different one has the name of.
HasTheLone(l, more) ==
    \A i \in 1..Len(more) :
        (\A j \in 1..Len(more) : SameBrand(more[i], more[j]) => more[j] = more[i]) =>
            \E k \in DOMAIN l : l[k] = more[i]

LEMMA AddAllKeeps ==
    ASSUME NEW S, NEW l \in Seq(S), NEW more \in Seq(S)
    PROVE  AddAll(l, more) \in Seq(S) /\ HasTheLone(AddAll(l, more), more)
<1> DEFINE f == CHOOSE g : Adds(l, more, g, Len(more))
<1>1. Len(more) \in Nat
  OBVIOUS
<1>2. Adds(l, more, f, Len(more))
  BY <1>1, AddsExist
<1>3. AddAll(l, more) = f[Len(more)]
  BY DEF AddAll, Adds
<1> HIDE DEF f
<1>4. \A k \in 0..Len(more) : f[k] = IF k = 0 THEN l ELSE Add(f[k - 1], more[k])
  BY <1>2 DEF Adds
<1> DEFINE Alone(i) == \A j \in 1..Len(more) : SameBrand(more[i], more[j]) => more[j] = more[i]
           Holds(t, n) == /\ t \in Seq(S)
                          /\ \A i \in 1..n : Alone(i) => \E k \in DOMAIN t : t[k] = more[i]
           G == {n \in Nat : n <= Len(more) => Holds(f[n], n)}
<1>5. 0 \in G
  <2>1. f[0] = l
    BY <1>1, <1>4
  <2> QED
    BY <2>1
<1>6. ASSUME NEW n \in Nat, n \in G  PROVE n + 1 \in G
  <2> SUFFICES ASSUME n + 1 <= Len(more)  PROVE Holds(f[n + 1], n + 1)
    OBVIOUS
  <2>1. n <= Len(more)
    BY <1>1
  <2>2. Holds(f[n], n)
    <3> HIDE DEF Holds
    <3> QED
      BY <1>6, <2>1
  <2>3. n + 1 \in 1..Len(more) /\ n + 1 \in 0..Len(more) /\ n + 1 # 0 /\ n + 1 - 1 = n
    BY <1>1
  <2>4. PICK t, u, b : t = f[n] /\ u = f[n + 1] /\ b = more[n + 1]
    OBVIOUS
  <2>5. b \in S /\ u = Add(t, b) /\ t \in Seq(S)
    BY <1>4, <2>2, <2>3, <2>4
  <2>6. Add(t, b) \in Seq(S) /\ TakesIn(Add(t, b), t, b)
    BY <2>5, AddKeeps
  <2>7. /\ u \in Seq(S)
        /\ \E i \in DOMAIN u : u[i] = b
        /\ \A i \in DOMAIN t : ~SameBrand(t[i], b) \/ t[i] = b => \E j \in DOMAIN u : u[j] = t[i]
    BY <2>5, <2>6 DEF TakesIn
  <2>8. ASSUME NEW i \in 1..(n + 1), Alone(i)  PROVE \E k \in DOMAIN u : u[k] = more[i]
    <3>1. CASE i = n + 1
      BY <2>4, <2>7, <3>1
    <3>2. CASE i \in 1..n
      <4>1. PICK k \in DOMAIN t : t[k] = more[i]
        BY <2>2, <2>4, <2>8, <3>2
      <4>2. i \in 1..Len(more)
        BY <2>1, <3>2
      <4>3. SameBrand(t[k], b) => t[k] = b
        BY <2>3, <2>4, <2>8, <4>1, <4>2
      <4> QED
        BY <2>7, <4>1, <4>3
    <3> QED
      BY <3>1, <3>2
  <2>9. Holds(u, n + 1)
    BY <2>7, <2>8
  <2> QED
    BY <2>4, <2>9
<1> HIDE DEF G
<1>7. Len(more) \in G
  BY <1>1, <1>5, <1>6, Reaches
<1>8. Holds(f[Len(more)], Len(more))
  BY <1>1, <1>7 DEF G
<1> QED
  BY <1>3, <1>8 DEF HasTheLone

-----------------------------------------------------------------------------
(* The brands in the table and in memory.  While a request has yet to put  *)
(* its brand into the list, the table holds that brand as the request has  *)
(* it, or nobody promised.                                                 *)

Given(offer, org) == [offer EXCEPT !.org = org]

AllBrands == ToSet(BuiltIn) \cup {Given(o, org) : o \in Offers, org \in Tenants \cup {NoOrg}}

Requests ==
    [at : {"idle", "add"}, brand : AllBrands \cup {CHOOSE o \in Offers : TRUE}]

AddsWhatIsStored(r, rows, out) ==
    r.at = "add" => /\ r.brand \in AllBrands
                    /\ \/ BrandKey(r.brand) \in out
                       \/ \A row \in rows : BrandKey(row) = BrandKey(r.brand) => row = r.brand

TableInv ==
    /\ list \in Seq(AllBrands)
    /\ IsFiniteSet(brandRows) /\ brandRows \subseteq AllBrands
    /\ \A r, s \in brandRows : r.org = s.org /\ r.spelled = s.spelled => r = s
    /\ adding \in [Adders -> Requests]
    /\ \A a \in Adders : AddsWhatIsStored(adding[a], brandRows, unfollowed)
    /\ MatcherFollowsTable

LEMMA BuiltInIsInPlace ==
    /\ BuiltIn \in Seq(AllBrands)
    /\ AddAll(<<>>, BuiltIn) \in Seq(AllBrands)
<1>1. BuiltIn \in Seq(ToSet(BuiltIn)) /\ ToSet(BuiltIn) \subseteq AllBrands
  BY BrandAssumption DEF AllBrands
<1>2. BuiltIn \in Seq(AllBrands)
  BY <1>1
<1>3. <<>> \in Seq(AllBrands)
  OBVIOUS
<1> QED
  BY <1>2, <1>3, AddAllKeeps

LEMMA OfferIsABrand ==
    ASSUME NEW offer \in Offers, NEW org \in Tenants \cup {NoOrg}
    PROVE  Given(offer, org) \in AllBrands
BY DEF AllBrands

LEMMA SameKey ==
    ASSUME NEW b, NEW c
    PROVE  SameBrand(b, c) <=> BrandKey(b) = BrandKey(c)
BY DEF SameBrand, BrandKey

LEMMA TableInit ==
    ASSUME BrandsInit
    PROVE  TableInv
<1>1. list \in Seq(AllBrands)
  BY BuiltInIsInPlace DEF BrandsInit
<1>2. IsFiniteSet(brandRows)
  BY FS_EmptySet DEF BrandsInit
<1>3. adding \in [Adders -> Requests] /\ \A a \in Adders : adding[a].at = "idle"
  BY DEF BrandsInit, Requests
<1> QED
  BY <1>1, <1>2, <1>3 DEF TableInv, BrandsInit, AddsWhatIsStored, MatcherFollowsTable

\* A row is written: the others stay, those of its spelling go.
LEMMA AddBrandKeeps ==
    ASSUME TableInv, NEW b \in AllBrands, brandRows' = AddBrand(brandRows, b)
    PROVE  /\ IsFiniteSet(brandRows') /\ brandRows' \subseteq AllBrands
           /\ \A r, s \in brandRows' : r.org = s.org /\ r.spelled = s.spelled => r = s
           /\ brandRows' \subseteq brandRows \cup {b}
           /\ \A r \in brandRows' : r.org = b.org /\ r.spelled = b.spelled => r = b
<1> DEFINE rest == {r \in brandRows : ~(r.org = b.org /\ r.spelled = b.spelled)}
<1>1. brandRows' = rest \cup {b}
  BY DEF AddBrand
<1>2. rest \subseteq brandRows /\ \A r \in rest : ~(r.org = b.org /\ r.spelled = b.spelled)
  OBVIOUS
<1>3. IsFiniteSet(rest)
  BY <1>2, FS_Subset DEF TableInv
<1> HIDE DEF rest
<1>4. IsFiniteSet(brandRows')
  BY <1>1, <1>3, FS_AddElement
<1> QED
  BY <1>1, <1>2, <1>4 DEF TableInv

LEMMA StoreBrandKeepsTable ==
    ASSUME TableInv, NEW a \in Adders, NEW offer \in Offers, NEW org \in Tenants \cup {NoOrg},
           StoreBrand(a, offer, org)
    PROVE  TableInv'
<1>1. PICK b : b = Given(offer, org)
  OBVIOUS
<1>2. b \in AllBrands
  BY <1>1, OfferIsABrand
<1>3. /\ adding[a].at = "idle"
      /\ adding' = [adding EXCEPT ![a] = [at |-> "add", brand |-> b]]
      /\ brandRows' = AddBrand(brandRows, b)
      /\ unfollowed' = IF Busy(BrandKey(b)) # {}
                          \/ \E r \in brandRows : SameBrand(r, b) /\ r.spelled # b.spelled
                       THEN unfollowed \cup {BrandKey(b)} ELSE unfollowed \ {BrandKey(b)}
      /\ UNCHANGED list
  BY <1>1 DEF StoreBrand, Given
<1>4. adding' \in [Adders -> Requests]
      /\ adding'[a].at = "add" /\ adding'[a].brand = b
      /\ \A c \in Adders \ {a} : adding'[c] = adding[c]
  BY <1>2, <1>3 DEF TableInv, Requests
<1>5. /\ IsFiniteSet(brandRows') /\ brandRows' \subseteq AllBrands
      /\ \A r, s \in brandRows' : r.org = s.org /\ r.spelled = s.spelled => r = s
      /\ brandRows' \subseteq brandRows \cup {b}
      /\ \A r \in brandRows' : r.org = b.org /\ r.spelled = b.spelled => r = b
  BY <1>2, <1>3, AddBrandKeeps
<1>6. \A k : k # BrandKey(b) => (k \in unfollowed' <=> k \in unfollowed)
  BY <1>3
<1>7. ASSUME BrandKey(b) \notin unfollowed', NEW r \in brandRows', BrandKey(r) = BrandKey(b)
      PROVE  r = b
  <2>1. SameBrand(r, b) /\ r.org = b.org
    BY <1>7, SameKey DEF SameBrand
  <2>2. r \in brandRows => r.spelled = b.spelled
    BY <1>3, <1>7, <2>1
  <2> QED
    BY <1>5, <2>1, <2>2
<1>8. ASSUME NEW c \in Adders  PROVE AddsWhatIsStored(adding'[c], brandRows', unfollowed')
  <2>1. CASE c = a
    BY <1>2, <1>4, <1>7, <2>1 DEF AddsWhatIsStored
  <2>2. CASE c # a /\ adding[c].at = "add" /\ BrandKey(adding[c].brand) = BrandKey(b)
    <3>1. c \in Busy(BrandKey(b))
      BY <2>2 DEF Busy
    <3>2. BrandKey(b) \in unfollowed'
      BY <1>3, <3>1
    <3>3. AddsWhatIsStored(adding[c], brandRows, unfollowed)
      BY DEF TableInv
    <3> QED
      BY <1>4, <2>2, <3>2, <3>3 DEF AddsWhatIsStored
  <2>3. CASE c # a /\ ~(adding[c].at = "add" /\ BrandKey(adding[c].brand) = BrandKey(b))
    <3>1. AddsWhatIsStored(adding[c], brandRows, unfollowed) /\ adding'[c] = adding[c]
      BY <1>4, <2>3 DEF TableInv
    <3>2. ASSUME adding[c].at = "add", BrandKey(adding[c].brand) \notin unfollowed',
                 NEW r \in brandRows', BrandKey(r) = BrandKey(adding[c].brand)
          PROVE  r = adding[c].brand
      <4>1. r \in brandRows
        BY <1>5, <2>3, <3>2
      <4>2. BrandKey(adding[c].brand) \notin unfollowed
        BY <1>6, <2>3, <3>2
      <4> QED
        BY <3>1, <3>2, <4>1, <4>2 DEF AddsWhatIsStored
    <3> QED
      BY <3>1, <3>2 DEF AddsWhatIsStored
  <2> QED
    BY <2>1, <2>2, <2>3
<1>9. ASSUME NEW r \in brandRows', BrandKey(r) \notin unfollowed', Busy(BrandKey(r))' = {}
      PROVE  \E i \in DOMAIN list' : list'[i] = r
  <2>1. BrandKey(r) # BrandKey(b)
    BY <1>4, <1>9 DEF Busy
  <2>2. r \in brandRows /\ BrandKey(r) \notin unfollowed
    BY <1>5, <1>6, <1>9, <2>1
  <2>3. Busy(BrandKey(r)) = {}
    <3>1. ASSUME NEW c \in Busy(BrandKey(r))  PROVE c \in Busy(BrandKey(r))'
      BY <1>3, <1>4 DEF Busy
    <3> QED
      BY <1>9, <3>1
  <2> QED
    BY <1>3, <2>2, <2>3 DEF TableInv, MatcherFollowsTable
<1>10. list' \in Seq(AllBrands)
  BY <1>3 DEF TableInv
<1>11. MatcherFollowsTable'
  BY <1>9 DEF MatcherFollowsTable
<1> QED
  BY <1>4, <1>5, <1>8, <1>10, <1>11 DEF TableInv

LEMMA AddToListKeepsTable ==
    ASSUME TableInv, NEW a \in Adders, AddToList(a)
    PROVE  TableInv'
<1>1. PICK b : b = adding[a].brand
  OBVIOUS
<1>2. /\ adding[a].at = "add"
      /\ list' = Add(list, b)
      /\ adding' = [adding EXCEPT ![a].at = "idle"]
      /\ UNCHANGED <<brandRows, unfollowed>>
  BY <1>1 DEF AddToList
<1>3. AddsWhatIsStored(adding[a], brandRows, unfollowed)
  BY DEF TableInv
<1>4. b \in AllBrands /\ list \in Seq(AllBrands)
  BY <1>1, <1>2, <1>3 DEF AddsWhatIsStored, TableInv
<1>5. Add(list, b) \in Seq(AllBrands) /\ TakesIn(Add(list, b), list, b)
  BY <1>4, AddKeeps
<1>6. adding' \in [Adders -> Requests] /\ adding'[a].at = "idle"
      /\ \A c \in Adders \ {a} : adding'[c] = adding[c]
  BY <1>2 DEF TableInv, Requests
<1>7. ASSUME NEW c \in Adders  PROVE AddsWhatIsStored(adding'[c], brandRows', unfollowed')
  <2>1. CASE c = a
    BY <1>6, <2>1 DEF AddsWhatIsStored
  <2>2. CASE c # a
    BY <1>2, <1>6, <2>2 DEF TableInv
  <2> QED
    BY <2>1, <2>2
<1>8. ASSUME NEW r \in brandRows', BrandKey(r) \notin unfollowed', Busy(BrandKey(r))' = {}
      PROVE  \E i \in DOMAIN list' : list'[i] = r
  <2>1. r \in brandRows /\ BrandKey(r) \notin unfollowed
    BY <1>2, <1>8
  <2>2. CASE BrandKey(r) = BrandKey(b)
    <3>1. r = b
      BY <1>1, <1>2, <1>3, <2>1, <2>2 DEF AddsWhatIsStored
    <3> QED
      BY <1>2, <1>5, <3>1 DEF TakesIn
  <2>3. CASE BrandKey(r) # BrandKey(b)
    <3>1. Busy(BrandKey(r)) = {}
      <4>1. ASSUME NEW c \in Busy(BrandKey(r))  PROVE c \in Busy(BrandKey(r))'
        BY <1>1, <1>2, <1>6, <2>3 DEF Busy
      <4> QED
        BY <1>8, <4>1
    <3>2. PICK i \in DOMAIN list : list[i] = r
      BY <2>1, <3>1 DEF TableInv, MatcherFollowsTable
    <3>3. ~SameBrand(list[i], b)
      BY <2>3, <3>2, SameKey
    <3> QED
      BY <1>2, <1>5, <3>2, <3>3 DEF TakesIn
  <2> QED
    BY <2>2, <2>3
<1>9. list' \in Seq(AllBrands)
  BY <1>2, <1>5
<1>10. IsFiniteSet(brandRows') /\ brandRows' \subseteq AllBrands
       /\ \A r, s \in brandRows' : r.org = s.org /\ r.spelled = s.spelled => r = s
  BY <1>2 DEF TableInv
<1>11. MatcherFollowsTable'
  BY <1>8 DEF MatcherFollowsTable
<1> QED
  BY <1>6, <1>7, <1>9, <1>10, <1>11 DEF TableInv

LEMMA AddFromCLIKeepsTable ==
    ASSUME TableInv, NEW offer \in Offers, NEW org \in Tenants \cup {NoOrg}, AddFromCLI(offer, org)
    PROVE  TableInv'
<1>1. PICK b : b = Given(offer, org)
  OBVIOUS
<1>2. b \in AllBrands
  BY <1>1, OfferIsABrand
<1>3. /\ brandRows' = AddBrand(brandRows, b)
      /\ unfollowed' = unfollowed \cup {BrandKey(b)}
      /\ UNCHANGED <<list, adding>>
  BY <1>1 DEF AddFromCLI, Given
<1>4. /\ IsFiniteSet(brandRows') /\ brandRows' \subseteq AllBrands
      /\ \A r, s \in brandRows' : r.org = s.org /\ r.spelled = s.spelled => r = s
      /\ brandRows' \subseteq brandRows \cup {b}
  BY <1>2, <1>3, AddBrandKeeps
<1>5. \A c \in Adders : AddsWhatIsStored(adding'[c], brandRows', unfollowed')
  BY <1>3, <1>4 DEF TableInv, AddsWhatIsStored
<1>6. MatcherFollowsTable'
  BY <1>3, <1>4 DEF TableInv, MatcherFollowsTable, Busy
<1>7. list' \in Seq(AllBrands) /\ adding' \in [Adders -> Requests]
  BY <1>3 DEF TableInv
<1> QED
  BY <1>4, <1>5, <1>6, <1>7 DEF TableInv

LEMMA OrdersAreLists ==
    ASSUME NEW rows, IsFiniteSet(rows), NEW org, NEW s \in ListBrands(rows, org)
    PROVE  /\ s \in Seq(rows)
           /\ \A r \in rows : r.org \in {org, NoOrg} => \E i \in 1..Len(s) : s[i] = r
<1> DEFINE found == {r \in rows : r.org \in {org, NoOrg}}
<1>1. found \subseteq rows
  OBVIOUS
<1>2. IsFiniteSet(found)
  BY <1>1, FS_Subset
<1>3. s \in [1..Cardinality(found) -> found] /\ ToSet(s) = found
  BY DEF ListBrands
<1>4. Cardinality(found) \in Nat
  BY <1>2, FS_CardinalityType
<1>5. PICK n \in Nat : n = Cardinality(found)
  BY <1>4
<1> HIDE DEF found
<1>6. s \in Seq(found) /\ DOMAIN s = 1..Len(s)
  BY <1>3, <1>5
<1>7. s \in Seq(rows)
  BY <1>1, <1>6
<1>8. \A r \in found : \E i \in 1..Len(s) : s[i] = r
  BY <1>3, <1>6 DEF ToSet
<1> QED
  BY <1>7, <1>8 DEF found

LEMMA RestartBrandsKeepsTable ==
    ASSUME TableInv, RestartBrands
    PROVE  TableInv'
<1> DEFINE base == AddAll(<<>>, BuiltIn)
           Dropped == {BrandKey(r) : r \in {x \in brandRows :
                          \/ x.org # NoOrg
                          \/ \E y \in brandRows : SameBrand(x, y) /\ x.spelled # y.spelled}}
<1>1. base \in Seq(AllBrands)
  BY BuiltInIsInPlace
<1>2. /\ adding' = [a \in Adders |-> [adding[a] EXCEPT !.at = "idle"]]
      /\ UNCHANGED brandRows
      /\ \/ /\ \E stored \in ListBrands(brandRows, NoOrg) : list' = AddAll(base, stored)
            /\ unfollowed' = Dropped
         \/ list' = base /\ unfollowed' = {BrandKey(r) : r \in brandRows}
  BY DEF RestartBrands
<1>3. adding' \in [Adders -> Requests] /\ \A a \in Adders : adding'[a].at = "idle"
  BY <1>2 DEF TableInv, Requests
<1>4. IsFiniteSet(brandRows') /\ brandRows' \subseteq AllBrands
      /\ \A r, s \in brandRows' : r.org = s.org /\ r.spelled = s.spelled => r = s
  BY <1>2 DEF TableInv
<1> HIDE DEF base
<1>5. list' \in Seq(AllBrands)
      /\ \A r \in brandRows : BrandKey(r) \notin unfollowed' => \E i \in DOMAIN list' : list'[i] = r
  <2>1. CASE list' = base /\ unfollowed' = {BrandKey(r) : r \in brandRows}
    BY <1>1, <2>1
  <2>2. CASE (\E stored \in ListBrands(brandRows, NoOrg) : list' = AddAll(base, stored))
             /\ unfollowed' = Dropped
    <3>1. PICK s \in ListBrands(brandRows, NoOrg) : list' = AddAll(base, s)
      BY <2>2
    <3>2. /\ s \in Seq(brandRows)
          /\ \A r \in brandRows : r.org \in {NoOrg, NoOrg} => \E i \in 1..Len(s) : s[i] = r
      BY <3>1, OrdersAreLists DEF TableInv
    <3>3. s \in Seq(AllBrands) /\ \A i \in 1..Len(s) : s[i] \in brandRows
      BY <3>2 DEF TableInv
    <3>4. AddAll(base, s) \in Seq(AllBrands) /\ HasTheLone(AddAll(base, s), s)
      BY <1>1, <3>3, AddAllKeeps
    <3>5. ASSUME NEW r \in brandRows, BrandKey(r) \notin unfollowed'
          PROVE  \E k \in DOMAIN list' : list'[k] = r
      <4>1. r.org = NoOrg /\ \A y \in brandRows : SameBrand(r, y) => r.spelled = y.spelled
        BY <2>2, <3>5
      <4>2. PICK i \in 1..Len(s) : s[i] = r
        BY <3>2, <4>1
      <4>3. ASSUME NEW j \in 1..Len(s), SameBrand(s[i], s[j])  PROVE s[j] = s[i]
        <5>1. s[j] \in brandRows /\ r.spelled = s[j].spelled /\ r.org = s[j].org
          BY <3>3, <4>1, <4>2, <4>3 DEF SameBrand
        <5> QED
          BY <4>2, <5>1 DEF TableInv
      <4> QED
        BY <3>1, <3>4, <4>2, <4>3 DEF HasTheLone
    <3> QED
      BY <3>1, <3>4, <3>5
  <2> QED
    BY <1>2, <2>1, <2>2
<1>6. MatcherFollowsTable'
  BY <1>2, <1>5 DEF MatcherFollowsTable
<1>7. \A a \in Adders : AddsWhatIsStored(adding'[a], brandRows', unfollowed')
  BY <1>3 DEF AddsWhatIsStored
<1> QED
  BY <1>3, <1>4, <1>5, <1>6, <1>7 DEF TableInv

LEMMA TableUnchanged ==
    ASSUME TableInv, UNCHANGED <<list, brandRows, adding, unfollowed>>
    PROVE  TableInv'
<1>1. MatcherFollowsTable'
  BY DEF TableInv, MatcherFollowsTable, Busy
<1> QED
  BY <1>1 DEF TableInv

LEMMA TableStep ==
    ASSUME TableInv, BrandsNext
    PROVE  TableInv'
<1>1. ASSUME NEW a \in Adders, StoreBrandFails(a)  PROVE TableInv'
  BY <1>1, TableUnchanged DEF StoreBrandFails
<1>2. ASSUME NEW mail \in Mails, StartMatch(mail)  PROVE TableInv'
  BY <1>2, TableUnchanged DEF StartMatch
<1>3. CASE Look
  BY <1>3, TableUnchanged DEF Look
<1>4. CASE Describe
  BY <1>4, TableUnchanged DEF Describe
<1>5. CASE NothingMatches
  BY <1>5, TableUnchanged DEF NothingMatches
<1> QED
  BY <1>1, <1>2, <1>3, <1>4, <1>5, StoreBrandKeepsTable, AddToListKeepsTable,
     AddFromCLIKeepsTable, RestartBrandsKeepsTable DEF BrandsNext

-----------------------------------------------------------------------------
(* A match under way.  Past the sender, nobody owned its domain all the    *)
(* time; at the sender, what was found says whether someone did.           *)

IsMatch(m) == DOMAIN m = {"mail", "at", "found", "official", "locale", "owner", "always"}

IsCandidate(c) == DOMAIN c = {"name", "method", "score"}

OwnersIn(l, m) == {l[i] : i \in Owners(l, m.mail.from)}

SomeOwnerIsNamed(m) == \E b \in m.owner : b.name = m.found.name

UnderWay(m, l) ==
    /\ m.official = FALSE
    /\ m.always \subseteq OwnersIn(l, m) /\ OwnersIn(l, m) \subseteq m.owner
    /\ m.at > 1 => m.always = {}
    /\ m.at = 1 /\ m.found # NoBrand =>
         IF m.found.method = "domain" THEN SomeOwnerIsNamed(m) ELSE m.always = {}
    /\ m.at \in DOMAIN Places(m.mail) /\ Places(m.mail)[m.at].kind = "link" => IsCandidate(m.found)

Over(m) ==
    /\ m.always # {} => m.found # NoBrand /\ m.official
    /\ m.found # NoBrand /\ m.official => SomeOwnerIsNamed(m)

MatchIsRight(m, l) ==
    /\ IsMatch(m) /\ m.at \in Nat /\ m.mail \in Mails
    /\ IF m.at = 0 THEN Over(m) ELSE UnderWay(m, l)

MatchInv == MatchIsRight(matching, list)

\* The first of what matches in a list.
LEMMA FirstIsIn ==
    ASSUME NEW S, NEW l \in Seq(S), NEW at \in SUBSET DOMAIN l, at # {}
    PROVE  Min(at) \in at
<1>1. at \in SUBSET Nat
  OBVIOUS
<1> QED
  BY <1>1, MinIsIn

LEMMA BestIsOne ==
    ASSUME NEW S, NEW l \in Seq(S)
    PROVE  BestOf(l) = NoBrand \/ \E i \in DOMAIN l : BestOf(l) = l[i]
<1> DEFINE at == {i \in DOMAIN l : l[i] \in Highest(ToSet(l))}
<1>1. at \in SUBSET DOMAIN l
  OBVIOUS
<1>2. BestOf(l) = IF at = {} THEN NoBrand ELSE l[Min(at)]
  BY DEF BestOf
<1> HIDE DEF at
<1>3. at # {} => Min(at) \in DOMAIN l
  BY <1>1, FirstIsIn
<1> QED
  BY <1>2, <1>3

\* A brand that only resembles is never said to own the domain.
Resembles(c) == IsCandidate(c) /\ c.method # "domain"

LEMMA NobodyResembles == Resembles(NoBrand)
BY DEF Resembles, IsCandidate, NoBrand

LEMMA LookalikeResembles ==
    ASSUME NEW b, NEW host
    PROVE  Resembles(LookalikeOf(b, host))
<1>1. ASSUME NEW w  PROVE Resembles(LookalikeBy(b, host, w))
  <2>1. ASSUME NEW m, NEW s, m # "domain"  PROVE Resembles(Candidate(b, m, s))
    BY <2>1 DEF Resembles, IsCandidate, Candidate
  <2>2. PICK h, e, t, p, q : /\ h = Hosts[host] /\ e = DamerauLevenshtein(h.sld, w)
                             /\ t = Tolerated(w) /\ p = Len(w) /\ q = Len(h.sld)
    OBVIOUS
  <2>3. LookalikeBy(b, host, w) =
          IF w \in h.labels
          THEN Candidate(b, IF h.disguised THEN "homoglyph" ELSE "typosquat", <<95, 100>>)
          ELSE IF q >= 5 /\ p >= 5 /\ e \in 1..t
               THEN Candidate(b, IF h.disguised THEN "homoglyph" ELSE "domain_similarity",
                              <<p - e, p>>)
               ELSE NoBrand
    BY <2>2 DEF LookalikeBy
  <2>4. (IF h.disguised THEN "homoglyph" ELSE "typosquat") # "domain"
        /\ (IF h.disguised THEN "homoglyph" ELSE "domain_similarity") # "domain"
    OBVIOUS
  <2> QED
    BY <2>1, <2>3, <2>4, NobodyResembles, Zenon
<1> DEFINE found == {LookalikeBy(b, host, w) : w \in Labels(b)}
<1>2. \A c \in found : Resembles(c)
  BY <1>1
<1>3. Highest(found) \subseteq found
  BY DEF Highest
<1>4. LookalikeOf(b, host) =
        IF Highest(found) = {} THEN NoBrand ELSE CHOOSE c \in Highest(found) : TRUE
  BY DEF LookalikeOf
<1> HIDE DEF found
<1> QED
  BY <1>2, <1>3, <1>4, NobodyResembles

\* MatchDomain names an owner when there is one, and says so then only.
LEMMA MatchDomainIsRight ==
    ASSUME NEW S, NEW l \in Seq(S), NEW host
    PROVE  /\ IsCandidate(MatchDomain(l, host))
           /\ Owners(l, host) = {} => MatchDomain(l, host).method # "domain"
           /\ Owners(l, host) # {} =>
                /\ MatchDomain(l, host).method = "domain" /\ MatchDomain(l, host) # NoBrand
                /\ \E i \in Owners(l, host) : MatchDomain(l, host).name = l[i].name
<1>1. CASE Owners(l, host) = {}
  <2>1. MatchDomain(l, host) = BestOf(Lookalikes(l, host))
    BY <1>1 DEF MatchDomain
  <2>2. Lookalikes(l, host) = [i \in DOMAIN l |-> LookalikeOf(l[i], host)]
    BY DEF Lookalikes
  <2>3. PICK k : k = Lookalikes(l, host)
    OBVIOUS
  <2>4. \A i \in DOMAIN k : Resembles(k[i])
    BY <2>2, <2>3, LookalikeResembles
  <2>5. k \in Seq({k[i] : i \in DOMAIN k})
    BY <2>2, <2>3
  <2>6. Resembles(BestOf(k))
    BY <2>4, <2>5, BestIsOne, NobodyResembles
  <2> QED
    BY <1>1, <2>1, <2>3, <2>6 DEF Resembles
<1>2. CASE Owners(l, host) # {}
  <2>1. Owners(l, host) \in SUBSET DOMAIN l
    BY DEF Owners
  <2>2. Min(Owners(l, host)) \in Owners(l, host)
    BY <1>2, <2>1, FirstIsIn
  <2>3. PICK b : b = l[Min(Owners(l, host))]
    OBVIOUS
  <2>4. MatchDomain(l, host) = Official(b)
    BY <1>2, <2>3 DEF MatchDomain
  <2>5. /\ IsCandidate(Official(b)) /\ Official(b).method = "domain" /\ Official(b).name = b.name
        /\ Official(b) # NoBrand
    BY DEF Official, Candidate, IsCandidate, NoBrand
  <2> QED
    BY <1>2, <2>2, <2>3, <2>4, <2>5
<1> QED
  BY <1>1, <1>2

\* The list q is p, of a places, and then r, of b places.
Joins(q, p, r, a, b) ==
    /\ Len(q) = a + b /\ DOMAIN q = 1..(a + b)
    /\ \A i \in 1..a : q[i] = p[i]
    /\ \A i \in (a + 1)..(a + b) : q[i] = r[i - a]

LEMMA JoinedLists ==
    ASSUME NEW S, NEW p \in Seq(S), NEW r \in Seq(S), NEW a \in Nat, NEW b \in Nat,
           Len(p) = a, Len(r) = b
    PROVE  p \o r \in Seq(S) /\ Joins(p \o r, p, r, a, b)
<1>1. p \o r \in Seq(S) /\ Len(p \o r) = a + b
  OBVIOUS
<1>2. DOMAIN (p \o r) = 1..(a + b)
  BY <1>1
<1>3. \A i \in 1..a : (p \o r)[i] = p[i]
  OBVIOUS
<1>4. \A i \in (a + 1)..(a + b) : (p \o r)[i] = r[i - a]
  OBVIOUS
<1> QED
  BY <1>1, <1>2, <1>3, <1>4 DEF Joins

\* The sender comes first, and is looked at once.
LEMMA SenderIsFirst ==
    ASSUME NEW m \in Mails
    PROVE  /\ DOMAIN Places(m) = 1..Len(Places(m)) /\ Len(Places(m)) \in Nat
           /\ Len(Places(m)) > 1
           /\ Places(m)[1].kind = "sender" /\ Places(m)[1].host = m.from
           /\ \A i \in DOMAIN Places(m) : i # 1 => Places(m)[i].kind # "sender"
<1> DEFINE first == [kind |-> "sender", host |-> m.from]
           links == [i \in DOMAIN m.links |-> [kind |-> "link", host |-> m.links[i]]]
           rest == [i \in 1..3 |-> [kind |-> <<"logo", "color", "keyword">>[i], host |-> m.from]]
           S == {first} \cup {links[i] : i \in DOMAIN m.links} \cup {rest[i] : i \in 1..3}
<1>1. PICK n \in Nat : n = Len(m.links) /\ DOMAIN m.links = 1..n
  BY BrandAssumption
<1>2. links \in Seq(S) /\ Len(links) = n /\ \A i \in 1..n : links[i].kind = "link"
  BY <1>1
<1>3. /\ rest \in Seq(S) /\ Len(rest) = 3
      /\ rest[1].kind = "logo" /\ rest[2].kind = "color" /\ rest[3].kind = "keyword"
  OBVIOUS
<1>4. Places(m) = (<<first>> \o links) \o rest
  BY DEF Places
<1>5. first \in S /\ first.kind = "sender" /\ first.host = m.from
  OBVIOUS
<1> HIDE DEF first, links, rest, S
<1>6. PICK p, q : p = <<first>> \o links /\ q = p \o rest
  OBVIOUS
<1>7. /\ p \in Seq(S) /\ Len(p) = n + 1 /\ p[1] = first
      /\ \A i \in 2..(n + 1) : p[i] = links[i - 1]
  BY <1>2, <1>5, <1>6
<1>8. /\ q \in Seq(S) /\ Len(q) = n + 4 /\ DOMAIN q = 1..(n + 4)
      /\ \A i \in 1..(n + 1) : q[i] = p[i]
      /\ \A i \in (n + 2)..(n + 4) : q[i] = rest[i - (n + 1)]
  <2>1. PICK a \in Nat : a = n + 1
    OBVIOUS
  <2>2. /\ q \in Seq(S) /\ Len(q) = a + 3 /\ DOMAIN q = 1..(a + 3)
        /\ \A i \in 1..a : q[i] = p[i]
        /\ \A i \in (a + 1)..(a + 3) : q[i] = rest[i - a]
    <3>1. p \in Seq(S) /\ rest \in Seq(S) /\ Len(p) = a /\ Len(rest) = 3 /\ 3 \in Nat
      BY <1>3, <1>7, <2>1
    <3>2. q \in Seq(S) /\ Joins(q, p, rest, a, 3)
      BY <1>6, <2>1, <3>1, JoinedLists
    <3> QED
      BY <3>2 DEF Joins
  <2>3. a + 3 = n + 4 /\ a + 1 = n + 2
    BY <2>1
  <2> QED
    BY <2>1, <2>2, <2>3
<1>9. ASSUME NEW i \in 2..(n + 4)  PROVE q[i].kind # "sender"
  <2>1. CASE i \in 2..(n + 1)
    <3>1. i - 1 \in 1..n
      BY <2>1
    <3> QED
      BY <1>2, <1>7, <1>8, <2>1, <3>1
  <2>2. CASE i \in (n + 2)..(n + 4)
    <3>1. i - (n + 1) \in 1..3
      BY <2>2
    <3>2. i - (n + 1) = 1 \/ i - (n + 1) = 2 \/ i - (n + 1) = 3
      BY <3>1
    <3> QED
      BY <1>3, <1>8, <2>2, <3>2
  <2> QED
    BY <1>9, <2>1, <2>2
<1>10. Places(m) = q
  BY <1>4, <1>6
<1>11. q[1].kind = "sender" /\ q[1].host = m.from
  BY <1>5, <1>7, <1>8
<1> QED
  BY <1>8, <1>9, <1>10, <1>11

LEMMA NoMatchIsRight ==
    ASSUME NEW l
    PROVE  MatchIsRight(NoMatch, l)
<1>1. /\ IsMatch(NoMatch) /\ NoMatch.at = 0 /\ NoMatch.always = {} /\ NoMatch.found = NoBrand
      /\ NoMatch.mail = CHOOSE m \in Mails : TRUE
  BY DEF IsMatch, NoMatch
<1>2. NoMatch.mail \in Mails
  BY <1>1, BrandAssumption
<1> QED
  BY <1>1, <1>2 DEF MatchIsRight, Over

LEMMA MatchInit ==
    ASSUME BrandsInit
    PROVE  MatchInv
BY NoMatchIsRight DEF MatchInv, BrandsInit

LEMMA StartMatchKeeps ==
    ASSUME MatchInv, NEW mail \in Mails, StartMatch(mail)
    PROVE  MatchInv'
<1> DEFINE now == {list[i] : i \in Owners(list, mail.from)}
<1>1. PICK o : o = now
  OBVIOUS
<1> DEFINE m == [NoMatch EXCEPT !.mail = mail, !.at = 1, !.owner = o, !.always = o]
<1>2. matching' = m /\ list' = list
  BY <1>1 DEF StartMatch
<1> HIDE DEF now
<1>3. NoMatch.found = NoBrand /\ NoMatch.official = FALSE /\ IsMatch(NoMatch)
  BY DEF NoMatch, IsMatch
<1>4. /\ IsMatch(m) /\ m.mail = mail /\ m.at = 1 /\ m.found = NoBrand /\ m.official = FALSE
      /\ m.owner = o /\ m.always = o
  BY <1>3 DEF IsMatch
<1> HIDE DEF m
<1>5. IsCandidate(m.found)
  BY <1>4 DEF IsCandidate, NoBrand
<1>6. OwnersIn(list, m) = m.owner
  BY <1>1, <1>4 DEF OwnersIn, now
<1>7. UnderWay(m, list)
  BY <1>4, <1>5, <1>6 DEF UnderWay
<1> QED
  BY <1>2, <1>4, <1>7 DEF MatchInv, MatchIsRight

\* What is found at a place, and what that says of the owners.
FindsOwners(l, m, n, p, s) ==
    /\ n = 1 /\ Owners(l, m.from) # {} =>
         /\ s # NoBrand /\ s.method = "domain"
         /\ \E i \in Owners(l, m.from) : s.name = l[i].name
    /\ n = 1 /\ Owners(l, m.from) = {} => s.method # "domain"
    /\ p.kind = "link" => IsCandidate(s)

LEMMA LookAtIsRight ==
    ASSUME NEW S, NEW l \in Seq(S), NEW m \in Mails, NEW n \in DOMAIN Places(m),
           NEW p, p = Places(m)[n], NEW s, s = LookAt(l, m, p)
    PROVE  FindsOwners(l, m, n, p, s)
<1>2. PICK d : d = MatchDomain(l, p.host)
  OBVIOUS
<1>3. CASE n = 1
  <2>1. p.kind = "sender" /\ p.host = m.from
    BY <1>3, SenderIsFirst
  <2>2. s = d
    BY <1>2, <2>1 DEF LookAt
  <2> QED
    BY <1>2, <1>3, <2>1, <2>2, MatchDomainIsRight DEF FindsOwners
<1>4. CASE n # 1 /\ p.kind = "link"
  <2>1. s = IF d.method = "domain" THEN NoBrand ELSE d
    BY <1>2, <1>4 DEF LookAt
  <2>2. IsCandidate(d) /\ IsCandidate(NoBrand)
    BY <1>2, MatchDomainIsRight DEF IsCandidate, NoBrand
  <2> QED
    BY <1>4, <2>1, <2>2 DEF FindsOwners
<1> QED
  BY <1>3, <1>4 DEF FindsOwners

LEMMA LookKeeps ==
    ASSUME MatchInv, list \in Seq(AllBrands), Look
    PROVE  MatchInv'
<1>1. PICK old, n, p : old = matching /\ n = old.at /\ p = Places(old.mail)[n]
  OBVIOUS
<1>2. PICK s : s = LookAt(list, old.mail, p)
  OBVIOUS
<1> DEFINE m == [old EXCEPT !.found = s, !.at = IF s = NoBrand THEN n + 1 ELSE n]
<1>3. n \in DOMAIN Places(old.mail) /\ old.found = NoBrand /\ matching' = m /\ list' = list
  BY <1>1, <1>2 DEF Look, Looking
<1>4. IsMatch(old) /\ n \in Nat /\ old.mail \in Mails
      /\ IF n = 0 THEN Over(old) ELSE UnderWay(old, list)
  BY <1>1 DEF MatchInv, MatchIsRight
<1>5. DOMAIN Places(old.mail) = 1..Len(Places(old.mail)) /\ Len(Places(old.mail)) \in Nat
      /\ \A i \in DOMAIN Places(old.mail) : i # 1 => Places(old.mail)[i].kind # "sender"
  BY <1>4, SenderIsFirst
<1>6. n # 0 /\ n >= 1
  BY <1>3, <1>4, <1>5
<1>7. UnderWay(old, list)
  BY <1>4, <1>6
<1>8. /\ IsMatch(m) /\ m.mail = old.mail /\ m.found = s /\ m.official = old.official
      /\ m.owner = old.owner /\ m.always = old.always
      /\ m.at = IF s = NoBrand THEN n + 1 ELSE n
  BY <1>4 DEF IsMatch
<1> HIDE DEF m
<1>9. /\ n = 1 /\ Owners(list, old.mail.from) # {} =>
           /\ s # NoBrand /\ s.method = "domain"
           /\ \E i \in Owners(list, old.mail.from) : s.name = list[i].name
      /\ n = 1 /\ Owners(list, old.mail.from) = {} => s.method # "domain"
      /\ p.kind = "link" => IsCandidate(s)
  <2>1. FindsOwners(list, old.mail, n, p, s)
    BY <1>1, <1>2, <1>3, <1>4, LookAtIsRight
  <2> QED
    BY <2>1 DEF FindsOwners
<1>10. OwnersIn(list, m) = OwnersIn(list, old)
  BY <1>8 DEF OwnersIn
<1>11. /\ old.official = FALSE /\ old.always \subseteq OwnersIn(list, old)
       /\ OwnersIn(list, old) \subseteq old.owner
       /\ n > 1 => old.always = {}
  BY <1>1, <1>7 DEF UnderWay
<1>12. CASE s = NoBrand
  <2>1. m.at = n + 1 /\ m.found = NoBrand
    BY <1>8, <1>12
  <2>2. n = 1 => Owners(list, old.mail.from) = {}
    BY <1>9, <1>12
  <2>3. old.always = {}
    <3>1. CASE n = 1
      BY <1>11, <2>2, <3>1 DEF OwnersIn
    <3> QED
      BY <1>4, <1>6, <1>11, <3>1
  <2>4. IsCandidate(NoBrand)
    BY DEF IsCandidate, NoBrand
  <2>5. UnderWay(m, list) /\ m.at # 0 /\ m.at \in Nat
    BY <1>4, <1>6, <1>8, <1>10, <1>11, <2>1, <2>3, <2>4 DEF UnderWay
  <2> QED
    BY <1>3, <1>4, <1>8, <2>5 DEF MatchInv, MatchIsRight
<1>13. CASE s # NoBrand
  <2>1. m.at = n /\ m.found = s
    BY <1>8, <1>13
  <2>2. ASSUME n = 1, s.method = "domain"  PROVE SomeOwnerIsNamed(m)
    <3>1. PICK i \in Owners(list, old.mail.from) : s.name = list[i].name
      BY <1>9, <2>2
    <3>2. list[i] \in OwnersIn(list, old)
      BY <3>1 DEF OwnersIn
    <3>3. list[i] \in old.owner /\ m.owner = old.owner
      BY <1>8, <1>11, <3>2, Zenon
    <3> QED
      BY <2>1, <3>1, <3>3 DEF SomeOwnerIsNamed
  <2>3. ASSUME n = 1, s.method # "domain"  PROVE m.always = {}
    <3>1. Owners(list, old.mail.from) = {}
      BY <1>9, <2>3
    <3> QED
      BY <1>8, <1>11, <3>1 DEF OwnersIn
  <2>4. ASSUME Places(m.mail)[m.at].kind = "link"  PROVE IsCandidate(m.found)
    BY <1>1, <1>8, <1>9, <2>1, <2>4
  <2>5. m.official = FALSE /\ m.always \subseteq OwnersIn(list, m)
        /\ OwnersIn(list, m) \subseteq m.owner
    BY <1>8, <1>10, <1>11
  <2>6. m.at > 1 => m.always = {}
    BY <1>8, <1>11, <2>1
  <2>7. m.at = 1 /\ m.found # NoBrand =>
          IF m.found.method = "domain" THEN SomeOwnerIsNamed(m) ELSE m.always = {}
    BY <2>1, <2>2, <2>3
  <2>8. UnderWay(m, list)
    BY <2>4, <2>5, <2>6, <2>7 DEF UnderWay
  <2> QED
    BY <1>3, <1>4, <1>6, <1>8, <2>1, <2>8 DEF MatchInv, MatchIsRight
<1> QED
  BY <1>12, <1>13

LEMMA DescribeKeeps ==
    ASSUME MatchInv, list \in Seq(AllBrands), Describe
    PROVE  MatchInv'
<1>1. PICK old, n, kind, name : /\ old = matching /\ n = old.at
                                /\ kind = Places(old.mail)[n].kind /\ name = old.found.name
  OBVIOUS
<1>2. PICK where : where = Locale(list, name)
  OBVIOUS
<1>3. PICK says : says = IF kind = "sender" THEN old.found.method = "domain"
                         ELSE IsOfficial(list, name, old.mail.from)
  OBVIOUS
<1>4. PICK seen : seen = IF kind = "link" THEN [old.found EXCEPT !.method = "link_" \o @]
                         ELSE old.found
  OBVIOUS
<1> DEFINE m == [old EXCEPT !.at = 0, !.locale = where, !.official = says, !.found = seen]
<1>5. /\ old.found # NoBrand /\ n \in DOMAIN Places(old.mail)
      /\ matching' = m /\ list' = list
  <2>1. old.found # NoBrand /\ n \in DOMAIN Places(old.mail) /\ list' = list
    BY <1>1 DEF Describe
  <2>2. matching' = [old EXCEPT !.at = 0, !.locale = Locale(list, name),
            !.official = IF kind = "sender" THEN old.found.method = "domain"
                         ELSE IsOfficial(list, name, old.mail.from),
            !.found = IF kind = "link" THEN [old.found EXCEPT !.method = "link_" \o @]
                      ELSE old.found]
    BY <1>1 DEF Describe
  <2> QED
    BY <1>2, <1>3, <1>4, <2>1, <2>2
<1>6. IsMatch(old) /\ n \in Nat /\ old.mail \in Mails
      /\ IF n = 0 THEN Over(old) ELSE UnderWay(old, list)
  BY <1>1 DEF MatchInv, MatchIsRight
<1>7. /\ DOMAIN Places(old.mail) = 1..Len(Places(old.mail)) /\ Len(Places(old.mail)) \in Nat
      /\ Places(old.mail)[1].kind = "sender"
      /\ \A i \in DOMAIN Places(old.mail) : i # 1 => Places(old.mail)[i].kind # "sender"
  BY <1>6, SenderIsFirst
<1>8. n # 0 /\ n >= 1 /\ (n = 1 <=> kind = "sender")
  BY <1>1, <1>5, <1>6, <1>7
<1>9. UnderWay(old, list)
  BY <1>6, <1>8
<1>10. /\ IsMatch(m) /\ m.mail = old.mail /\ m.at = 0 /\ m.found = seen /\ m.official = says
       /\ m.owner = old.owner /\ m.always = old.always
  BY <1>6 DEF IsMatch
<1> HIDE DEF m
<1>11. seen.name = name
  <2>1. kind = "link" => IsCandidate(old.found)
    BY <1>1, <1>5, <1>9 DEF UnderWay
  <2> QED
    BY <1>1, <1>4, <2>1 DEF IsCandidate
<1>12. CASE n = 1
  <2>1. seen = old.found /\ (says <=> old.found.method = "domain")
    BY <1>3, <1>4, <1>8, <1>12
  <2>2. IF old.found.method = "domain" THEN SomeOwnerIsNamed(old) ELSE old.always = {}
    BY <1>1, <1>5, <1>9, <1>12 DEF UnderWay
  <2>3. Over(m)
    BY <1>5, <1>10, <2>1, <2>2 DEF Over, SomeOwnerIsNamed
  <2> QED
    BY <1>5, <1>6, <1>10, <2>3 DEF MatchInv, MatchIsRight
<1>13. CASE n # 1
  <2>1. old.always = {}
    BY <1>1, <1>6, <1>8, <1>9, <1>13 DEF UnderWay
  <2>2. ASSUME says  PROVE \E b \in old.owner : b.name = name
    <3>1. Named(list, name) # {} /\ Owns(Get(list, name), old.mail.from)
      BY <1>3, <1>8, <1>13, <2>2 DEF IsOfficial
    <3>2. PICK k : k = Min(Named(list, name))
      OBVIOUS
    <3>3. k \in Named(list, name)
      <4>1. Named(list, name) \in SUBSET DOMAIN list
        BY DEF Named
      <4> QED
        BY <3>1, <3>2, <4>1, FirstIsIn
    <3>4. k \in DOMAIN list /\ list[k].name = name /\ Owns(list[k], old.mail.from)
      BY <3>1, <3>2, <3>3 DEF Named, Get
    <3>5. list[k] \in OwnersIn(list, old)
      BY <3>4 DEF OwnersIn, Owners
    <3> QED
      BY <1>9, <3>4, <3>5 DEF UnderWay
  <2>3. m.always = {} /\ m.owner = old.owner /\ m.found.name = name /\ m.official = says
    BY <1>10, <1>11, <2>1
  <2>4. Over(m)
    BY <2>2, <2>3 DEF Over, SomeOwnerIsNamed
  <2> QED
    BY <1>5, <1>6, <1>10, <2>4 DEF MatchInv, MatchIsRight
<1> QED
  BY <1>12, <1>13

LEMMA NothingMatchesKeeps ==
    ASSUME MatchInv, NothingMatches
    PROVE  MatchInv'
<1>1. PICK old, n : old = matching /\ n = old.at
  OBVIOUS
<1> DEFINE m == [old EXCEPT !.at = 0]
<1>2. n = Len(Places(old.mail)) + 1 /\ matching' = m /\ list' = list
  BY <1>1 DEF NothingMatches
<1>3. IsMatch(old) /\ n \in Nat /\ old.mail \in Mails
      /\ IF n = 0 THEN Over(old) ELSE UnderWay(old, list)
  BY <1>1 DEF MatchInv, MatchIsRight
<1>4. n > 1 /\ n # 0
  <2>1. Len(Places(old.mail)) \in Nat /\ Len(Places(old.mail)) > 1
    BY <1>3, SenderIsFirst
  <2> QED
    BY <1>2, <2>1
<1>5. /\ IsMatch(m) /\ m.mail = old.mail /\ m.at = 0 /\ m.official = old.official
      /\ m.always = old.always
  BY <1>3 DEF IsMatch
<1> HIDE DEF m
<1>6. old.always = {} /\ old.official = FALSE
  BY <1>1, <1>3, <1>4 DEF UnderWay
<1>7. Over(m)
  BY <1>5, <1>6 DEF Over
<1> QED
  BY <1>2, <1>3, <1>5, <1>7 DEF MatchInv, MatchIsRight

LEMMA AddToListKeepsMatch ==
    ASSUME MatchInv, NEW a \in Adders, AddToList(a)
    PROVE  MatchInv'
<1>1. PICK old, l : old = matching /\ l = list'
  OBVIOUS
<1>2. PICK o : o = OwnersNow(l)
  OBVIOUS
<1> DEFINE m == [old EXCEPT !.owner = @ \cup o, !.always = @ \cap o]
<1>3. matching' = IF old.at = 0 THEN old ELSE m
  BY <1>1, <1>2 DEF AddToList, NoteOwners
<1>4. IsMatch(old) /\ old.at \in Nat /\ old.mail \in Mails
      /\ IF old.at = 0 THEN Over(old) ELSE UnderWay(old, list)
  BY <1>1 DEF MatchInv, MatchIsRight
<1>5. CASE old.at = 0
  BY <1>1, <1>3, <1>4, <1>5 DEF MatchInv, MatchIsRight
<1>6. CASE old.at # 0
  <2>1. /\ IsMatch(m) /\ m.mail = old.mail /\ m.at = old.at /\ m.found = old.found
        /\ m.official = old.official
        /\ m.owner = old.owner \cup o /\ m.always = old.always \cap o
    BY <1>4 DEF IsMatch
  <2> HIDE DEF m
  <2>2. OwnersIn(l, m) = o
    BY <1>1, <1>2, <2>1 DEF OwnersIn, OwnersNow
  <2>3. UnderWay(old, list)
    BY <1>4, <1>6
  <2>4. m.always = old.always \cap o /\ old.owner \subseteq m.owner
    BY <2>1
  <2>5. SomeOwnerIsNamed(old) => SomeOwnerIsNamed(m)
    BY <2>1, <2>4 DEF SomeOwnerIsNamed
  <2>6. UnderWay(m, l)
    BY <2>1, <2>2, <2>3, <2>4, <2>5 DEF UnderWay
  <2> QED
    BY <1>1, <1>3, <1>4, <1>6, <2>1, <2>6 DEF MatchInv, MatchIsRight
<1> QED
  BY <1>5, <1>6

LEMMA MatchUnchanged ==
    ASSUME MatchInv, UNCHANGED <<list, matching>>
    PROVE  MatchInv'
BY DEF MatchInv

LEMMA MatchStep ==
    ASSUME TableInv, MatchInv, BrandsNext
    PROVE  MatchInv'
<1>1. list \in Seq(AllBrands)
  BY DEF TableInv
<1>2. ASSUME NEW a \in Adders, NEW offer \in Offers, NEW org \in Tenants \cup {NoOrg},
             StoreBrand(a, offer, org)
      PROVE  MatchInv'
  BY <1>2, MatchUnchanged DEF StoreBrand
<1>3. ASSUME NEW a \in Adders, StoreBrandFails(a)  PROVE MatchInv'
  BY <1>3, MatchUnchanged DEF StoreBrandFails
<1>4. ASSUME NEW offer \in Offers, NEW org \in Tenants \cup {NoOrg}, AddFromCLI(offer, org)
      PROVE  MatchInv'
  BY <1>4, MatchUnchanged DEF AddFromCLI
<1>5. CASE RestartBrands
  <2>1. matching' = NoMatch
    BY <1>5 DEF RestartBrands
  <2> QED
    BY <2>1, NoMatchIsRight DEF MatchInv
<1> QED
  BY <1>1, <1>2, <1>3, <1>4, <1>5, AddToListKeepsMatch, StartMatchKeeps, LookKeeps,
     DescribeKeeps, NothingMatchesKeeps DEF BrandsNext

-----------------------------------------------------------------------------
(* The brands, for any built-in list, offers, tenants, requests and mails.  *)

BrandsInv == TableInv /\ MatchInv

LEMMA BrandsInvInit ==
    ASSUME Init
    PROVE  BrandsInv
BY TableInit, MatchInit DEF Init, BrandsInv

LEMMA BrandsInvStep ==
    ASSUME BrandsInv, [Next]_vars
    PROVE  BrandsInv'
<1>1. CASE CustomBrands
  <2>1. BrandsNext
    BY <1>1 DEF CustomBrands
  <2> QED
    BY <2>1, TableStep, MatchStep DEF BrandsInv
<1>2. CASE Lists \/ UNCHANGED vars
  <2>1. UNCHANGED brandVars
    BY <1>2 DEF Lists, vars
  <2>2. UNCHANGED <<list, brandRows, adding, unfollowed>> /\ UNCHANGED <<list, matching>>
    BY <2>1 DEF brandVars
  <2> QED
    BY <2>2, TableUnchanged, MatchUnchanged DEF BrandsInv
<1> QED
  BY <1>1, <1>2 DEF Next

\* The list in memory holds a stored brand as the table has it, once the
\* request that stored it is over, but for the brands nobody promised
\* (handleAddBrand, New, Matcher.Add).
THEOREM TheMatcherFollowsTheTable == Spec => []MatcherFollowsTable
<1>1. Init => BrandsInv
  BY BrandsInvInit
<1>2. BrandsInv /\ [Next]_vars => BrandsInv'
  BY BrandsInvStep
<1>3. BrandsInv => MatcherFollowsTable
  BY DEF BrandsInv, TableInv
<1> QED
  BY <1>1, <1>2, <1>3, PTL DEF Spec

\* A message from a domain some brand owns all the time is matched as
\* official whatever is added meanwhile, and one matched as official is from
\* a domain a brand of that name owned while it was looked at (Matcher.Match).
THEOREM OfficialMailIsFromAnOwner == Spec => []OfficialMeansOwner
<1>1. Init => BrandsInv
  BY BrandsInvInit
<1>2. BrandsInv /\ [Next]_vars => BrandsInv'
  BY BrandsInvStep
<1>3. BrandsInv => OfficialMeansOwner
  BY DEF BrandsInv, MatchInv, MatchIsRight, Over, SomeOwnerIsNamed, OfficialMeansOwner, Done
<1> QED
  BY <1>1, <1>2, <1>3, PTL DEF Spec

-----------------------------------------------------------------------------
(* The edit distance.  The table of the code and the sets of costs of all   *)
(* alignments are recursive functions over the same cells; both exist, cell *)
(* after cell by the sum of its indices, and along the same way each number *)
(* of the one is the least of the set of the other.                         *)

Cells(a, b) == (0..Len(a)) \X (0..Len(b))

\* What a cell holds, given the table d.
InTable(d, a, b, i, j) == IF i = 0 THEN j ELSE IF j = 0 THEN i ELSE Cell(d, a, b, i, j)

\* The last operations that an alignment of two beginnings may end with.
Kept(c, a, b, i, j) == IF i > 0 /\ j > 0 /\ a[i] = b[j] THEN c[<<i - 1, j - 1>>] ELSE {}

Swapped(c, a, b, i, j) ==
    IF i > 1 /\ j > 1 /\ SubSeq(a, i - 1, i) = Reverse(SubSeq(b, j - 1, j))
    THEN c[<<i - 2, j - 2>>] ELSE {}

Edited(c, i, j) ==
    (IF i > 0 /\ j > 0 THEN c[<<i - 1, j - 1>>] ELSE {})
    \cup (IF i > 0 THEN c[<<i - 1, j>>] ELSE {})
    \cup (IF j > 0 THEN c[<<i, j - 1>>] ELSE {})

\* The costs of the alignments of two beginnings, given the table c.
Costs(c, a, b, i, j) ==
    IF i = 0 /\ j = 0 THEN {0}
    ELSE Kept(c, a, b, i, j)
         \cup {n + 1 : n \in Swapped(c, a, b, i, j) \cup Edited(c, i, j)}

\* Two tables agree on the cells up to a sum of indices.
SameUpTo(f, g, a, b, k) ==
    \A i \in 0..Len(a), j \in 0..Len(b) : i + j <= k => f[<<i, j>>] = g[<<i, j>>]

LEMMA CellsBefore ==
    ASSUME NEW i \in Nat, NEW j \in Nat, NEW k \in Nat, i + j <= k + 1
    PROVE  /\ i > 0 => i - 1 \in 0..i /\ (i - 1) + j <= k
           /\ j > 0 => j - 1 \in 0..j /\ i + (j - 1) <= k
           /\ i > 0 /\ j > 0 => (i - 1) + (j - 1) <= k
           /\ i > 1 /\ j > 1 => i - 2 \in 0..i /\ j - 2 \in 0..j /\ (i - 2) + (j - 2) <= k
  OBVIOUS

LEMMA EntriesBefore ==
    ASSUME NEW a, NEW b, Len(a) \in Nat, Len(b) \in Nat, NEW f, NEW g, NEW k \in Nat,
           SameUpTo(f, g, a, b, k), NEW i \in 0..Len(a), NEW j \in 0..Len(b), i + j <= k + 1
    PROVE  /\ i > 0 => f[<<i - 1, j>>] = g[<<i - 1, j>>]
           /\ j > 0 => f[<<i, j - 1>>] = g[<<i, j - 1>>]
           /\ i > 0 /\ j > 0 => f[<<i - 1, j - 1>>] = g[<<i - 1, j - 1>>]
           /\ i > 1 /\ j > 1 => f[<<i - 2, j - 2>>] = g[<<i - 2, j - 2>>]
  BY CellsBefore DEF SameUpTo

LEMMA InTableLooksBack ==
    ASSUME NEW a, NEW b, Len(a) \in Nat, Len(b) \in Nat, NEW f, NEW g, NEW k \in Nat,
           SameUpTo(f, g, a, b, k), NEW i \in 0..Len(a), NEW j \in 0..Len(b), i + j <= k + 1
    PROVE  InTable(f, a, b, i, j) = InTable(g, a, b, i, j)
  <1>0. /\ i > 0 => f[<<i - 1, j>>] = g[<<i - 1, j>>]
        /\ j > 0 => f[<<i, j - 1>>] = g[<<i, j - 1>>]
        /\ i > 0 /\ j > 0 => f[<<i - 1, j - 1>>] = g[<<i - 1, j - 1>>]
        /\ i > 1 /\ j > 1 => f[<<i - 2, j - 2>>] = g[<<i - 2, j - 2>>]
    BY EntriesBefore
  <1>1. CASE i = 0 \/ j = 0
    BY <1>1 DEF InTable
  <1>2. CASE i > 0 /\ j > 0
    <2>1. Cell(f, a, b, i, j) = Cell(g, a, b, i, j)
      <3>1. CASE i > 1 /\ j > 1
        BY <1>0, <1>2, <3>1, Zenon DEF Cell
      <3>2. CASE ~(i > 1 /\ j > 1)
        BY <1>0, <1>2, <3>2, Zenon DEF Cell
      <3> QED BY <3>1, <3>2
    <2> QED BY <2>1 DEF InTable
  <1> QED BY <1>1, <1>2

LEMMA CostsLookBack ==
    ASSUME NEW a, NEW b, Len(a) \in Nat, Len(b) \in Nat, NEW f, NEW g, NEW k \in Nat,
           SameUpTo(f, g, a, b, k), NEW i \in 0..Len(a), NEW j \in 0..Len(b), i + j <= k + 1
    PROVE  Costs(f, a, b, i, j) = Costs(g, a, b, i, j)
  <1>0. /\ i > 0 => f[<<i - 1, j>>] = g[<<i - 1, j>>]
        /\ j > 0 => f[<<i, j - 1>>] = g[<<i, j - 1>>]
        /\ i > 0 /\ j > 0 => f[<<i - 1, j - 1>>] = g[<<i - 1, j - 1>>]
        /\ i > 1 /\ j > 1 => f[<<i - 2, j - 2>>] = g[<<i - 2, j - 2>>]
    BY EntriesBefore
  <1>1. Kept(f, a, b, i, j) = Kept(g, a, b, i, j)
    BY <1>0, Zenon DEF Kept
  <1>2. Swapped(f, a, b, i, j) = Swapped(g, a, b, i, j)
    BY <1>0, Zenon DEF Swapped
  <1>3. Edited(f, i, j) = Edited(g, i, j)
    BY <1>0, Zenon DEF Edited
  <1> QED BY <1>1, <1>2, <1>3 DEF Costs

LEMMA TableExists ==
    ASSUME NEW a, NEW b, Len(a) \in Nat, Len(b) \in Nat
    PROVE  \E d : d = [at \in Cells(a, b) |-> InTable(d, a, b, at[1], at[2])]
  <1> DEFINE Right(f, k) == \A i \in 0..Len(a), j \in 0..Len(b) :
                              i + j <= k => f[<<i, j>>] = InTable(f, a, b, i, j)
             S == {k \in Nat : \E f : Right(f, k)}
  <1>1. 0 \in S
    <2>1. Right([at \in Cells(a, b) |-> 0], 0)
      <3>1. \A i \in 0..Len(a), j \in 0..Len(b) : i + j <= 0 => i = 0 /\ j = 0
        OBVIOUS
      <3>2. [at \in Cells(a, b) |-> 0][<<0, 0>>] = 0
        BY DEF Cells
      <3> QED BY <3>1, <3>2 DEF InTable
    <2> QED BY <2>1
  <1>2. ASSUME NEW k \in Nat, k \in S PROVE k + 1 \in S
    <2>1. PICK f : Right(f, k)
      BY <1>2
    <2>2. PICK g : g = [at \in Cells(a, b) |->
                          IF at[1] + at[2] = k + 1 THEN InTable(f, a, b, at[1], at[2]) ELSE f[at]]
      OBVIOUS
    <2>3. \A i \in 0..Len(a), j \in 0..Len(b) :
             g[<<i, j>>] = IF i + j = k + 1 THEN InTable(f, a, b, i, j) ELSE f[<<i, j>>]
      BY <2>2 DEF Cells
    <2>4. SameUpTo(f, g, a, b, k)
      BY <2>3 DEF SameUpTo
    <2>5. ASSUME NEW i \in 0..Len(a), NEW j \in 0..Len(b), i + j <= k + 1
          PROVE  g[<<i, j>>] = InTable(g, a, b, i, j)
      <3>1. InTable(f, a, b, i, j) = InTable(g, a, b, i, j)
        BY <2>4, <2>5, InTableLooksBack
      <3>2. i + j = k + 1 \/ i + j <= k
        BY <2>5
      <3> QED BY <2>1, <2>3, <2>5, <3>1, <3>2
    <2>6. Right(g, k + 1)
      BY <2>5
    <2> HIDE DEF Right
    <2> QED BY <2>6
  <1>3. Len(a) + Len(b) \in S
    <2> HIDE DEF S
    <2>1. Nat \subseteq S
      BY <1>1, <1>2, Reaches
    <2> QED BY <2>1
  <1>4. PICK f : Right(f, Len(a) + Len(b))
    BY <1>3
  <1>5. PICK d : d = [at \in Cells(a, b) |-> f[at]]
    OBVIOUS
  <1>6. \A i \in 0..Len(a), j \in 0..Len(b) : d[<<i, j>>] = f[<<i, j>>]
    BY <1>5 DEF Cells
  <1>7. SameUpTo(f, d, a, b, Len(a) + Len(b))
    BY <1>6 DEF SameUpTo
  <1>8. \A i \in 0..Len(a), j \in 0..Len(b) : d[<<i, j>>] = InTable(d, a, b, i, j)
    <2> SUFFICES ASSUME NEW i \in 0..Len(a), NEW j \in 0..Len(b)
                 PROVE  d[<<i, j>>] = InTable(d, a, b, i, j)
      OBVIOUS
    <2>1. Len(a) + Len(b) \in Nat /\ i + j <= Len(a) + Len(b)
      OBVIOUS
    <2>2. InTable(f, a, b, i, j) = InTable(d, a, b, i, j)
      BY <1>7, <2>1, InTableLooksBack
    <2> QED BY <1>4, <1>6, <2>1, <2>2
  <1>9. d = [at \in Cells(a, b) |-> InTable(d, a, b, at[1], at[2])]
    <2>1. \A at \in Cells(a, b) :
            at = <<at[1], at[2]>> /\ at[1] \in 0..Len(a) /\ at[2] \in 0..Len(b)
      BY DEF Cells
    <2>2. \A at \in Cells(a, b) : d[at] = InTable(d, a, b, at[1], at[2])
      BY <1>8, <2>1
    <2> QED BY <1>5, <2>2
  <1> QED BY <1>9
LEMMA CostsExist ==
    ASSUME NEW a, NEW b, Len(a) \in Nat, Len(b) \in Nat
    PROVE  \E c : c = [at \in Cells(a, b) |-> Costs(c, a, b, at[1], at[2])]
  <1> DEFINE Right(f, k) == \A i \in 0..Len(a), j \in 0..Len(b) :
                              i + j <= k => f[<<i, j>>] = Costs(f, a, b, i, j)
             S == {k \in Nat : \E f : Right(f, k)}
  <1>1. 0 \in S
    <2>1. Right([at \in Cells(a, b) |-> {0}], 0)
      <3>1. \A i \in 0..Len(a), j \in 0..Len(b) : i + j <= 0 => i = 0 /\ j = 0
        OBVIOUS
      <3>2. [at \in Cells(a, b) |-> {0}][<<0, 0>>] = {0}
        BY DEF Cells
      <3> QED BY <3>1, <3>2 DEF Costs
    <2> QED BY <2>1
  <1>2. ASSUME NEW k \in Nat, k \in S PROVE k + 1 \in S
    <2>1. PICK f : Right(f, k)
      BY <1>2
    <2>2. PICK g : g = [at \in Cells(a, b) |->
                          IF at[1] + at[2] = k + 1 THEN Costs(f, a, b, at[1], at[2]) ELSE f[at]]
      OBVIOUS
    <2>3. \A i \in 0..Len(a), j \in 0..Len(b) :
             g[<<i, j>>] = IF i + j = k + 1 THEN Costs(f, a, b, i, j) ELSE f[<<i, j>>]
      BY <2>2 DEF Cells
    <2>4. SameUpTo(f, g, a, b, k)
      BY <2>3 DEF SameUpTo
    <2>5. ASSUME NEW i \in 0..Len(a), NEW j \in 0..Len(b), i + j <= k + 1
          PROVE  g[<<i, j>>] = Costs(g, a, b, i, j)
      <3>1. Costs(f, a, b, i, j) = Costs(g, a, b, i, j)
        BY <2>4, <2>5, CostsLookBack
      <3>2. i + j = k + 1 \/ i + j <= k
        BY <2>5
      <3> QED BY <2>1, <2>3, <2>5, <3>1, <3>2
    <2>6. Right(g, k + 1)
      BY <2>5
    <2> HIDE DEF Right
    <2> QED BY <2>6
  <1>3. Len(a) + Len(b) \in S
    <2> HIDE DEF S
    <2>1. Nat \subseteq S
      BY <1>1, <1>2, Reaches
    <2> QED BY <2>1
  <1>4. PICK f : Right(f, Len(a) + Len(b))
    BY <1>3
  <1>5. PICK c : c = [at \in Cells(a, b) |-> f[at]]
    OBVIOUS
  <1>6. \A i \in 0..Len(a), j \in 0..Len(b) : c[<<i, j>>] = f[<<i, j>>]
    BY <1>5 DEF Cells
  <1>7. SameUpTo(f, c, a, b, Len(a) + Len(b))
    BY <1>6 DEF SameUpTo
  <1>8. \A i \in 0..Len(a), j \in 0..Len(b) : c[<<i, j>>] = Costs(c, a, b, i, j)
    <2> SUFFICES ASSUME NEW i \in 0..Len(a), NEW j \in 0..Len(b)
                 PROVE  c[<<i, j>>] = Costs(c, a, b, i, j)
      OBVIOUS
    <2>1. Len(a) + Len(b) \in Nat /\ i + j <= Len(a) + Len(b)
      OBVIOUS
    <2>2. Costs(f, a, b, i, j) = Costs(c, a, b, i, j)
      BY <1>7, <2>1, CostsLookBack
    <2> QED BY <1>4, <1>6, <2>1, <2>2
  <1>9. c = [at \in Cells(a, b) |-> Costs(c, a, b, at[1], at[2])]
    <2>1. \A at \in Cells(a, b) :
            at = <<at[1], at[2]>> /\ at[1] \in 0..Len(a) /\ at[2] \in 0..Len(b)
      BY DEF Cells
    <2>2. \A at \in Cells(a, b) : c[at] = Costs(c, a, b, at[1], at[2])
      BY <1>8, <2>1
    <2> QED BY <1>5, <2>2
  <1> QED BY <1>9
LEMMA TwoOfMany ==
    ASSUME NEW L, NEW a \in Seq(L), NEW i \in 2..Len(a)
    PROVE  /\ SubSeq(a, i - 1, i) \in Seq(L) /\ Len(SubSeq(a, i - 1, i)) = 2
           /\ SubSeq(a, i - 1, i)[1] = a[i - 1] /\ SubSeq(a, i - 1, i)[2] = a[i]
  <1>1. PICK h \in Nat : h = i - 1
    OBVIOUS
  <1>2. h \in 1..Len(a) /\ i \in 1..Len(a) /\ i = h + 1 /\ Len(a) \in Nat
    BY <1>1
  <1>3. \A k \in h..i : a[k] \in L
    BY <1>2
  <1>4. SubSeq(a, h, i) = [k \in 1..2 |-> a[h + k - 1]]
    BY <1>2 DEF SubSeq
  <1>5. SubSeq(a, h, i) \in Seq(L) /\ Len(SubSeq(a, h, i)) = 2
    BY <1>2, <1>3
  <1>6. SubSeq(a, h, i)[1] = a[h] /\ SubSeq(a, h, i)[2] = a[i]
    BY <1>2
  <1> QED BY <1>1, <1>5, <1>6

\* Two letters are crossed exactly if one pair is the other reversed.
LEMMA CrossedIsReversed ==
    ASSUME NEW a, NEW b, NEW L, a \in Seq(L), b \in Seq(L),
           NEW i \in 2..Len(a), NEW j \in 2..Len(b)
    PROVE  SubSeq(a, i - 1, i) = Reverse(SubSeq(b, j - 1, j)) <=>
             a[i] = b[j - 1] /\ a[i - 1] = b[j]
  <1> DEFINE x == SubSeq(a, i - 1, i)
             y == SubSeq(b, j - 1, j)
  <1>1. x \in Seq(L) /\ Len(x) = 2 /\ x[1] = a[i - 1] /\ x[2] = a[i]
    BY TwoOfMany
  <1>2. y \in Seq(L) /\ Len(y) = 2 /\ y[1] = b[j - 1] /\ y[2] = b[j]
    BY TwoOfMany
  <1>3. x = [k \in 1..2 |-> x[k]]
    BY <1>1
  <1>4. Reverse(y) = [k \in 1..2 |-> y[(2 - k) + 1]]
    BY <1>2 DEF Reverse
  <1> HIDE DEF x, y
  <1>5. Reverse(y)[1] = y[2] /\ Reverse(y)[2] = y[1]
    BY <1>4
  <1>6. x = Reverse(y) <=> x[1] = y[2] /\ x[2] = y[1]
    <2>1. ASSUME x[1] = y[2], x[2] = y[1] PROVE x = Reverse(y)
      <3>1. \A k \in 1..2 : x[k] = y[(2 - k) + 1]
        BY <2>1
      <3> QED BY <1>3, <1>4, <3>1
    <2> QED BY <1>5, <2>1
  <1> QED BY <1>1, <1>2, <1>6 DEF x, y

LEMMA LeastIsMin == ASSUME NEW S PROVE Least(S) = Min(S)
  BY DEF Least, Min

\* A number is the least of a set.
LeastOf(n, S) == S \subseteq Nat /\ n \in S /\ \A k \in S : n <= k

\* The least cost of a cell follows from those of the cells before it.
LEMMA CellIsLeast ==
    ASSUME NEW a, NEW b, NEW L, a \in Seq(L), b \in Seq(L), NEW d, NEW c,
           NEW i \in 1..Len(a), NEW j \in 1..Len(b),
           LeastOf(d[<<i - 1, j>>], c[<<i - 1, j>>]),
           LeastOf(d[<<i, j - 1>>], c[<<i, j - 1>>]),
           LeastOf(d[<<i - 1, j - 1>>], c[<<i - 1, j - 1>>]),
           i > 1 /\ j > 1 => LeastOf(d[<<i - 2, j - 2>>], c[<<i - 2, j - 2>>])
    PROVE  LeastOf(Cell(d, a, b, i, j), Costs(c, a, b, i, j))
  <1>1. PICK up, left, back, over : /\ up = d[<<i - 1, j>>] /\ left = d[<<i, j - 1>>]
                                    /\ back = d[<<i - 1, j - 1>>] /\ over = d[<<i - 2, j - 2>>]
    OBVIOUS
  <1>2. PICK U, F, B, O : /\ U = c[<<i - 1, j>>] /\ F = c[<<i, j - 1>>]
                          /\ B = c[<<i - 1, j - 1>>] /\ O = c[<<i - 2, j - 2>>]
    OBVIOUS
  <1>3. PICK crossed : crossed = (i > 1 /\ j > 1 /\ a[i] = b[j - 1] /\ a[i - 1] = b[j])
    OBVIOUS
  <1>4. PICK cost : cost = IF a[i] = b[j] THEN 0 ELSE 1
    OBVIOUS
  <1>5. /\ LeastOf(up, U) /\ LeastOf(left, F) /\ LeastOf(back, B)
        /\ crossed => LeastOf(over, O)
    BY <1>1, <1>2, <1>3
  <1> DEFINE D == {up + 1, left + 1, back + cost} \cup (IF crossed THEN {over + 1} ELSE {})
  <1>6. Cell(d, a, b, i, j) = Min(D)
    BY <1>1, <1>3, <1>4, LeastIsMin DEF Cell
  <1>7. /\ Kept(c, a, b, i, j) = IF cost = 0 THEN B ELSE {}
        /\ Swapped(c, a, b, i, j) = IF crossed THEN O ELSE {}
        /\ Edited(c, i, j) = B \cup U \cup F
    <2>1. Kept(c, a, b, i, j) = IF cost = 0 THEN B ELSE {}
      BY <1>2, <1>4 DEF Kept
    <2>2. Edited(c, i, j) = B \cup U \cup F
      BY <1>2 DEF Edited
    <2>3. Swapped(c, a, b, i, j) = IF crossed THEN O ELSE {}
      <3>1. CASE i > 1 /\ j > 1
        <4>1. i \in 2..Len(a) /\ j \in 2..Len(b)
          BY <3>1
        <4>2. (SubSeq(a, i - 1, i) = Reverse(SubSeq(b, j - 1, j))) <=> crossed
          <5>1. SubSeq(a, i - 1, i) = Reverse(SubSeq(b, j - 1, j)) <=>
                  a[i] = b[j - 1] /\ a[i - 1] = b[j]
            BY <4>1, CrossedIsReversed
          <5> QED BY <5>1, <3>1, <1>3, Zenon
        <4>3. CASE crossed
          BY <4>2, <4>3, <3>1, <1>2, Zenon DEF Swapped
        <4>4. CASE ~crossed
          BY <4>2, <4>4, Zenon DEF Swapped
        <4> QED BY <4>3, <4>4
      <3>2. CASE ~(i > 1 /\ j > 1)
        BY <3>2, <1>3 DEF Swapped
      <3> QED BY <3>1, <3>2
    <2> QED BY <2>1, <2>2, <2>3
  <1>8. Costs(c, a, b, i, j) =
          (IF cost = 0 THEN B ELSE {})
          \cup {n + 1 : n \in (IF crossed THEN O ELSE {}) \cup (B \cup U \cup F)}
    BY <1>7 DEF Costs
  <1>9. cost \in {0, 1} /\ crossed \in BOOLEAN
    BY <1>3, <1>4
  <1>10. up \in Nat /\ left \in Nat /\ back \in Nat /\ (crossed => over \in Nat)
    BY <1>5 DEF LeastOf
  <1>11. D \subseteq Nat /\ D # {}
    BY <1>9, <1>10
  <1>12. PICK least : least = Min(D)
    OBVIOUS
  <1>13. least \in D /\ \A n \in D : least <= n
    <2> HIDE DEF D
    <2> QED BY <1>11, <1>12, MinIsIn
  <1>14. least \in Nat /\ least <= up + 1 /\ least <= left + 1 /\ least <= back + cost
         /\ (crossed => least <= over + 1)
    BY <1>11, <1>13
  <1>15. \/ least = up + 1 \/ least = left + 1 \/ least = back + cost
         \/ crossed /\ least = over + 1
    <2>1. CASE crossed
      BY <1>13, <2>1
    <2>2. CASE ~crossed
      BY <1>13, <2>2
    <2> QED BY <2>1, <2>2
  <1> DEFINE E == (IF crossed THEN O ELSE {}) \cup (B \cup U \cup F)
  <1>16. up \in E /\ left \in E /\ back \in E /\ back \in B /\ (crossed => over \in E)
    BY <1>5 DEF LeastOf
  <1>17. E \subseteq Nat /\ B \subseteq Nat
    BY <1>5, <1>9 DEF LeastOf
  <1>18. \A n \in E : least <= n + 1
    <2>1. ASSUME NEW n \in E PROVE least <= n + 1
      <3>1. n \in Nat
        BY <1>17
      <3>2. (n \in U /\ up <= n) \/ (n \in F /\ left <= n) \/ (n \in B /\ back <= n)
            \/ (crossed /\ over <= n)
        BY <1>5, <1>9 DEF LeastOf
      <3> HIDE DEF E, D
      <3> QED BY <1>9, <1>10, <1>14, <3>1, <3>2
    <2> QED BY <2>1
  <1>19. cost = 0 => \A n \in B : least <= n
    <2>1. ASSUME cost = 0, NEW n \in B PROVE least <= n
      <3>1. n \in Nat /\ back <= n
        BY <1>5 DEF LeastOf
      <3> HIDE DEF E, D
      <3> QED BY <1>10, <1>14, <2>1, <3>1
    <2> QED BY <2>1
  <1> HIDE DEF D, E
  <1>20. Costs(c, a, b, i, j) = (IF cost = 0 THEN B ELSE {}) \cup {n + 1 : n \in E}
    BY <1>8 DEF E
  <1> DEFINE C == (IF cost = 0 THEN B ELSE {}) \cup {n + 1 : n \in E}
  <1>21. C \subseteq Nat
    <2>1. \A n \in E : n + 1 \in Nat
      BY <1>17
    <2> QED BY <1>17, <2>1
  <1>22. least \in C
    <2>1. back + cost \in C
      <3>1. CASE cost = 0
        BY <3>1, <1>10, <1>16
      <3>2. CASE cost = 1
        BY <3>2, <1>16
      <3> QED BY <3>1, <3>2, <1>9
    <2>2. up + 1 \in C /\ left + 1 \in C /\ (crossed => over + 1 \in C)
      BY <1>16
    <2> HIDE DEF C
    <2> QED BY <1>15, <2>1, <2>2
  <1>23. \A k \in C : least <= k
    BY <1>18, <1>19
  <1> QED BY <1>6, <1>12, <1>20, <1>21, <1>22, <1>23 DEF LeastOf

LEMMA OneMore ==
    ASSUME NEW n \in Nat, NEW m \in Nat, m = n + 1, NEW S, LeastOf(n, S)
    PROVE  LeastOf(m, {k + 1 : k \in S})
  <1>1. \A k \in S : k \in Nat /\ n <= k
    BY DEF LeastOf
  <1>2. \A k \in S : k + 1 \in Nat /\ m <= k + 1
    BY <1>1
  <1> QED BY <1>2 DEF LeastOf

LEMMA TableIsLeast ==
    ASSUME NEW a, NEW b, NEW L, a \in Seq(L), b \in Seq(L), NEW d, NEW c,
           \A i \in 0..Len(a), j \in 0..Len(b) : d[<<i, j>>] = InTable(d, a, b, i, j),
           \A i \in 0..Len(a), j \in 0..Len(b) : c[<<i, j>>] = Costs(c, a, b, i, j)
    PROVE  \A i \in 0..Len(a), j \in 0..Len(b) : LeastOf(d[<<i, j>>], c[<<i, j>>])
  <1> DEFINE Right(k) == \A i \in 0..Len(a), j \in 0..Len(b) :
                           i + j <= k => LeastOf(d[<<i, j>>], c[<<i, j>>])
             S == {k \in Nat : Right(k)}
  <1>0. Len(a) \in Nat /\ Len(b) \in Nat
    OBVIOUS
  <1>1. 0 \in S
    <2>1. LeastOf(d[<<0, 0>>], c[<<0, 0>>])
      <3>1. d[<<0, 0>>] = 0 /\ c[<<0, 0>>] = {0}
        <4>1. 0 \in 0..Len(a) /\ 0 \in 0..Len(b)
          BY <1>0
        <4>2. d[<<0, 0>>] = InTable(d, a, b, 0, 0) /\ c[<<0, 0>>] = Costs(c, a, b, 0, 0)
          BY <4>1
        <4> QED BY <4>2 DEF InTable, Costs
      <3> QED BY <3>1 DEF LeastOf
    <2>2. \A i \in 0..Len(a), j \in 0..Len(b) : i + j <= 0 => i = 0 /\ j = 0
      BY <1>0
    <2> QED BY <2>1, <2>2
  <1>2. ASSUME NEW k \in Nat, k \in S PROVE k + 1 \in S
    <2>1. Right(k)
      BY <1>2
    <2>2. ASSUME NEW i \in 0..Len(a), NEW j \in 0..Len(b), i + j <= k + 1
          PROVE  LeastOf(d[<<i, j>>], c[<<i, j>>])
      <3>1. i \in Nat /\ j \in Nat
        OBVIOUS
      <3>2. d[<<i, j>>] = InTable(d, a, b, i, j) /\ c[<<i, j>>] = Costs(c, a, b, i, j)
        OBVIOUS
      <3>3. CASE i = 0 /\ j = 0
        BY <3>2, <3>3 DEF InTable, Costs, LeastOf
      <3>4. CASE i = 0 /\ j > 0
        <4>1. j - 1 \in 0..Len(b) /\ i + (j - 1) <= k /\ j - 1 \in Nat
          BY <2>2, <3>1, <3>4, <1>0
        <4>2. LeastOf(d[<<i, j - 1>>], c[<<i, j - 1>>])
          BY <2>1, <4>1
        <4>3. d[<<i, j - 1>>] = j - 1
          BY <4>1, <3>4 DEF InTable
        <4>4. c[<<i, j>>] = {n + 1 : n \in c[<<i, j - 1>>]}
          <5>1. /\ Kept(c, a, b, i, j) = {} /\ Swapped(c, a, b, i, j) = {}
                /\ Edited(c, i, j) = c[<<i, j - 1>>]
            BY <3>1, <3>4 DEF Kept, Swapped, Edited
          <5>2. Swapped(c, a, b, i, j) \cup Edited(c, i, j) = c[<<i, j - 1>>]
            BY <5>1
          <5>3. c[<<i, j>>] = {} \cup {n + 1 : n \in c[<<i, j - 1>>]}
            BY <3>1, <3>2, <3>4, <5>1, <5>2 DEF Costs
          <5> QED BY <5>3
        <4>5. d[<<i, j>>] = j
          BY <3>2, <3>4 DEF InTable
        <4>6. PICK C : C = c[<<i, j - 1>>]
          OBVIOUS
        <4>7. LeastOf(j - 1, C)
          BY <4>2, <4>3, <4>6
        <4>8. j = (j - 1) + 1
          BY <3>1
        <4>9. LeastOf(j, {n + 1 : n \in C})
          BY <4>1, <4>7, <3>1, <4>8, OneMore
        <4> QED BY <4>4, <4>5, <4>6, <4>9
      <3>5. CASE i > 0 /\ j = 0
        <4>1. i - 1 \in 0..Len(a) /\ (i - 1) + j <= k /\ i - 1 \in Nat
          BY <2>2, <3>1, <3>5, <1>0
        <4>2. LeastOf(d[<<i - 1, j>>], c[<<i - 1, j>>])
          BY <2>1, <4>1
        <4>3. d[<<i - 1, j>>] = i - 1
          BY <4>1, <3>5 DEF InTable
        <4>4. c[<<i, j>>] = {n + 1 : n \in c[<<i - 1, j>>]}
          <5>1. /\ Kept(c, a, b, i, j) = {} /\ Swapped(c, a, b, i, j) = {}
                /\ Edited(c, i, j) = c[<<i - 1, j>>]
            BY <3>1, <3>5 DEF Kept, Swapped, Edited
          <5>2. Swapped(c, a, b, i, j) \cup Edited(c, i, j) = c[<<i - 1, j>>]
            BY <5>1
          <5>3. c[<<i, j>>] = {} \cup {n + 1 : n \in c[<<i - 1, j>>]}
            BY <3>1, <3>2, <3>5, <5>1, <5>2 DEF Costs
          <5> QED BY <5>3
        <4>5. d[<<i, j>>] = i
          BY <3>2, <3>5 DEF InTable
        <4>6. PICK C : C = c[<<i - 1, j>>]
          OBVIOUS
        <4>7. LeastOf(i - 1, C)
          BY <4>2, <4>3, <4>6
        <4>8. i = (i - 1) + 1
          BY <3>1
        <4>9. LeastOf(i, {n + 1 : n \in C})
          BY <4>1, <4>7, <3>1, <4>8, OneMore
        <4> QED BY <4>4, <4>5, <4>6, <4>9
      <3>6. CASE i > 0 /\ j > 0
        <4>1. /\ i - 1 \in 0..Len(a) /\ j - 1 \in 0..Len(b) /\ i \in 1..Len(a) /\ j \in 1..Len(b)
              /\ (i - 1) + j <= k /\ i + (j - 1) <= k /\ (i - 1) + (j - 1) <= k
              /\ i > 1 /\ j > 1 => /\ i - 2 \in 0..Len(a) /\ j - 2 \in 0..Len(b)
                                   /\ (i - 2) + (j - 2) <= k
          <5>1. \A l \in Nat : \A x \in 0..l : /\ x > 0 => x - 1 \in 0..l /\ x \in 1..l
                                              /\ x > 1 => x - 2 \in 0..l
            OBVIOUS
          <5>2. /\ (i - 1) + j <= k /\ i + (j - 1) <= k /\ (i - 1) + (j - 1) <= k
                /\ i > 1 /\ j > 1 => (i - 2) + (j - 2) <= k
            BY <2>2, <3>1, <3>6, CellsBefore
          <5> QED BY <5>1, <5>2, <3>6, <1>0
        <4>2. LeastOf(d[<<i - 1, j>>], c[<<i - 1, j>>])
          BY <2>1, <4>1
        <4>3. LeastOf(d[<<i, j - 1>>], c[<<i, j - 1>>])
          BY <2>1, <4>1
        <4>4. LeastOf(d[<<i - 1, j - 1>>], c[<<i - 1, j - 1>>])
          BY <2>1, <4>1
        <4>5. i > 1 /\ j > 1 => LeastOf(d[<<i - 2, j - 2>>], c[<<i - 2, j - 2>>])
          BY <2>1, <4>1
        <4>6. LeastOf(Cell(d, a, b, i, j), Costs(c, a, b, i, j))
          BY <4>1, <4>2, <4>3, <4>4, <4>5, CellIsLeast
        <4>7. InTable(d, a, b, i, j) = Cell(d, a, b, i, j)
          BY <3>1, <3>6 DEF InTable
        <4> QED BY <3>2, <4>6, <4>7
      <3> QED BY <3>1, <3>3, <3>4, <3>5, <3>6
    <2>3. Right(k + 1)
      BY <2>2
    <2> HIDE DEF Right
    <2> QED BY <2>3
  <1>3. Len(a) + Len(b) \in S
    <2> HIDE DEF S
    <2>1. Nat \subseteq S
      BY <1>1, <1>2, Reaches
    <2> QED BY <2>1, <1>0
  <1>4. \A i \in 0..Len(a), j \in 0..Len(b) : i + j <= Len(a) + Len(b)
    BY <1>0
  <1> QED BY <1>3, <1>4

\* The table holds, at its end, the least cost of an alignment of two words.
LEMMA DistanceIsLeast ==
    ASSUME NEW L, NEW a \in Seq(L), NEW b \in Seq(L)
    PROVE  DamerauLevenshtein(a, b) = Min(Alignments(a, b))
  <1> DEFINE Table(d) == [at \in Cells(a, b) |-> InTable(d, a, b, at[1], at[2])]
             CostTable(c) == [at \in Cells(a, b) |-> Costs(c, a, b, at[1], at[2])]
  <1>1. PICK d : d = (CHOOSE t : t = Table(t))
    OBVIOUS
  <1>2. PICK c : c = (CHOOSE t : t = CostTable(t))
    OBVIOUS
  <1>3. DamerauLevenshtein(a, b) = d[<<Len(a), Len(b)>>]
    BY <1>1 DEF DamerauLevenshtein, InTable, Cells
  <1>4. Alignments(a, b) = c[<<Len(a), Len(b)>>]
    BY <1>2 DEF Alignments, Costs, Kept, Swapped, Edited, Cells
  <1>5. d = Table(d)
    <2>1. \E t : t = Table(t)
      BY TableExists
    <2> HIDE DEF Table
    <2> QED BY <1>1, <2>1
  <1>6. c = CostTable(c)
    <2>1. \E t : t = CostTable(t)
      BY CostsExist
    <2> HIDE DEF CostTable
    <2> QED BY <1>2, <2>1
  <1>7. \A i \in 0..Len(a), j \in 0..Len(b) : d[<<i, j>>] = InTable(d, a, b, i, j)
    BY <1>5 DEF Cells
  <1>8. \A i \in 0..Len(a), j \in 0..Len(b) : c[<<i, j>>] = Costs(c, a, b, i, j)
    BY <1>6 DEF Cells
  <1>9. PICK n, C : n = d[<<Len(a), Len(b)>>] /\ C = c[<<Len(a), Len(b)>>]
    OBVIOUS
  <1>10. LeastOf(n, C)
    <2>1. Len(a) \in 0..Len(a) /\ Len(b) \in 0..Len(b)
      OBVIOUS
    <2> QED BY <1>7, <1>8, <1>9, <2>1, TableIsLeast
  <1>11. Min(C) \in C /\ \A m \in C : Min(C) <= m
    BY <1>10, MinIsIn DEF LeastOf
  <1>12. n = Min(C)
    <2>1. PICK m : m = Min(C)
      OBVIOUS
    <2>2. m \in C /\ n \in C /\ m <= n /\ n <= m
      BY <2>1, <1>10, <1>11 DEF LeastOf
    <2>3. m \in Nat /\ n \in Nat
      BY <2>2, <1>10 DEF LeastOf
    <2> QED BY <2>1, <2>2, <2>3
  <1> QED BY <1>3, <1>4, <1>9, <1>12

WordsInv == compared \in {<<>>} \cup (Words \X Words)

\* The distance that brand matching uses is the length of the shortest way to
\* edit one word into the other, for words of every length (similarity.go,
\* DamerauLevenshtein).
THEOREM DistancesAreShortest == Spec => []DistanceIsShortest
  <1>1. Init => WordsInv
    BY DEF Init, WordsInv
  <1>2. WordsInv /\ [Next]_vars => WordsInv'
    BY DEF WordsInv, Next, Lists, CustomBrands, vars
  <1>3. WordsInv => DistanceIsShortest
    <2> SUFFICES ASSUME WordsInv, compared # <<>>
                 PROVE  DamerauLevenshtein(compared[1], compared[2])
                          = Min(Alignments(compared[1], compared[2]))
      BY DEF DistanceIsShortest
    <2>1. PICK a \in Words, b \in Words : compared[1] = a /\ compared[2] = b
      BY DEF WordsInv
    <2>2. PICK L : L = Range(a) \cup Range(b)
      OBVIOUS
    <2>3. a \in Seq(L) /\ b \in Seq(L)
      BY <2>2, WordsAssumption
    <2>4. DamerauLevenshtein(a, b) = Min(Alignments(a, b))
      BY <2>3, DistanceIsLeast
    <2> QED BY <2>1, <2>4
  <1> QED BY <1>1, <1>2, <1>3, PTL DEF Spec
=============================================================================
