------------------------------ MODULE OrgLists ------------------------------
(***************************************************************************)
(* The allow and block lists of the organisations (internal/app/lists.go)  *)
(* and everything that edits them.  Analyses read a list through a cache   *)
(* that holds it for thirty seconds; the handlers drop the cache after     *)
(* their edit, the command line runs in a process of its own and cannot.   *)
(* A load looks into the cache under its lock, reads the table without it  *)
(* and writes back under it again.                                         *)
(***************************************************************************)
EXTENDS Naturals, Sequences, SequencesExt

CONSTANTS
    Orgs,          \* the organisations, and
    Global,        \* the empty one, whose entries count for all of them
    Kinds,         \* "allow", "block"
    Values,        \* normalised entries: addresses and domains
    Forms,         \* candidate -> its address, host and registrable domain
    Analyses,      \* analyses that ask at the same time
    Editors,       \* requests that edit at the same time
    MaxEdits,      \* bound: edits of the tables
    MaxListTrouble \* bound: reads of a table or audit writes that fail

ASSUME ListAssumption ==
    /\ Global \notin Orgs
    /\ \A c \in DOMAIN Forms : Forms[c] \in Seq(Values)
    /\ MaxEdits \in Nat /\ MaxListTrouble \in Nat

VARIABLES
    entries,       \* the rows of allowlist and blocklist
    cache,         \* listCache.items
    asking,        \* analysis -> its load under way, and its last answer
    editing,       \* editor -> what is left of its request
    edits, listTrouble,
    everListed,    \* (ghost) every row there ever was
    excused        \* (ghost) keys whose cached list may differ from the table

listVars == <<entries, cache, asking, editing, edits, listTrouble, everListed, excused>>

-----------------------------------------------------------------------------
Entries == (Orgs \cup {Global}) \X Kinds \X Values

Keys == (Orgs \cup {Global}) \X Kinds

Key(org, kind) == <<org, kind>>

Nothing == [held |-> FALSE, values |-> {}]

Held(values) == [held |-> TRUE, values |-> values]

Quiet == [at |-> "idle", org |-> Global, kind |-> CHOOSE k \in Kinds : TRUE,
          about |-> CHOOSE c \in DOMAIN Forms : TRUE, values |-> {},
          failed |-> FALSE, late |-> FALSE, found |-> {}]

ListsInit ==
    /\ entries = {}
    /\ cache = [k \in Keys |-> Nothing]
    /\ asking = [a \in Analyses |-> Quiet]
    /\ editing = [e \in Editors |-> "idle"]
    /\ edits = 0 /\ listTrouble = 0
    /\ everListed = {}
    /\ excused = {}

\* ListEntries: the organisation's own rows and the global ones.
ListEntries(table, org, kind) ==
    {v \in Values : <<org, kind, v>> \in table \/ <<Global, kind, v>> \in table}

-----------------------------------------------------------------------------
(* IsAllowed and IsBlocked: load the list, then match the candidate exactly *)
(* as address, host or registrable domain.                                  *)

Match(values, candidate) ==
    LET hits == {i \in DOMAIN Forms[candidate] : Forms[candidate][i] \in values} IN
    IF hits = {} THEN {} ELSE {Forms[candidate][Min(hits)]}

Answer(a, values) ==
    asking' = [asking EXCEPT ![a].at = "idle", ![a].values = {},
                             ![a].failed = FALSE, ![a].late = FALSE,
                             ![a].found = Match(values, asking[a].about)]

Ask(a, org, kind, candidate) ==
    /\ asking[a].at = "idle"
    /\ asking' = [asking EXCEPT ![a] =
         [Quiet EXCEPT !.at = "lookup", !.org = org, !.kind = kind, !.about = candidate]]
    /\ UNCHANGED <<entries, cache, editing, edits, listTrouble, everListed, excused>>

KeyOf(a) == Key(asking[a].org, asking[a].kind)

CacheHit(a) ==
    /\ asking[a].at = "lookup"
    /\ cache[KeyOf(a)].held
    /\ Answer(a, cache[KeyOf(a)].values)
    /\ UNCHANGED <<entries, cache, editing, edits, listTrouble, everListed, excused>>

\* Not cached, or expired: the table is read with the lock released, and a
\* read that fails or is cancelled counts as an empty list.
ReadTable(a) ==
    /\ asking[a].at = "lookup"
    /\ ~cache[KeyOf(a)].held
    /\ \/ /\ asking' = [asking EXCEPT ![a].at = "store",
                ![a].values = ListEntries(entries, asking[a].org, asking[a].kind)]
          /\ UNCHANGED listTrouble
       \/ /\ listTrouble < MaxListTrouble
          /\ listTrouble' = listTrouble + 1
          /\ asking' = [asking EXCEPT ![a].at = "store", ![a].failed = TRUE]
    /\ UNCHANGED <<entries, cache, editing, edits, everListed, excused>>

\* Written back whatever was edited or dropped in between.
WriteBack(a) ==
    /\ asking[a].at = "store"
    /\ cache' = [cache EXCEPT ![KeyOf(a)] = Held(asking[a].values)]
    /\ excused' = IF asking[a].failed \/ asking[a].late
                  THEN excused \cup {KeyOf(a)} ELSE excused \ {KeyOf(a)}
    /\ Answer(a, asking[a].values)
    /\ UNCHANGED <<entries, editing, edits, listTrouble, everListed>>

\* Fault: the expiry is set but never compared.
ExpireNever(k) ==
    /\ FALSE
    /\ UNCHANGED listVars

\* Thirty seconds pass.
Expire(k) ==
    /\ cache[k].held
    /\ cache' = [cache EXCEPT ![k] = Nothing]
    /\ excused' = excused \ {k}
    /\ UNCHANGED <<entries, asking, editing, edits, listTrouble, everListed>>

-----------------------------------------------------------------------------
(* Edits.  AddEntry inserts or ignores; RemoveEntry of a row that is not    *)
(* there is ErrNotFound and changes nothing.                                *)

\* Loads under way have read the table as it was before.
MarkLate ==
    asking' = [a \in Analyses |->
        [asking[a] EXCEPT !.late = @ \/ asking[a].at = "store"]]

WriteTable(entry, add) ==
    /\ edits < MaxEdits
    /\ edits' = edits + 1
    /\ add \/ entry \in entries
    /\ entries' = IF add THEN entries \cup {entry} ELSE entries \ {entry}
    /\ everListed' = everListed \cup entries'
    /\ MarkLate

\* An edit that the cached lists never hear of.
ExcuseCached == excused' = excused \cup {k \in Keys : cache[k].held}

\* InvalidateListCache drops every organisation's lists.
InvalidateListCache ==
    /\ cache' = [k \in Keys |-> Nothing]
    /\ excused' = {}

\* Fault: a removal does not drop the cache.
RemoveEntryKeepsCache(e, entry, add) ==
    /\ editing[e] = "idle"
    /\ WriteTable(entry, add)
    /\ editing' = [editing EXCEPT ![e] = IF add THEN "invalidate" ELSE "idle"]
    /\ UNCHANGED <<cache, listTrouble, excused>>

\* handleAddEntry and handleRemoveEntry write the row and drop the cache.
EditEntry(e, entry, add) ==
    /\ editing[e] = "idle"
    /\ WriteTable(entry, add)
    /\ editing' = [editing EXCEPT ![e] = "invalidate"]
    /\ UNCHANGED <<cache, listTrouble, excused>>

\* handleBlockDomain: BlockDomain writes the entry for the organisation of the
\* submission and audits it; only when both succeed is the cache dropped.
BlockDomain(e, org, value) ==
    /\ editing[e] = "idle"
    /\ WriteTable(<<org, "block", value>>, TRUE)
    /\ editing' = [editing EXCEPT ![e] = "audit"]
    /\ UNCHANGED <<cache, listTrouble, excused>>

AuditBlock(e) ==
    /\ editing[e] = "audit"
    /\ \/ /\ editing' = [editing EXCEPT ![e] = "invalidate"]
          /\ UNCHANGED <<listTrouble, excused>>
       \/ /\ listTrouble < MaxListTrouble
          /\ listTrouble' = listTrouble + 1
          /\ editing' = [editing EXCEPT ![e] = "idle"]
          /\ ExcuseCached
    /\ UNCHANGED <<entries, cache, asking, edits, everListed>>

Invalidate(e) ==
    /\ editing[e] = "invalidate"
    /\ editing' = [editing EXCEPT ![e] = "idle"]
    /\ InvalidateListCache
    /\ UNCHANGED <<entries, asking, edits, listTrouble, everListed>>

\* phishlens lists add and remove: the service's cache is out of reach.
EditFromCLI(entry, add) ==
    /\ WriteTable(entry, add)
    /\ ExcuseCached
    /\ UNCHANGED <<cache, editing, listTrouble>>

-----------------------------------------------------------------------------
ListWorks ==
    \/ \E a \in Analyses : CacheHit(a) \/ ReadTable(a) \/ WriteBack(a)
    \/ \E e \in Editors : AuditBlock(e) \/ Invalidate(e)
    \/ \E k \in Keys : Expire(k)

ListRequests ==
    \/ \E a \in Analyses, org \in Orgs \cup {Global}, kind \in Kinds, c \in DOMAIN Forms :
         Ask(a, org, kind, c)
    \/ \E entry \in Entries, add \in BOOLEAN :
         \/ \E e \in Editors : EditEntry(e, entry, add)
         \/ EditFromCLI(entry, add)
    \/ \E e \in Editors, org \in Orgs \cup {Global}, value \in Values :
         BlockDomain(e, org, value)

ListsNext == ListWorks \/ ListRequests

ListFairness ==
    /\ \A a \in Analyses :
         WF_listVars(ReadTable(a)) /\ WF_listVars(WriteBack(a))
    /\ \A e \in Editors : WF_listVars(AuditBlock(e)) /\ WF_listVars(Invalidate(e))
    /\ \A k \in Keys : WF_listVars(Expire(k))

-----------------------------------------------------------------------------
\* A cached list is what the table holds, except while a request stands
\* between its row and the invalidation, and for what the cache does not
\* promise: a read that failed, a list read before an edit and written back
\* after it, a blocked domain whose audit failed, an edit from the command
\* line.  Nothing else makes an analysis use an old list (lists.go, load;
\* handleAddEntry, handleRemoveEntry, handleBlockDomain).
CacheAgreesWithTable ==
    \A k \in Keys :
        \/ ~cache[k].held
        \/ cache[k].values = ListEntries(entries, k[1], k[2])
        \/ \E e \in Editors : editing[e] # "idle"
        \/ k \in excused

\* What an analysis is told was listed for its own organisation or for all:
\* no interleaving of loads, edits and invalidations shows one tenant's entry
\* to another, or an allowed one as blocked (lists.go, load and match).
ListsStayApart ==
    \A a \in Analyses : \A v \in asking[a].found :
        v \in ListEntries(everListed, asking[a].org, asking[a].kind)

\* Neither the cache nor an analysis shows a list that is not there (the two
\* conditions above).
ListsAreRight == CacheAgreesWithTable /\ ListsStayApart

\* Once a list is no longer edited, every copy in the cache is that list for
\* good, whatever raced with the last edits: stale copies do not outlive
\* their thirty seconds, and loads do not bring them back (lists.go, load).
ListsConverge ==
    \A k \in Keys : \A S \in SUBSET Values :
        <>[](ListEntries(entries, k[1], k[2]) = S)
            => <>[](cache[k].held => cache[k].values = S)
=============================================================================
