--------------------------- MODULE Receivers_proofs ---------------------------
(***************************************************************************)
(* What the three receivers promise, for any number of messages, failures  *)
(* and restarts, any size of page and of reply and any organisations: no   *)
(* message is lost behind Graph's delta link, a chat's mail is analysed    *)
(* for its organisation, repetitions have a cause, only analysed mail is   *)
(* moved, and all of them implement the mailbox.  Each receiver has an     *)
(* inductive invariant of its own about the place it has reached.          *)
(***************************************************************************)
EXTENDS Receivers, NaturalsInduction, WellFoundedInduction, TLAPS

\* Induction over the natural numbers.
LEMMA Reaches ==
    ASSUME NEW S, 0 \in S, \A n \in Nat : n \in S => n + 1 \in S
    PROVE  Nat \subseteq S
  <1> DEFINE Less == {ss \in Nat \X Nat : ss[1] < ss[2]}
  <1>1. IsWellFoundedOn(Less, Nat)
    BY NatLessThanWellFounded DEF OpToRel
  <1>2. SUFFICES ASSUME Nat \ S # {} PROVE FALSE
    OBVIOUS
  <1>3. PICK n \in Nat \ S : \A m \in Nat \ S : <<m, n>> \notin Less
    BY <1>1, <1>2, WFMin, Zenon
  <1>4. n # 0 /\ n - 1 \in Nat
    OBVIOUS
  <1>5. <<n - 1, n>> \in Less
    BY <1>4
  <1>6. n - 1 \in S
    BY <1>3, <1>4, <1>5
  <1> QED BY <1>4, <1>6

\* The filter is computed one element after the other.
Filters(s, gone, f, N) ==
    f = [n \in 0..N |-> IF n = 0 THEN <<>>
                        ELSE IF s[n] \in gone THEN f[n - 1]
                        ELSE Append(f[n - 1], s[n])]

LEMMA FilterExists ==
    ASSUME NEW s, NEW gone, NEW N \in Nat PROVE \E f : Filters(s, gone, f, N)
  <1> DEFINE S == {n \in Nat : \E f : Filters(s, gone, f, n)}
  <1>1. 0 \in S
    <2> DEFINE f == [n \in 0..0 |-> <<>>]
    <2>1. Filters(s, gone, f, 0)
      BY DEF Filters
    <2> QED BY <2>1
  <1>2. ASSUME NEW n \in Nat, n \in S PROVE n + 1 \in S
    <2>1. PICK f : Filters(s, gone, f, n)
      BY <1>2
    <2> DEFINE v == IF s[n + 1] \in gone THEN f[n] ELSE Append(f[n], s[n + 1])
               g == [k \in 0..n + 1 |-> IF k = n + 1 THEN v ELSE f[k]]
    <2>2. DOMAIN f = 0..n /\ \A k \in 0..n : f[k] = IF k = 0 THEN <<>>
                        ELSE IF s[k] \in gone THEN f[k - 1]
                        ELSE Append(f[k - 1], s[k])
      BY <2>1 DEF Filters
    <2> HIDE DEF v
    <2>3. ASSUME NEW k \in 0..n + 1
          PROVE  g[k] = IF k = 0 THEN <<>>
                        ELSE IF s[k] \in gone THEN g[k - 1]
                        ELSE Append(g[k - 1], s[k])
      <3>1. CASE k = n + 1
        <4>1. g[k] = v /\ g[k-1] = f[n] /\ k # 0
          BY <3>1
        <4> QED BY <4>1, <3>1 DEF v
      <3>2. CASE k \in 0..n
        <4>1. g[k] = f[k] /\ (k # 0 => g[k - 1] = f[k - 1])
          BY <3>2
        <4> QED BY <2>2, <3>2, <4>1
      <3> QED BY <3>1, <3>2
    <2>4. Filters(s, gone, g, n + 1)
      BY <2>3 DEF Filters
    <2> QED BY <2>4
  <1> HIDE DEF S
  <1>3. N \in S
    BY <1>1, <1>2, Reaches
  <1> QED BY <1>3 DEF S

LEMMA WithoutIs ==
    ASSUME NEW s, NEW gone, Len(s) \in Nat
    PROVE  \E f : Filters(s, gone, f, Len(s)) /\ Without(s, gone) = f[Len(s)]
  <1> DEFINE kept == CHOOSE f : Filters(s, gone, f, Len(s))
  <1>1. Filters(s, gone, kept, Len(s))
    BY FilterExists
  <1>2. Without(s, gone) = kept[Len(s)]
    BY DEF Without, Filters
  <1> QED BY <1>1, <1>2

\* An element of a sequence.
LEMMA Element ==
    ASSUME NEW S, NEW s \in Seq(S), NEW i \in 1..Len(s) PROVE s[i] \in S
  OBVIOUS

OneOfEach(s) == \A i \in 1..Len(s), j \in 1..Len(s) : s[i] = s[j] => i = j

LEMMA WithoutFacts ==
    ASSUME NEW S, NEW s \in Seq(S), NEW gone
    PROVE  /\ Without(s, gone) \in Seq(S \ gone)
           /\ OneOfEach(s) => OneOfEach(Without(s, gone))
  <1>1. Len(s) \in Nat
    OBVIOUS
  <1>2. PICK f : Filters(s, gone, f, Len(s)) /\ Without(s, gone) = f[Len(s)]
    BY <1>1, WithoutIs
  <1> DEFINE Good(t, n) == /\ t \in Seq(S \ gone)
                           /\ \A i \in 1..Len(t) : \E j \in 1..n : t[i] = s[j]
                           /\ OneOfEach(s) => OneOfEach(t)
             G == {n \in Nat : n <= Len(s) => Good(f[n], n)}
  <1>3. 0 \in G
    <2>1. f[0] = <<>>
      BY <1>1, <1>2 DEF Filters
    <2>2. <<>> \in Seq(S \ gone) /\ Len(<<>>) = 0
      OBVIOUS
    <2>3. Good(<<>>, 0)
      BY <2>2 DEF OneOfEach
    <2> QED BY <2>1, <2>3
  <1>4. ASSUME NEW n \in Nat, n \in G PROVE n + 1 \in G
    <2> SUFFICES ASSUME n + 1 <= Len(s) PROVE Good(f[n + 1], n + 1)
      OBVIOUS
    <2>1. Good(f[n], n)
      BY <1>1, <1>4
    <2>2. f[n + 1] = IF s[n + 1] \in gone THEN f[n] ELSE Append(f[n], s[n + 1])
      <3>1. n + 1 \in 0..Len(s) /\ n + 1 # 0 /\ n + 1 - 1 = n
        BY <1>1
      <3>2. \A k \in 0..Len(s) : f[k] = IF k = 0 THEN <<>>
                                        ELSE IF s[k] \in gone THEN f[k - 1]
                                        ELSE Append(f[k - 1], s[k])
        BY <1>2 DEF Filters
      <3> QED BY <3>1, <3>2
    <2>3. CASE s[n + 1] \in gone
      BY <2>1, <2>2, <2>3
    <2>4. CASE s[n + 1] \notin gone
      <3> DEFINE t == f[n]
                 u == Append(t, s[n + 1])
      <3>1. t \in Seq(S \ gone) /\ s[n + 1] \in S \ gone
        BY <1>1, <2>1, <2>4
      <3>2. u \in Seq(S \ gone) /\ Len(u) = Len(t) + 1 /\ Len(t) \in Nat
            /\ u[Len(t) + 1] = s[n + 1] /\ \A i \in 1..Len(t) : u[i] = t[i]
        BY <3>1
      <3>3. \A i \in 1..Len(t) : \E j \in 1..n : t[i] = s[j]
        BY <2>1
      <3> HIDE DEF t, u
      <3>4. \A i \in 1..Len(u) : \E j \in 1..n + 1 : u[i] = s[j]
        BY <3>2, <3>3
      <3>5. ASSUME OneOfEach(s), OneOfEach(t) PROVE OneOfEach(u)
        <4>1. \A i \in 1..Len(t) : u[i] # s[n + 1]
          BY <1>1, <3>2, <3>3, <3>5 DEF OneOfEach
        <4> QED BY <3>2, <3>5, <4>1 DEF OneOfEach
      <3>6. Good(u, n + 1)
        BY <2>1, <3>2, <3>4, <3>5 DEF t
      <3> QED BY <2>2, <2>4, <3>6 DEF t, u
    <2> QED BY <2>3, <2>4
  <1> HIDE DEF G
  <1>5. Len(s) \in G
    BY <1>1, <1>3, <1>4, Reaches
  <1> QED BY <1>1, <1>2, <1>5 DEF G
\* A message that needs nothing more.
Done(m) == kind[m] # "gone" => filed[m] # {} /\ m \in read

GraphShape ==
    /\ kind \in Seq({"mail", "bad", "gone"})
    /\ filed \in Seq(SUBSET Orgs)
    /\ Len(filed) = Len(kind)
    /\ inHand \in Seq(1..Len(kind))
    /\ {link, saved, page.to} \subseteq 0..Len(kind)
    /\ page \in [to : Nat, more : BOOLEAN]

\* What lies before a link is done, and before the end of the current page
\* it is done or still in hand.
NothingSkipped ==
    /\ \A m \in 1..link : Done(m)
    /\ \A m \in 1..saved : Done(m)
    /\ pc \in {"paging", "saving"} => \A m \in 1..page.to : Done(m)
    /\ pc = "working" =>
         \A m \in 1..page.to : Done(m) \/ \E i \in 1..Len(inHand) : inHand[i] = m

DeltaInv ==
    /\ channel = "graph" => GraphShape /\ NothingSkipped
    /\ channel # "graph" => link = 0

-----------------------------------------------------------------------------
LEMMA DeltaInit == Init => DeltaInv
  BY DEF Init, IntakeInit, GraphInit, DeltaInv, GraphShape, NothingSkipped

LEMMA HomeIsOrg == Home \in Orgs
  BY OrgsAssumption DEF Home

\* Taking the head off a sequence leaves everything else in it.
LEMMA TailKeeps ==
    ASSUME NEW S, NEW s \in Seq(S), s # <<>>
    PROVE  /\ Head(s) \in S /\ Tail(s) \in Seq(S)
           /\ \A i \in 1..Len(s) :
                s[i] = Head(s) \/ \E j \in 1..Len(Tail(s)) : Tail(s)[j] = s[i]
  <1>1. /\ Head(s) = s[1] /\ Head(s) \in S /\ Tail(s) \in Seq(S)
        /\ Len(Tail(s)) = Len(s) - 1 /\ Len(s) \in Nat \ {0}
        /\ \A j \in 1..Len(s) - 1 : Tail(s)[j] = s[j + 1]
    OBVIOUS
  <1>2. ASSUME NEW i \in 1..Len(s), i # 1
        PROVE  i - 1 \in 1..Len(Tail(s)) /\ Tail(s)[i - 1] = s[i]
    BY <1>1, <1>2
  <1> QED BY <1>1, <1>2

\* What is done stays done, so nothing is skipped while the links stand.
LEMMA StaysDone ==
    ASSUME GraphShape, NothingSkipped, UNCHANGED <<pc, inHand, link, saved, page>>,
           \A m \in 1..Len(kind) : Done(m) => Done(m)'
    PROVE  NothingSkipped'
  <1>1. /\ \A m \in 1..link : m \in 1..Len(kind)
        /\ \A m \in 1..saved : m \in 1..Len(kind)
        /\ \A m \in 1..page.to : m \in 1..Len(kind)
    BY DEF GraphShape
  <1>2. /\ \A m \in 1..link : Done(m)'
        /\ \A m \in 1..saved : Done(m)'
    BY <1>1 DEF NothingSkipped
  <1>3. pc \in {"paging", "saving"} => \A m \in 1..page.to : Done(m)'
    BY <1>1 DEF NothingSkipped
  <1>4. pc = "working" =>
          \A m \in 1..page.to : Done(m)' \/ \E i \in 1..Len(inHand) : inHand[i] = m
    BY <1>1 DEF NothingSkipped
  <1> QED BY <1>2, <1>3, <1>4 DEF NothingSkipped

\* A message that enters leaves those before it as they are.
LEMMA EntersStep ==
    ASSUME DeltaInv, GraphEnters PROVE DeltaInv'
  <1>1. PICK k \in {"mail", "bad", "gone"} :
          /\ kind' = Append(kind, k) /\ filed' = Append(filed, {})
          /\ UNCHANGED <<channel, pc, inHand, graphVars>> /\ channel = "graph"
    BY DEF GraphEnters, Enters, Kinds
  <1>2. /\ kind' \in Seq({"mail", "bad", "gone"}) /\ filed' \in Seq(SUBSET Orgs)
        /\ Len(kind') = Len(kind) + 1 /\ Len(filed') = Len(filed) + 1
        /\ \A m \in 1..Len(kind) : kind'[m] = kind[m] /\ filed'[m] = filed[m]
    BY <1>1 DEF DeltaInv, GraphShape
  <1>3. GraphShape'
    BY <1>1, <1>2 DEF DeltaInv, GraphShape, graphVars
  <1>4. \A m \in 1..Len(kind) : Done(m) => Done(m)'
    BY <1>1, <1>2 DEF Done, graphVars
  <1>5. NothingSkipped'
    BY <1>1, <1>4, StaysDone DEF DeltaInv, graphVars
  <1> QED BY <1>1, <1>3, <1>5 DEF DeltaInv

\* A page that is fetched begins where everything before it is done.
LEMMA FetchStep ==
    ASSUME DeltaInv, FetchPage PROVE DeltaInv'
  <1> DEFINE from == IF pc = "idle" THEN link ELSE page.to
  <1>1. /\ channel = "graph" /\ pc' = "working" /\ pc \in {"idle", "paging"}
        /\ page' = PageFrom(from)
        /\ inHand' = [i \in 1..(page'.to - from) |-> from + i]
        /\ UNCHANGED <<channel, kind, filed, link, saved, read>>
    BY DEF FetchPage
  <1>2. from \in 0..Len(kind) /\ \A m \in 1..from : Done(m)
    BY <1>1 DEF DeltaInv, GraphShape, NothingSkipped
  <1>3. /\ page'.to \in from..Len(kind) /\ page' \in [to : Nat, more : BOOLEAN]
    <2>1. Len(kind) \in Nat /\ PageSize \in Nat
      BY <1>1, PageAssumption DEF DeltaInv, GraphShape
    <2> HIDE DEF from
    <2> QED BY <1>1, <1>2, <2>1 DEF PageFrom
  <1>4. inHand' \in Seq(1..Len(kind)) /\ Len(inHand') = page'.to - from
    <2> HIDE DEF from
    <2>1. Len(kind) \in Nat /\ page'.to - from \in Nat
      BY <1>1, <1>2, <1>3 DEF DeltaInv, GraphShape
    <2>2. \A i \in 1..(page'.to - from) : from + i \in 1..Len(kind)
      BY <1>2, <1>3, <2>1
    <2> QED BY <1>1, <2>1, <2>2
  <1>5. GraphShape'
    BY <1>1, <1>3, <1>4 DEF DeltaInv, GraphShape
  <1>6. ASSUME NEW m \in 1..page'.to
        PROVE  Done(m) \/ \E i \in 1..Len(inHand') : inHand'[i] = m
    <2> HIDE DEF from
    <2>1. CASE m <= from
      BY <1>2, <2>1
    <2>2. CASE m > from
      <3>1. m - from \in 1..Len(inHand') /\ inHand'[m - from] = m
        BY <1>1, <1>2, <1>3, <1>4, <2>2
      <3> QED BY <3>1
    <2> QED BY <1>2, <1>3, <2>1, <2>2
  <1>7. NothingSkipped'
    BY <1>1, <1>6 DEF DeltaInv, NothingSkipped, Done
  <1> QED BY <1>1, <1>5, <1>7 DEF DeltaInv

\* One message of the page in hand is done or needs nothing.
LEMMA TakenOffStep ==
    ASSUME DeltaInv, channel = "graph", pc = "working", inHand # <<>>,
           NEW k, k = Head(inHand), inHand' = Tail(inHand),
           UNCHANGED <<channel, kind, pc, link, saved, page>>,
           filed' \in Seq(SUBSET Orgs), Len(filed') = Len(filed),
           \A m \in 1..Len(kind) : Done(m) => Done(m)', Done(k)'
    PROVE  DeltaInv'
  <1>1. GraphShape /\ NothingSkipped
    BY DEF DeltaInv
  <1>2. /\ Head(inHand) \in 1..Len(kind) /\ Tail(inHand) \in Seq(1..Len(kind))
        /\ \A i \in 1..Len(inHand) :
             inHand[i] = Head(inHand) \/ \E j \in 1..Len(inHand') : inHand'[j] = inHand[i]
    BY <1>1, TailKeeps DEF GraphShape
  <1>3. GraphShape'
    BY <1>1, <1>2 DEF GraphShape
  <1>4. /\ \A m \in 1..link : m \in 1..Len(kind)
        /\ \A m \in 1..saved : m \in 1..Len(kind)
        /\ \A m \in 1..page.to : m \in 1..Len(kind)
    BY <1>1 DEF GraphShape
  <1>5. /\ \A m \in 1..link : Done(m)'
        /\ \A m \in 1..saved : Done(m)'
    BY <1>1, <1>4 DEF NothingSkipped
  <1>6. ASSUME NEW m \in 1..page.to
        PROVE  Done(m)' \/ \E j \in 1..Len(inHand') : inHand'[j] = m
    <2>1. CASE Done(m)
      BY <1>4, <2>1
    <2>2. CASE \E i \in 1..Len(inHand) : inHand[i] = m
      <3>1. PICK i \in 1..Len(inHand) : inHand[i] = m
        BY <2>2
      <3>2. CASE m = Head(inHand)
        BY <3>2
      <3>3. CASE \E j \in 1..Len(inHand') : inHand'[j] = m
        BY <3>3
      <3> QED BY <1>2, <3>1, <3>2, <3>3
    <2> QED BY <1>1, <2>1, <2>2 DEF NothingSkipped
  <1>7. NothingSkipped'
    BY <1>5, <1>6 DEF NothingSkipped
  <1> QED BY <1>3, <1>7 DEF DeltaInv

\* A verdict and a mark more leave what is done done.
LEMMA FilingKeeps ==
    ASSUME GraphShape, NEW k \in 1..Len(kind),
           Files(k, Home) \/ UNCHANGED filed, read \subseteq read', UNCHANGED kind
    PROVE  /\ filed' \in Seq(SUBSET Orgs) /\ Len(filed') = Len(filed)
           /\ \A m \in 1..Len(kind) : Done(m) => Done(m)'
  <1>1. /\ filed' \in Seq(SUBSET Orgs) /\ Len(filed') = Len(filed)
        /\ \A m \in 1..Len(kind) : filed[m] \subseteq filed'[m]
    <2>1. filed \in Seq(SUBSET Orgs) /\ k \in 1..Len(filed) /\ Len(filed) = Len(kind)
      BY DEF GraphShape
    <2>2. CASE Files(k, Home)
      <3>1. filed' = [filed EXCEPT ![k] = filed[k] \cup {Home}]
        BY <2>2 DEF Files
      <3>2. filed[k] \cup {Home} \in SUBSET Orgs
        BY <2>1, HomeIsOrg
      <3> QED BY <2>1, <3>1, <3>2
    <2>3. CASE UNCHANGED filed
      BY <2>1, <2>3
    <2> QED BY <2>2, <2>3
  <1> QED BY <1>1 DEF Done

LEMMA HandleStep ==
    ASSUME DeltaInv, HandleMessage PROVE DeltaInv'
  <1> PICK k : k = Head(inHand)
    OBVIOUS
  <1>1. /\ channel = "graph" /\ pc = "working" /\ inHand # <<>>
        /\ inHand' = Tail(inHand) /\ UNCHANGED <<channel, kind, pc, link, saved, page>>
        /\ Files(k, Home) /\ read' = read \cup {k}
    BY DEF HandleMessage
  <1>2. GraphShape /\ k \in 1..Len(kind)
    BY <1>1, TailKeeps DEF DeltaInv, GraphShape
  <1>3. /\ filed' \in Seq(SUBSET Orgs) /\ Len(filed') = Len(filed)
        /\ \A m \in 1..Len(kind) : Done(m) => Done(m)'
    BY <1>1, <1>2, FilingKeeps
  <1>4. Done(k)'
    <2>1. k \in DOMAIN filed
      BY <1>2 DEF GraphShape
    <2>2. filed'[k] # {} /\ k \in read'
      BY <1>1, <2>1 DEF Files
    <2> QED BY <2>2 DEF Done
  <1> QED BY <1>1, <1>3, <1>4, TakenOffStep

LEMMA HandleFailsStep ==
    ASSUME DeltaInv, HandleMessageFails PROVE DeltaInv'
  <1> PICK k : k = Head(inHand)
    OBVIOUS
  <1>1. /\ channel = "graph" /\ pc = "working" /\ inHand # <<>>
        /\ inHand' = <<>> /\ pc' = "idle" /\ UNCHANGED <<channel, kind, link, saved, page>>
        /\ Files(k, Home) \/ UNCHANGED filed
        /\ read \subseteq read'
    BY DEF HandleMessageFails
  <1>2. GraphShape /\ NothingSkipped /\ k \in 1..Len(kind)
    BY <1>1, TailKeeps DEF DeltaInv, GraphShape
  <1>3. /\ filed' \in Seq(SUBSET Orgs) /\ Len(filed') = Len(filed)
        /\ \A m \in 1..Len(kind) : Done(m) => Done(m)'
    BY <1>1, <1>2, FilingKeeps
  <1>4. GraphShape'
    BY <1>1, <1>2, <1>3 DEF GraphShape
  <1>5. NothingSkipped'
    <2>1. /\ \A m \in 1..link : m \in 1..Len(kind)
          /\ \A m \in 1..saved : m \in 1..Len(kind)
      BY <1>2 DEF GraphShape
    <2> QED BY <1>1, <1>2, <1>3, <2>1 DEF NothingSkipped
  <1> QED BY <1>1, <1>4, <1>5 DEF DeltaInv

LEMMA DeltaStep == DeltaInv /\ [Next]_vars => DeltaInv'
  <1> SUFFICES ASSUME DeltaInv, [Next]_vars PROVE DeltaInv'
    OBVIOUS
  <1>1. CASE GraphEnters
    BY <1>1, EntersStep
  <1>2. CASE FetchPage
    BY <1>2, FetchStep
  <1>3. CASE FetchPageFails
    BY <1>3 DEF FetchPageFails, DeltaInv, GraphShape, NothingSkipped, Done, graphVars
  <1>4. CASE SkipRemoved
    <2> PICK k : k = Head(inHand)
      OBVIOUS
    <2>1. /\ channel = "graph" /\ pc = "working" /\ inHand # <<>>
          /\ inHand' = Tail(inHand) /\ kind[k] = "gone"
          /\ UNCHANGED <<channel, kind, filed, pc, link, saved, page, read>>
      BY <1>4 DEF SkipRemoved, graphVars
    <2>2. GraphShape /\ Done(k)' /\ \A m \in 1..Len(kind) : Done(m) => Done(m)'
      BY <2>1 DEF Done, DeltaInv
    <2>3. filed' \in Seq(SUBSET Orgs) /\ Len(filed') = Len(filed)
      BY <2>1, <2>2 DEF GraphShape
    <2> QED BY <2>1, <2>2, <2>3, TakenOffStep
  <1>5. CASE HandleMessage
    BY <1>5, HandleStep
  <1>6. CASE HandleMessageFails
    BY <1>6, HandleFailsStep
  <1>7. CASE PageDone
    <2>1. /\ channel = "graph" /\ pc = "working" /\ inHand = <<>>
          /\ link' = IF page.more THEN link ELSE page.to
          /\ pc' \in {"paging", "saving"}
          /\ UNCHANGED <<channel, kind, filed, inHand, saved, page, read>>
      BY <1>7 DEF PageDone
    <2>2. GraphShape /\ NothingSkipped /\ \A m \in 1..page.to : Done(m)
      BY <2>1 DEF DeltaInv, NothingSkipped
    <2>3. GraphShape'
      BY <2>1, <2>2 DEF GraphShape
    <2>4. NothingSkipped'
      BY <2>1, <2>2 DEF NothingSkipped, Done
    <2> QED BY <2>1, <2>3, <2>4 DEF DeltaInv
  <1>8. CASE SaveState
    <2>1. /\ channel = "graph" /\ pc' \in {"idle", "stopped"} /\ saved' \in {saved, link}
          /\ UNCHANGED <<channel, kind, filed, inHand, link, page, read>>
      BY <1>8 DEF SaveState
    <2> QED BY <2>1 DEF DeltaInv, GraphShape, NothingSkipped, Done
  <1>9. CASE GraphRestarts
    <2>1. /\ channel = "graph" /\ pc' = "idle" /\ inHand' = <<>> /\ link' \in {saved, 0}
          /\ page' = [to |-> 0, more |-> FALSE]
          /\ UNCHANGED <<channel, kind, filed, saved, read>>
      BY <1>9 DEF GraphRestarts, Restarts
    <2>2. GraphShape'
      BY <2>1 DEF DeltaInv, GraphShape
    <2>3. NothingSkipped'
      BY <2>1 DEF DeltaInv, NothingSkipped, Done
    <2> QED BY <2>1, <2>2, <2>3 DEF DeltaInv
  <1>10. CASE channel # "graph" /\ UNCHANGED <<channel, graphVars>>
    BY <1>10 DEF DeltaInv, graphVars
  <1>11. CASE UNCHANGED vars
    BY <1>11 DEF vars, intakeVars, graphVars, DeltaInv, GraphShape, NothingSkipped, Done
  <1>12. ASSUME UNCHANGED graphVars,
                TelegramWorks \/ TelegramEnters \/ TelegramRestarts
         PROVE  channel = "telegram" /\ UNCHANGED channel
    BY <1>12 DEF TelegramWorks, GetUpdates, GetUpdatesFails, GetUpdatesTimesOut, HandleUpdate,
                 TelegramEnters, Enters, TelegramRestarts, Restarts
  <1>13. ASSUME UNCHANGED graphVars,
                ImapWorks \/ ImapEnters \/ OthersExpunge \/ ImapRestarts
         PROVE  channel = "imap" /\ UNCHANGED channel
    BY <1>13 DEF ImapWorks, Search, SendNext, Process, FetchDone, MarkSeen, MoveProcessed,
                 PollFails, ImapEnters, Enters, OthersExpunge, intakeVars, ImapRestarts, Restarts
  <1> QED
    BY <1>1, <1>2, <1>3, <1>4, <1>5, <1>6, <1>7, <1>8, <1>9, <1>10, <1>11, <1>12, <1>13
       DEF Next, Works, Environment, GraphWorks

\* Whatever fails on whatever page, and wherever the process is restarted,
\* every message before the delta link has a verdict and is marked as read.
THEOREM NoMessageIsSkipped == Spec => []LinkLeavesNothingBehind
  <1>1. Spec => []DeltaInv
    BY DeltaInit, DeltaStep, PTL DEF Spec
  <1>2. DeltaInv => LinkLeavesNothingBehind
    BY DEF DeltaInv, NothingSkipped, Done, LinkLeavesNothingBehind
  <1> QED BY <1>1, <1>2, PTL
-----------------------------------------------------------------------------
\* The books of all receivers: what has a verdict was taken up.
Ledgers ==
    /\ channel \in {"telegram", "graph", "imap"}
    /\ kind \in Seq(Kinds) /\ taken \in Seq(Nat) /\ filed \in Seq(SUBSET Orgs)
    /\ Len(taken) = Len(kind) /\ Len(filed) = Len(kind)
    /\ trouble \in Nat /\ restarts \in Nat
    /\ \A m \in 1..Len(kind) : filed[m] # {} => taken[m] > 0

\* The update handled next, now or in a later poll.
NextUpdate == IF Confirmed(offset) = 0 THEN 1 ELSE Confirmed(offset)

\* org is what the last "/start" among the first m updates names.
Names(m, org) ==
    \E s \in 1..m : kind[s] = org /\ \A t \in 1..m : kind[t] \in Orgs => t <= s

\* What lies before the next update was handled, once in this process; the
\* binding is what was named there.
TelegramInv ==
    /\ offset \in 0..Len(kind) + 1 /\ confirmed \in 0..Len(kind) + 1
    /\ inHand \in Seq(1..Len(kind))
    /\ pc = "working" => inHand # <<>>
    /\ \A i \in 1..Len(inHand) : inHand[i] = NextUpdate + i - 1
    /\ binding \in Orgs \cup {NoOrg}
    /\ binding # NoOrg => Names(NextUpdate - 1, binding)
    /\ \A m \in 1..Len(kind) :
         /\ m < NextUpdate => taken[m] > 0 /\ taken[m] <= 1 + restarts
         /\ m >= NextUpdate => taken[m] <= restarts
         /\ \A org \in filed[m] : Names(m, org)

\* Taking up a message counts it and files at most one verdict more.
LEMMA AfterTaking ==
    ASSUME Ledgers, NEW m \in 1..Len(kind), Takes(m),
           NEW org \in Orgs, Files(m, org) \/ UNCHANGED filed,
           UNCHANGED <<channel, kind>>, trouble' \in Nat, restarts' \in Nat
    PROVE  /\ Ledgers'
           /\ taken'[m] > 0 /\ taken'[m] <= taken[m] + 1
           /\ \A k \in 1..Len(kind) :
                k # m => taken'[k] = taken[k] /\ filed'[k] = filed[k]
           /\ filed[m] \subseteq filed'[m] /\ filed'[m] \subseteq filed[m] \cup {org}
           /\ Files(m, org) => org \in filed'[m]
  <1>1. /\ kind \in Seq(Kinds) /\ taken \in Seq(Nat) /\ filed \in Seq(SUBSET Orgs)
        /\ Len(taken) = Len(kind) /\ Len(filed) = Len(kind)
    BY DEF Ledgers
  <1>2. MaxTaken \in Nat /\ MaxTaken > 0
    BY BoundsAssumption
  <1> DEFINE count == IF taken[m] < MaxTaken THEN taken[m] + 1 ELSE taken[m]
  <1>3. taken' = [taken EXCEPT ![m] = count]
    BY DEF Takes
  <1>4. taken[m] \in Nat /\ count \in Nat /\ count > 0 /\ count <= taken[m] + 1
    BY <1>1, <1>2
  <1> HIDE DEF count
  <1>5. /\ taken' \in Seq(Nat) /\ Len(taken') = Len(taken) /\ taken'[m] = count
        /\ \A k \in 1..Len(kind) : k # m => taken'[k] = taken[k]
    BY <1>1, <1>3, <1>4
  <1>6. /\ filed' \in Seq(SUBSET Orgs) /\ Len(filed') = Len(filed)
        /\ \A k \in 1..Len(kind) : k # m => filed'[k] = filed[k]
        /\ filed[m] \subseteq filed'[m] /\ filed'[m] \subseteq filed[m] \cup {org}
        /\ Files(m, org) => org \in filed'[m]
    <2>1. CASE Files(m, org)
      <3>1. filed' = [filed EXCEPT ![m] = filed[m] \cup {org}]
        BY <2>1 DEF Files
      <3>2. filed[m] \cup {org} \in SUBSET Orgs
        BY <1>1
      <3> QED BY <1>1, <3>1, <3>2
    <2>2. CASE UNCHANGED filed
      <3>1. filed[m] \in SUBSET Orgs
        BY <1>1
      <3>2. Files(m, org) => org \in filed'[m]
        BY <1>1 DEF Files
      <3> QED BY <1>1, <2>2, <3>2
    <2> QED BY <2>1, <2>2
  <1>7. Kinds' = Kinds
    BY DEF Kinds
  <1>8. \A k \in 1..Len(kind') : filed'[k] # {} => taken'[k] > 0
    BY <1>1, <1>4, <1>5, <1>6 DEF Ledgers
  <1>9. Ledgers'
    BY <1>1, <1>5, <1>6, <1>7, <1>8 DEF Ledgers
  <1> QED BY <1>4, <1>5, <1>6, <1>9

\* A message that enters has not been taken up.
LEMMA AfterEntering ==
    ASSUME Ledgers, Enters
    PROVE  /\ Ledgers'
           /\ Len(kind') = Len(kind) + 1
           /\ \A k \in 1..Len(kind) :
                kind'[k] = kind[k] /\ taken'[k] = taken[k] /\ filed'[k] = filed[k]
           /\ taken'[Len(kind) + 1] = 0 /\ filed'[Len(kind) + 1] = {}
  <1>1. PICK k \in Kinds :
          /\ kind' = Append(kind, k) /\ taken' = Append(taken, 0) /\ filed' = Append(filed, {})
          /\ UNCHANGED <<channel, pc, inHand, trouble, restarts>>
    BY DEF Enters
  <1>2. /\ kind \in Seq(Kinds) /\ taken \in Seq(Nat) /\ filed \in Seq(SUBSET Orgs)
        /\ Len(taken) = Len(kind) /\ Len(filed) = Len(kind)
    BY DEF Ledgers
  <1>3. /\ kind' \in Seq(Kinds) /\ Len(kind') = Len(kind) + 1
        /\ \A i \in 1..Len(kind) : kind'[i] = kind[i]
    BY <1>1, <1>2
  <1>4. /\ taken' \in Seq(Nat) /\ Len(taken') = Len(kind) + 1
        /\ \A i \in 1..Len(kind) : taken'[i] = taken[i]
        /\ taken'[Len(kind) + 1] = 0
    BY <1>1, <1>2
  <1>5. /\ filed' \in Seq(SUBSET Orgs) /\ Len(filed') = Len(kind) + 1
        /\ \A i \in 1..Len(kind) : filed'[i] = filed[i]
        /\ filed'[Len(kind) + 1] = {}
    BY <1>1, <1>2
  <1>6. Kinds' = Kinds
    BY <1>1 DEF Kinds
  <1>7. \A i \in 1..Len(kind') : filed'[i] # {} => taken'[i] > 0
    BY <1>2, <1>3, <1>4, <1>5 DEF Ledgers
  <1>8. Ledgers'
    BY <1>1, <1>3, <1>4, <1>5, <1>6, <1>7 DEF Ledgers
  <1> QED BY <1>3, <1>4, <1>5, <1>8

-----------------------------------------------------------------------------
\* The end of a count is counted on.
LEMMA EndOfCount ==
    ASSUME NEW n \in Nat, NEW from \in 1..n + 1, NEW s \in Seq(1..n),
           Len(s) = n, \A m \in 1..n : s[m] = m
    PROVE  /\ SubSeq(s, from, n) \in Seq(1..n)
           /\ \A i \in 1..Len(SubSeq(s, from, n)) : SubSeq(s, from, n)[i] = from + i - 1
  <1>1. CASE from = n + 1
    <2>1. SubSeq(s, from, n) = <<>>
      BY <1>1
    <2> QED BY <2>1
  <1>2. CASE from <= n
    <2>1. /\ Len(SubSeq(s, from, n)) = n - from + 1
          /\ \A i \in 1..n - from + 1 : SubSeq(s, from, n)[i] = s[from + i - 1]
      BY <1>2
    <2>2. \A i \in 1..n - from + 1 : from + i - 1 \in 1..n
      BY <1>2
    <2>3. SubSeq(s, from, n) \in Seq(1..n)
      BY <1>2
    <2> QED BY <2>1, <2>2, <2>3
  <1> QED BY <1>1, <1>2

LEMMA NextUpdateBounds ==
    ASSUME Ledgers, TelegramInv
    PROVE  /\ Len(kind) \in Nat /\ NextUpdate \in 1..Len(kind) + 1
           /\ offset <= NextUpdate /\ confirmed <= NextUpdate
  BY DEF Ledgers, TelegramInv, NextUpdate, Confirmed

\* What the updates before m named stays what they named.
LEMMA NamesStays ==
    ASSUME NEW m, NEW org, Names(m, org), \A k \in 1..m : kind'[k] = kind[k]
    PROVE  Names(m, org)'
  BY DEF Names

\* The place stands and with it all that was said of the updates.
LEMMA SamePlace ==
    ASSUME TelegramInv, NextUpdate' = NextUpdate,
           offset' \in 0..Len(kind) + 1, confirmed' \in 0..Len(kind) + 1,
           UNCHANGED <<kind, taken, filed, restarts, binding>>,
           inHand' \in Seq(1..Len(kind)), pc' = "working" => inHand' # <<>>,
           \A i \in 1..Len(inHand') : inHand'[i] = NextUpdate + i - 1
    PROVE  TelegramInv'
  BY DEF TelegramInv, Names

LEMMA TelegramEntersStep ==
    ASSUME Ledgers, TelegramInv, TelegramEnters PROVE TelegramInv'
  <1>1. Enters /\ UNCHANGED <<pc, inHand, restarts>> /\ UNCHANGED telegramVars
    BY DEF TelegramEnters, Enters
  <1>2. NextUpdate' = NextUpdate
    BY <1>1 DEF NextUpdate, Confirmed, telegramVars
  <1>3. /\ Ledgers' /\ Len(kind') = Len(kind) + 1
        /\ \A k \in 1..Len(kind) :
             kind'[k] = kind[k] /\ taken'[k] = taken[k] /\ filed'[k] = filed[k]
        /\ taken'[Len(kind) + 1] = 0 /\ filed'[Len(kind) + 1] = {}
    BY <1>1, AfterEntering
  <1>4. Len(kind) \in Nat /\ NextUpdate \in 1..Len(kind) + 1
    BY NextUpdateBounds
  <1>5. binding' # NoOrg => Names(NextUpdate - 1, binding)'
    <2> PICK n, b : n = NextUpdate - 1 /\ b = binding
      OBVIOUS
    <2>1. binding # NoOrg => Names(n, b)
      BY DEF TelegramInv
    <2>2. \A k \in 1..n : kind'[k] = kind[k]
      BY <1>3, <1>4
    <2>3. binding # NoOrg => Names(n, b)'
      BY <2>1, <2>2, NamesStays
    <2>4. n = NextUpdate' - 1 /\ b = binding'
      BY <1>1, <1>2 DEF telegramVars
    <2> QED BY <2>3, <2>4 DEF Names
  <1>6. ASSUME NEW m \in 1..Len(kind')
        PROVE  /\ m < NextUpdate' => taken'[m] > 0 /\ taken'[m] <= 1 + restarts'
               /\ m >= NextUpdate' => taken'[m] <= restarts'
               /\ \A org \in filed'[m] : Names(m, org)'
    <2>1. CASE m = Len(kind) + 1
      BY <1>1, <1>2, <1>3, <1>4, <2>1 DEF Ledgers
    <2>2. CASE m \in 1..Len(kind)
      <3>1. /\ m < NextUpdate => taken[m] > 0 /\ taken[m] <= 1 + restarts
            /\ m >= NextUpdate => taken[m] <= restarts
            /\ \A org \in filed[m] : Names(m, org)
        BY <2>2 DEF TelegramInv
      <3>2. \A k \in 1..m : kind'[k] = kind[k]
        BY <1>3, <1>4, <2>2
      <3>3. \A org \in filed[m] : Names(m, org)'
        BY <3>1, <3>2, NamesStays
      <3> QED BY <1>1, <1>2, <1>3, <2>2, <3>1, <3>3
    <2> QED BY <1>3, <1>4, <2>1, <2>2
  <1>7. inHand' \in Seq(1..Len(kind'))
    BY <1>1, <1>3, <1>4 DEF TelegramInv
  <1>8. /\ offset' \in 0..Len(kind') + 1 /\ confirmed' \in 0..Len(kind') + 1
        /\ pc' = "working" => inHand' # <<>>
        /\ \A i \in 1..Len(inHand') : inHand'[i] = NextUpdate' + i - 1
        /\ binding' \in Orgs \cup {NoOrg}
    <2>1. /\ offset \in 0..Len(kind) + 1 /\ confirmed \in 0..Len(kind) + 1
          /\ offset' = offset /\ confirmed' = confirmed /\ binding' = binding
      BY <1>1 DEF TelegramInv, telegramVars
    <2>2. offset' \in 0..Len(kind') + 1 /\ confirmed' \in 0..Len(kind') + 1
      BY <1>3, <1>4, <2>1
    <2> QED BY <1>1, <1>2, <2>1, <2>2 DEF TelegramInv
  <1> QED BY <1>5, <1>6, <1>7, <1>8 DEF TelegramInv

LEMMA GetUpdatesStep ==
    ASSUME Ledgers, TelegramInv, GetUpdates PROVE TelegramInv'
  <1>1. /\ confirmed' = Confirmed(offset) /\ inHand' = Waiting(confirmed')
        /\ pc' = IF inHand' = <<>> THEN "idle" ELSE "working"
        /\ UNCHANGED <<kind, taken, filed, restarts, offset, binding>>
    BY DEF GetUpdates
  <1>2. /\ Len(kind) \in Nat /\ NextUpdate \in 1..Len(kind) + 1
        /\ offset \in 0..Len(kind) + 1 /\ confirmed \in 0..Len(kind) + 1
    BY NextUpdateBounds DEF TelegramInv
  <1>3. NextUpdate' = NextUpdate /\ confirmed' \in 0..Len(kind) + 1
    BY <1>1, <1>2 DEF NextUpdate, Confirmed
  <1> DEFINE all == [m \in 1..Len(kind) |-> m]
  <1>4. kind \in Seq(Kinds)
    BY DEF Ledgers
  <1>5. inHand' = SubSeq(all, NextUpdate, Len(kind))
    <2>1. [m \in Messages |-> m] = all
      BY <1>4 DEF Messages
    <2>2. NextUpdate = IF confirmed' = 0 THEN 1 ELSE confirmed'
      BY <1>1 DEF NextUpdate
    <2>3. inHand' = SubSeq([m \in Messages |-> m]',
                          IF confirmed' = 0 THEN 1 ELSE confirmed', Len(kind)')
      BY <1>1 DEF Waiting, Messages
    <2>4. [m \in Messages |-> m]' = all /\ Len(kind)' = Len(kind)
      BY <1>1, <2>1 DEF Messages
    <2> HIDE DEF all
    <2> QED BY <2>2, <2>3, <2>4
  <1>6. /\ SubSeq(all, NextUpdate, Len(kind)) \in Seq(1..Len(kind))
        /\ \A i \in 1..Len(SubSeq(all, NextUpdate, Len(kind))) :
             SubSeq(all, NextUpdate, Len(kind))[i] = NextUpdate + i - 1
    <2>1. /\ all \in Seq(1..Len(kind)) /\ Len(all) = Len(kind)
          /\ \A m \in 1..Len(kind) : all[m] = m
      BY <1>2
    <2> HIDE DEF all
    <2> QED BY <1>2, <2>1, EndOfCount
  <1> HIDE DEF all
  <1> QED BY <1>1, <1>2, <1>3, <1>5, <1>6, SamePlace

LEMMA HandleUpdateStep ==
    ASSUME Ledgers, TelegramInv, HandleUpdate PROVE TelegramInv' /\ Ledgers'
  <1> PICK u : u = Head(inHand)
    OBVIOUS
  <1>1. /\ pc = "working" /\ offset' = OffsetAfter(u) /\ Takes(u) /\ inHand' = Tail(inHand)
        /\ pc' = IF inHand' = <<>> THEN "idle" ELSE "working"
        /\ UNCHANGED <<channel, kind, restarts, confirmed>>
    BY DEF HandleUpdate
  <1>2. \/ kind[u] \in Orgs /\ binding' = kind[u] /\ UNCHANGED filed
        \/ /\ kind[u] \in {"mail", "long"} /\ binding # NoOrg
           /\ Files(u, binding) /\ UNCHANGED binding
        \/ kind[u] \notin Orgs /\ UNCHANGED <<binding, filed>>
    BY OrgsAssumption DEF HandleUpdate
  <1>3. /\ Len(kind) \in Nat /\ NextUpdate \in 1..Len(kind) + 1
        /\ offset <= NextUpdate /\ confirmed <= NextUpdate
    BY NextUpdateBounds
  <1>4. /\ inHand # <<>> /\ inHand \in Seq(1..Len(kind))
        /\ \A i \in 1..Len(inHand) : inHand[i] = NextUpdate + i - 1
    BY <1>1 DEF TelegramInv
  <1>5. u = NextUpdate /\ u \in 1..Len(kind)
    <2>1. u = inHand[1] /\ 1 \in 1..Len(inHand)
      BY <1>4
    <2> QED BY <1>3, <1>4, <2>1
  <1>6. offset' = u + 1 /\ NextUpdate' = u + 1
    <2>1. offset' = u + 1
      BY <1>1, <1>3, <1>5 DEF OffsetAfter
    <2>2. confirmed' = confirmed /\ confirmed \in Nat /\ confirmed < u + 1
      BY <1>1, <1>3, <1>5 DEF TelegramInv
    <2>3. u + 1 # 0 /\ u + 1 \in Nat
      BY <1>3, <1>5
    <2> QED BY <2>1, <2>2, <2>3 DEF NextUpdate, Confirmed
  <1>7. inHand' \in Seq(1..Len(kind))
        /\ \A i \in 1..Len(inHand') : inHand'[i] = NextUpdate' + i - 1
    <2>1. /\ Tail(inHand) \in Seq(1..Len(kind)) /\ Len(Tail(inHand)) = Len(inHand) - 1
          /\ Len(inHand) \in Nat
          /\ \A i \in 1..Len(inHand) - 1 : Tail(inHand)[i] = inHand[i + 1]
      BY <1>4
    <2>2. \A i \in 1..Len(Tail(inHand)) : Tail(inHand)[i] = (u + 1) + i - 1
      BY <1>3, <1>4, <1>5, <2>1
    <2> QED BY <1>1, <1>6, <2>1, <2>2
  <1>8. binding \in Orgs \cup {NoOrg} /\ (binding # NoOrg => Names(u - 1, binding))
    BY <1>5 DEF TelegramInv
  <1>9. trouble' \in Nat /\ restarts' \in Nat
    BY <1>1 DEF Ledgers, HandleUpdate, Trouble
  <1>10. \E org \in Orgs : /\ Files(u, org) \/ UNCHANGED filed
                           /\ filed' # filed => org = binding /\ kind[u] \notin Orgs /\ binding # NoOrg
    <2>1. CASE kind[u] \in {"mail", "long"} /\ binding # NoOrg /\ Files(u, binding)
      BY <1>8, <2>1, OrgsAssumption
    <2>2. CASE UNCHANGED filed
      BY <2>2, OrgsAssumption
    <2> QED BY <1>2, <2>1, <2>2
  <1>11. PICK org \in Orgs : /\ Files(u, org) \/ UNCHANGED filed
                             /\ filed' # filed => org = binding /\ kind[u] \notin Orgs /\ binding # NoOrg
    BY <1>10
  <1>12. /\ Ledgers'
         /\ taken'[u] > 0 /\ taken'[u] <= taken[u] + 1
         /\ \A k \in 1..Len(kind) : k # u => taken'[k] = taken[k] /\ filed'[k] = filed[k]
         /\ filed[u] \subseteq filed'[u] /\ filed'[u] \subseteq filed[u] \cup {org}
    BY <1>1, <1>5, <1>9, <1>11, AfterTaking
  <1>13. ASSUME kind[u] \notin Orgs, binding # NoOrg PROVE Names(u, binding)
    BY <1>3, <1>5, <1>8, <1>13 DEF Names
  <1>14. binding' \in Orgs \cup {NoOrg} /\ (binding' # NoOrg => Names(u, binding'))
    <2>1. CASE kind[u] \in Orgs /\ binding' = kind[u]
      BY <1>5, <2>1 DEF Names
    <2>2. CASE kind[u] \notin Orgs /\ UNCHANGED binding
      BY <1>8, <1>13, <2>2
    <2> QED BY <1>2, <2>1, <2>2, OrgsAssumption
  <1>15. binding' # NoOrg => Names(NextUpdate' - 1, binding')
    <2>1. NextUpdate' - 1 = u
      BY <1>5, <1>6
    <2> QED BY <1>14, <2>1
  <1>16. ASSUME NEW m \in 1..Len(kind)
         PROVE  /\ m < NextUpdate' => taken'[m] > 0 /\ taken'[m] <= 1 + restarts'
                /\ m >= NextUpdate' => taken'[m] <= restarts'
                /\ \A o \in filed'[m] : Names(m, o)
    <2>1. /\ m < NextUpdate => taken[m] > 0 /\ taken[m] <= 1 + restarts
          /\ m >= NextUpdate => taken[m] <= restarts
          /\ \A o \in filed[m] : Names(m, o)
      BY DEF TelegramInv
    <2>2. CASE m # u
      BY <1>1, <1>5, <1>6, <1>12, <2>1, <2>2
    <2>3. CASE m = u
      <3>1. /\ taken'[u] \in Nat /\ taken[u] \in Nat /\ restarts \in Nat
        <4>1. /\ taken \in Seq(Nat) /\ Len(taken) = Len(kind) /\ restarts \in Nat
              /\ taken' \in Seq(Nat) /\ Len(taken') = Len(kind)
          BY <1>1, <1>12 DEF Ledgers
        <4>2. u \in 1..Len(taken) /\ u \in 1..Len(taken')
          BY <1>5, <4>1
        <4> QED BY <4>1, <4>2, Element, Zenon
      <3>2. \A o \in filed'[u] : Names(u, o)
        BY <1>11, <1>12, <1>13, <2>1, <2>3
      <3>3. taken'[u] > 0 /\ taken'[u] <= 1 + restarts
        BY <1>5, <1>12, <2>1, <2>3, <3>1
      <3>4. ~(u >= u + 1)
        BY <1>3, <1>5
      <3> QED BY <1>1, <1>6, <2>3, <3>2, <3>3, <3>4
    <2> QED BY <2>2, <2>3
  <1>17. TelegramInv'
    <2>1. /\ offset' \in 0..Len(kind') + 1 /\ confirmed' \in 0..Len(kind') + 1
          /\ pc' = "working" => inHand' # <<>>
      <3>1. confirmed \in 0..Len(kind) + 1 /\ UNCHANGED <<kind, confirmed>>
        BY <1>1 DEF TelegramInv
      <3>2. offset' \in 0..Len(kind) + 1 /\ (pc' = "working" => inHand' # <<>>)
        BY <1>1, <1>3, <1>5, <1>6
      <3> QED BY <3>1, <3>2
    <2> QED BY <1>1, <1>7, <1>14, <1>15, <1>16, <2>1 DEF TelegramInv, Names
  <1> QED BY <1>12, <1>17

LEMMA TelegramRestartsStep ==
    ASSUME Ledgers, TelegramInv, TelegramRestarts PROVE TelegramInv'
  <1>1. /\ pc' = "idle" /\ inHand' = <<>> /\ offset' = 0 /\ binding' = NoOrg
        /\ restarts' = restarts + 1 /\ UNCHANGED <<kind, taken, filed, confirmed>>
    BY DEF TelegramRestarts, Restarts
  <1>2. /\ Len(kind) \in Nat /\ NextUpdate \in 1..Len(kind) + 1
        /\ confirmed <= NextUpdate /\ confirmed \in 0..Len(kind) + 1
    BY NextUpdateBounds DEF TelegramInv
  <1>3. NextUpdate' \in 1..NextUpdate
    <2>1. NextUpdate' = IF confirmed = 0 THEN 1 ELSE confirmed
      BY <1>1, <1>2 DEF NextUpdate, Confirmed
    <2> QED BY <1>2, <2>1
  <1>4. ASSUME NEW m \in 1..Len(kind)
        PROVE  /\ m < NextUpdate' => taken[m] > 0 /\ taken[m] <= 1 + restarts'
               /\ m >= NextUpdate' => taken[m] <= restarts'
               /\ \A o \in filed[m] : Names(m, o)
    <2>1. /\ m < NextUpdate => taken[m] > 0 /\ taken[m] <= 1 + restarts
          /\ m >= NextUpdate => taken[m] <= restarts
          /\ \A o \in filed[m] : Names(m, o)
      BY DEF TelegramInv
    <2>2. taken[m] \in Nat /\ restarts \in Nat
      BY DEF Ledgers
    <2> QED BY <1>1, <1>2, <1>3, <2>1, <2>2
  <1>5. /\ offset' \in 0..Len(kind') + 1 /\ confirmed' \in 0..Len(kind') + 1
        /\ inHand' \in Seq(1..Len(kind')) /\ pc' # "working"
        /\ binding' \in Orgs \cup {NoOrg} /\ binding' = NoOrg
        /\ Len(inHand') = 0
    BY <1>1, <1>2
  <1>6. \A i \in 1..Len(inHand') : inHand'[i] = NextUpdate' + i - 1
    BY <1>5
  <1> QED BY <1>1, <1>4, <1>5, <1>6 DEF TelegramInv, Names
-----------------------------------------------------------------------------
\* How far Graph's current poll has come.
Place == IF pc = "idle" THEN link ELSE page.to - Len(inHand)

BadFrom(m) == \E k \in m..Len(kind) : kind[k] = "bad"

\* A message was taken up once more than there were failures and restarts
\* only if this poll has passed it, or mail that cannot be read follows.
PollInv ==
    /\ pc # "working" => inHand = <<>>
    /\ link <= Place
    /\ pc = "saving" => link = page.to
    /\ \A i \in 1..Len(inHand) : inHand[i] = page.to - Len(inHand) + i
    /\ \A m \in 1..Len(kind) :
         \/ BadFrom(m)
         \/ taken[m] <= trouble + restarts
         \/ m <= Place /\ taken[m] <= 1 + trouble + restarts

LEMMA OneMore == ASSUME NEW a \in Int, NEW b \in Int, NEW c \in Int
                 PROVE  a - (b - 1) + c = a - b + (c + 1)
  OBVIOUS

LEMMA Allowed ==
    ASSUME NEW a \in Nat, NEW b \in Nat, NEW before \in Nat, NEW after \in Nat,
           after >= 1 + before,
           (b <= a /\ a <= 1 + before) \/ (b <= a + 1 /\ a <= before)
    PROVE  b <= after
  OBVIOUS

LEMMA Sums ==
    ASSUME NEW a \in Nat, NEW b \in Nat, NEW c \in Nat, NEW d \in Nat, c + d >= 1 + a + b
    PROVE  a + b \in Nat /\ c + d \in Nat /\ c + d >= 1 + (a + b)
  OBVIOUS

LEMMA PollBounds ==
    ASSUME Ledgers, DeltaInv, channel = "graph"
    PROVE  /\ Len(kind) \in Nat /\ link \in 0..Len(kind) /\ saved \in 0..Len(kind)
           /\ page.to \in 0..Len(kind)
           /\ inHand \in Seq(1..Len(kind)) /\ Len(inHand) \in Nat
           /\ trouble \in Nat /\ restarts \in Nat
           /\ \A m \in 1..Len(kind) : taken[m] \in Nat
           /\ Place \in Int
  BY DEF Ledgers, DeltaInv, GraphShape, Place

\* A poll that ends costs a failure or a restart, or is held up.
LEMMA PollEnds ==
    ASSUME Ledgers, DeltaInv, PollInv, channel = "graph", pc' = "idle", inHand' = <<>>,
           UNCHANGED kind,
           \A m \in 1..Len(kind) : taken'[m] <= taken[m] \/ BadFrom(m)
                                   \/ (taken'[m] <= taken[m] + 1 /\ m > Place),
           \A m \in 1..Len(kind) : taken'[m] \in Nat,
           trouble' \in Nat, restarts' \in Nat, link' \in Nat,
           trouble' + restarts' >= 1 + trouble + restarts
    PROVE  PollInv'
  <1>1. /\ Len(kind) \in Nat /\ trouble \in Nat /\ restarts \in Nat /\ Place \in Int
        /\ \A m \in 1..Len(kind) : taken[m] \in Nat
    BY PollBounds
  <1>2. ASSUME NEW m \in 1..Len(kind)
        PROVE  BadFrom(m) \/ taken'[m] <= trouble' + restarts'
    <2>1. BadFrom(m) \/ taken[m] <= trouble + restarts
          \/ (m <= Place /\ taken[m] <= 1 + trouble + restarts)
      BY DEF PollInv
    <2>2. taken'[m] <= taken[m] \/ BadFrom(m) \/ (taken'[m] <= taken[m] + 1 /\ m > Place)
      OBVIOUS
    <2>3. taken[m] \in Nat /\ taken'[m] \in Nat
      BY <1>1
    <2>4. /\ trouble + restarts \in Nat /\ trouble' + restarts' \in Nat
          /\ trouble' + restarts' >= 1 + (trouble + restarts)
      BY <1>1, Sums, Zenon
    <2>5. m \in Nat
      BY <1>1
    <2>6. CASE taken[m] <= trouble + restarts /\ ~BadFrom(m)
      <3>1. taken'[m] <= taken[m] + 1
        BY <2>2, <2>3, <2>6
      <3> QED BY <2>3, <2>4, <2>6, <3>1, Allowed
    <2>7. CASE m <= Place /\ taken[m] <= 1 + trouble + restarts /\ ~BadFrom(m)
      <3>1. taken'[m] <= taken[m]
        BY <1>1, <2>2, <2>5, <2>7
      <3>2. taken[m] <= 1 + (trouble + restarts)
        BY <1>1, <2>3, <2>7
      <3> QED BY <2>3, <2>4, <3>1, <3>2, Allowed
    <2> QED BY <2>1, <2>6, <2>7
  <1>3. Place' = link'
    BY DEF Place
  <1>4. \A m : BadFrom(m) => BadFrom(m)'
    BY DEF BadFrom
  <1>5. link' <= Place' /\ pc' # "saving"
    BY <1>3
  <1>6. Len(inHand') = 0 /\ pc' # "working"
    OBVIOUS
  <1>7. \A i \in 1..Len(inHand') : inHand'[i] = page'.to - Len(inHand') + i
    BY <1>6
  <1> QED BY <1>2, <1>4, <1>5, <1>7 DEF PollInv

LEMMA GraphEntersPoll ==
    ASSUME Ledgers, DeltaInv, PollInv, GraphEnters PROVE PollInv'
  <1>1. /\ Enters /\ channel = "graph"
        /\ UNCHANGED <<pc, inHand, trouble, restarts, link, page>>
    BY DEF GraphEnters, Enters, graphVars
  <1>2. /\ Ledgers' /\ Len(kind') = Len(kind) + 1
        /\ \A k \in 1..Len(kind) : kind'[k] = kind[k] /\ taken'[k] = taken[k]
        /\ taken'[Len(kind) + 1] = 0
    BY <1>1, AfterEntering
  <1>3. Len(kind) \in Nat /\ trouble \in Nat /\ restarts \in Nat
    BY <1>1, PollBounds
  <1>4. Place' = Place
    BY <1>1 DEF Place
  <1>5. ASSUME NEW m \in 1..Len(kind')
        PROVE  \/ BadFrom(m)' \/ taken'[m] <= trouble + restarts
               \/ m <= Place /\ taken'[m] <= 1 + trouble + restarts
    <2>1. CASE m = Len(kind) + 1
      BY <1>2, <1>3, <2>1
    <2>2. CASE m \in 1..Len(kind)
      <3>1. BadFrom(m) => BadFrom(m)'
        BY <1>2, <1>3, <2>2 DEF BadFrom
      <3> QED BY <1>2, <2>2, <3>1 DEF PollInv
    <2> QED BY <1>2, <1>3, <2>1, <2>2
  <1> QED BY <1>1, <1>4, <1>5 DEF PollInv

LEMMA FetchPagePoll ==
    ASSUME Ledgers, DeltaInv, PollInv, FetchPage PROVE PollInv'
  <1> DEFINE from == IF pc = "idle" THEN link ELSE page.to
  <1>1. /\ channel = "graph" /\ pc' = "working" /\ pc \in {"idle", "paging"}
        /\ page' = PageFrom(from)
        /\ inHand' = [i \in 1..(page'.to - from) |-> from + i]
        /\ UNCHANGED <<channel, kind, taken, trouble, restarts, link>>
    BY DEF FetchPage
  <1>2. Len(kind) \in Nat /\ link \in 0..Len(kind) /\ page.to \in 0..Len(kind)
    BY <1>1, PollBounds
  <1>3. from = Place /\ from \in 0..Len(kind) /\ link <= from
    BY <1>1, <1>2 DEF PollInv, Place
  <1> HIDE DEF from
  <1>4. page'.to \in from..Len(kind)
    BY <1>1, <1>2, <1>3, PageAssumption DEF PageFrom
  <1>5. Len(inHand') = page'.to - from
    BY <1>1, <1>2, <1>3, <1>4
  <1>6. Place' = from
    BY <1>1, <1>2, <1>3, <1>4, <1>5 DEF Place
  <1>7. \A i \in 1..Len(inHand') : inHand'[i] = page'.to - Len(inHand') + i
    BY <1>1, <1>2, <1>3, <1>4, <1>5
  <1>8. \A m : BadFrom(m)' <=> BadFrom(m)
    BY <1>1 DEF BadFrom
  <1> QED BY <1>1, <1>3, <1>6, <1>7, <1>8 DEF PollInv

\* The message at the head of the page lies just behind the poll's place.
LEMMA HeadOfPage ==
    ASSUME Ledgers, DeltaInv, PollInv, channel = "graph", pc = "working", inHand # <<>>
    PROVE  /\ Head(inHand) = Place + 1 /\ Head(inHand) \in 1..Len(kind)
           /\ Tail(inHand) \in Seq(1..Len(kind)) /\ Len(Tail(inHand)) = Len(inHand) - 1
           /\ Place \in Nat
           /\ \A i \in 1..Len(Tail(inHand)) :
                Tail(inHand)[i] = page.to - Len(Tail(inHand)) + i
  <1>1. /\ Len(kind) \in Nat /\ page.to \in Nat
        /\ inHand \in Seq(1..Len(kind)) /\ Len(inHand) \in Nat \ {0}
    BY PollBounds
  <1>2. Place = page.to - Len(inHand)
    BY DEF Place
  <1>3. Head(inHand) = inHand[1] /\ inHand[1] \in 1..Len(kind)
    BY <1>1
  <1>4. inHand[1] = page.to - Len(inHand) + 1
    BY <1>1 DEF PollInv
  <1>5. /\ Tail(inHand) \in Seq(1..Len(kind)) /\ Len(Tail(inHand)) = Len(inHand) - 1
        /\ \A i \in 1..Len(inHand) - 1 : Tail(inHand)[i] = inHand[i + 1]
    BY <1>1
  <1>6. ASSUME NEW i \in 1..Len(Tail(inHand))
        PROVE  Tail(inHand)[i] = page.to - Len(Tail(inHand)) + i
    <2>1. i + 1 \in 1..Len(inHand) /\ i \in 1..Len(inHand) - 1
      BY <1>1, <1>5
    <2>2. inHand[i + 1] = page.to - Len(inHand) + (i + 1)
      BY <2>1 DEF PollInv
    <2>3. page.to - (Len(inHand) - 1) + i = page.to - Len(inHand) + (i + 1)
      <3>1. page.to \in Int /\ Len(inHand) \in Int /\ i \in Int
        BY <1>1, <2>1
      <3> QED BY <3>1, OneMore
    <2> QED BY <1>5, <2>1, <2>2, <2>3
  <1> QED BY <1>1, <1>2, <1>3, <1>4, <1>5, <1>6

\* One message further on the page.
LEMMA OneFurther ==
    ASSUME Ledgers, DeltaInv, PollInv, channel = "graph", pc = "working", inHand # <<>>,
           inHand' = Tail(inHand), UNCHANGED <<kind, pc, trouble, restarts, link, page>>,
           taken'[Place + 1] <= taken[Place + 1] + 1,
           \A m \in 1..Len(kind) : m # Place + 1 => taken'[m] = taken[m],
           \A m \in 1..Len(kind) : taken'[m] \in Nat
    PROVE  PollInv'
  <1>1. /\ Len(Tail(inHand)) = Len(inHand) - 1 /\ Place \in Nat
        /\ \A i \in 1..Len(Tail(inHand)) :
             Tail(inHand)[i] = page.to - Len(Tail(inHand)) + i
    BY HeadOfPage
  <1>2. /\ Len(kind) \in Nat /\ trouble \in Nat /\ restarts \in Nat /\ page.to \in Nat
        /\ link \in Nat /\ Len(inHand) \in Nat
        /\ \A m \in 1..Len(kind) : taken[m] \in Nat
    BY PollBounds
  <1>3. Place' = Place + 1
    BY <1>1, <1>2 DEF Place
  <1>4. link <= Place
    BY DEF PollInv
  <1>5. \A m : BadFrom(m)' <=> BadFrom(m)
    BY DEF BadFrom
  <1>6. ASSUME NEW m \in 1..Len(kind)
        PROVE  \/ BadFrom(m) \/ taken'[m] <= trouble + restarts
               \/ m <= Place + 1 /\ taken'[m] <= 1 + trouble + restarts
    <2>1. BadFrom(m) \/ taken[m] <= trouble + restarts
          \/ (m <= Place /\ taken[m] <= 1 + trouble + restarts)
      BY DEF PollInv
    <2> QED BY <1>1, <1>2, <2>1
  <1>7. link' <= Place'
    BY <1>1, <1>2, <1>3, <1>4
  <1> QED BY <1>1, <1>3, <1>5, <1>6, <1>7 DEF PollInv

LEMMA HandleFailsPoll ==
    ASSUME Ledgers, Ledgers', DeltaInv, PollInv, HandleMessageFails PROVE PollInv'
  <1> PICK k : k = Head(inHand)
    OBVIOUS
  <1>1. /\ channel = "graph" /\ pc = "working" /\ inHand # <<>> /\ Takes(k)
        /\ inHand' = <<>> /\ pc' = "idle" /\ UNCHANGED <<channel, kind, restarts, link>>
        /\ (kind[k] = "bad" /\ UNCHANGED trouble) \/ (kind[k] = "mail" /\ Trouble)
        /\ Files(k, Home) \/ UNCHANGED filed
    BY DEF HandleMessageFails
  <1>2. k = Place + 1 /\ k \in 1..Len(kind) /\ Place \in Nat
    BY <1>1, HeadOfPage
  <1>3. /\ Len(kind) \in Nat /\ trouble \in Nat /\ restarts \in Nat
        /\ \A m \in 1..Len(kind) : taken[m] \in Nat
    BY <1>1, PollBounds
  <1>4. trouble' \in Nat /\ restarts' \in Nat
    BY <1>1, <1>3 DEF Trouble
  <1>5. /\ taken'[k] <= taken[k] + 1
        /\ \A m \in 1..Len(kind) : m # k => taken'[m] = taken[m]
    BY <1>1, <1>2, <1>4, HomeIsOrg, AfterTaking
  <1>6. (\A m \in 1..Len(kind) : taken'[m] \in Nat) /\ link' \in Nat
    <2>1. taken' \in Seq(Nat) /\ Len(taken') = Len(kind')
      BY DEF Ledgers
    <2>2. link \in Nat /\ Len(kind) \in Nat
      BY <1>1, PollBounds
    <2> QED BY <1>1, <2>1, <2>2
  <1>7. CASE kind[k] = "mail" /\ Trouble
    <2>1. trouble' = trouble + 1 /\ restarts' = restarts
      BY <1>1, <1>7 DEF Trouble
    <2>2. trouble' + restarts' >= 1 + trouble + restarts
      BY <1>3, <2>1
    <2>3. \A m \in 1..Len(kind) : taken'[m] <= taken[m] \/ BadFrom(m)
                                  \/ (taken'[m] <= taken[m] + 1 /\ m > Place)
      BY <1>2, <1>3, <1>5
    <2> QED BY <1>1, <1>4, <1>6, <2>2, <2>3, PollEnds
  <1>8. CASE kind[k] = "bad" /\ UNCHANGED trouble
    <2>1. ASSUME NEW m \in 1..Len(kind), m <= k PROVE BadFrom(m)
      BY <1>2, <1>3, <1>8, <2>1 DEF BadFrom
    <2>2. ASSUME NEW m \in 1..Len(kind) PROVE BadFrom(m) \/ taken'[m] <= trouble + restarts
      <3>1. BadFrom(m) \/ taken[m] <= trouble + restarts
            \/ (m <= Place /\ taken[m] <= 1 + trouble + restarts)
        BY DEF PollInv
      <3> QED BY <1>2, <1>3, <1>5, <2>1, <3>1
    <2>3. Place' = link'
      BY <1>1 DEF Place
    <2>4. \A m : BadFrom(m)' <=> BadFrom(m)
      BY <1>1 DEF BadFrom
    <2>5. link' <= Place'
      <3>1. link \in Nat
        BY <1>1, PollBounds
      <3> QED BY <1>1, <2>3, <3>1
    <2>6. \A i \in 1..Len(inHand') : inHand'[i] = page'.to - Len(inHand') + i
      BY <1>1
    <2>7. \A m \in 1..Len(kind') : \/ BadFrom(m)' \/ taken'[m] <= trouble' + restarts'
      BY <1>1, <1>8, <2>2, <2>4
    <2> QED BY <1>1, <2>5, <2>6, <2>7 DEF PollInv
  <1> QED BY <1>1, <1>7, <1>8

LEMMA PollStep ==
    ASSUME Ledgers, Ledgers', DeltaInv, DeltaInv', PollInv, channel = "graph",
           GraphWorks \/ GraphEnters \/ GraphRestarts
    PROVE  PollInv'
  <1>1. CASE GraphEnters
    BY <1>1, GraphEntersPoll
  <1>2. CASE FetchPage
    BY <1>2, FetchPagePoll
  <1>3. CASE FetchPageFails
    <2>1. /\ pc \in {"idle", "paging"} /\ pc' = "idle" /\ trouble' = trouble + 1
          /\ UNCHANGED <<kind, taken, inHand, restarts, link>>
      BY <1>3 DEF FetchPageFails, Trouble, graphVars
    <2>2. /\ trouble \in Nat /\ restarts \in Nat
          /\ \A m \in 1..Len(kind) : taken[m] \in Nat
      BY PollBounds
    <2>3. inHand' = <<>>
      BY <2>1 DEF PollInv
    <2>4. /\ trouble' + restarts' >= 1 + trouble + restarts
          /\ trouble' \in Nat /\ restarts' \in Nat /\ link' \in Nat
      BY <2>1, <2>2, PollBounds
    <2> QED BY <2>1, <2>2, <2>3, <2>4, PollEnds
  <1>4. CASE SkipRemoved
    <2>1. /\ pc = "working" /\ inHand # <<>> /\ inHand' = Tail(inHand)
          /\ UNCHANGED <<kind, taken, pc, trouble, restarts, link, page>>
      BY <1>4 DEF SkipRemoved, graphVars
    <2>2. Place + 1 \in 1..Len(kind)
      BY <2>1, HeadOfPage
    <2>3. \A m \in 1..Len(kind) : taken[m] \in Nat
      BY PollBounds
    <2>4. taken'[Place + 1] <= taken[Place + 1] + 1
      BY <2>1, <2>2, <2>3
    <2> QED BY <2>1, <2>3, <2>4, OneFurther
  <1>5. CASE HandleMessage
    <2> PICK k : k = Head(inHand)
      OBVIOUS
    <2>1. /\ pc = "working" /\ inHand # <<>> /\ Takes(k) /\ Files(k, Home)
          /\ inHand' = Tail(inHand)
          /\ UNCHANGED <<channel, kind, pc, trouble, restarts, link, page>>
      BY <1>5 DEF HandleMessage
    <2>2. k = Place + 1 /\ k \in 1..Len(kind)
      BY <2>1, HeadOfPage
    <2>3. trouble' \in Nat /\ restarts' \in Nat
      BY DEF Ledgers
    <2>4. /\ taken'[k] <= taken[k] + 1
          /\ \A m \in 1..Len(kind) : m # k => taken'[m] = taken[m]
      BY <2>1, <2>2, <2>3, HomeIsOrg, AfterTaking
    <2>5. \A m \in 1..Len(kind) : taken'[m] \in Nat
      BY <2>1 DEF Ledgers
    <2> QED BY <2>1, <2>2, <2>4, <2>5, OneFurther
  <1>6. CASE HandleMessageFails
    BY <1>6, HandleFailsPoll
  <1>7. CASE PageDone
    <2>1. /\ pc = "working" /\ inHand = <<>>
          /\ link' = IF page.more THEN link ELSE page.to
          /\ pc' \in {"paging", "saving"}
          /\ UNCHANGED <<kind, taken, inHand, trouble, restarts, page>>
      BY <1>7 DEF PageDone
    <2>2. link \in Nat /\ page.to \in Nat
      BY PollBounds
    <2>3. Place' = Place /\ Place = page.to
      BY <2>1, <2>2 DEF Place
    <2>4. \A m : BadFrom(m)' <=> BadFrom(m)
      BY <2>1 DEF BadFrom
    <2>5. link' <= Place' /\ (pc' = "saving" => link' = page'.to)
      <3>1. pc' = "saving" => link' = page.to
        BY <1>7, <2>1 DEF PageDone
      <3> QED BY <2>1, <2>2, <2>3, <3>1 DEF PollInv
    <2>6. \A m \in 1..Len(kind) :
            \/ BadFrom(m) \/ taken[m] <= trouble + restarts
            \/ m <= Place /\ taken[m] <= 1 + trouble + restarts
      BY DEF PollInv
    <2>7. Len(inHand') = 0
      BY <2>1
    <2>8. \A i \in 1..Len(inHand') : inHand'[i] = page'.to - Len(inHand') + i
      BY <2>7
    <2> QED BY <2>1, <2>3, <2>4, <2>5, <2>6, <2>8 DEF PollInv
  <1>8. CASE SaveState
    <2>1. /\ pc = "saving" /\ pc' \in {"idle", "stopped"}
          /\ trouble' \in {trouble, trouble + 1}
          /\ UNCHANGED <<kind, taken, inHand, restarts, link, page>>
      BY <1>8 DEF SaveState, Trouble
    <2>2. /\ trouble \in Nat /\ restarts \in Nat /\ Len(kind) \in Nat
          /\ link \in Nat /\ page.to \in Nat /\ inHand = <<>>
          /\ \A m \in 1..Len(kind) : taken[m] \in Nat
      BY <2>1, PollBounds DEF PollInv
    <2>3. Place = page.to /\ Place' \in {link, page.to} /\ link <= page.to
      BY <2>1, <2>2 DEF Place, PollInv
    <2>4. \A m : BadFrom(m)' <=> BadFrom(m)
      BY <2>1 DEF BadFrom
    <2>5. \A i \in 1..Len(inHand') : inHand'[i] = page'.to - Len(inHand') + i
      BY <2>1, <2>2
    <2>6. ASSUME NEW m \in 1..Len(kind)
          PROVE  \/ BadFrom(m) \/ taken[m] <= trouble' + restarts
                 \/ m <= Place' /\ taken[m] <= 1 + trouble' + restarts
      <3>1. BadFrom(m) \/ taken[m] <= trouble + restarts
            \/ (m <= Place /\ taken[m] <= 1 + trouble + restarts)
        BY DEF PollInv
      <3>2. CASE trouble' = trouble + 1
        BY <2>2, <3>1, <3>2
      <3>3. CASE trouble' = trouble
        <4>1. Place' = Place
          BY <2>1, <2>3 DEF PollInv
        <4> QED BY <3>1, <3>3, <4>1
      <3> QED BY <2>1, <3>2, <3>3
    <2>7. link' <= Place'
      BY <2>1, <2>2, <2>3
    <2> QED BY <2>1, <2>2, <2>4, <2>5, <2>6, <2>7 DEF PollInv
  <1>9. CASE GraphRestarts
    <2>1. /\ pc' = "idle" /\ inHand' = <<>> /\ restarts' = restarts + 1
          /\ trouble' \in {trouble, trouble + 1}
          /\ UNCHANGED <<kind, taken>>
      BY <1>9 DEF GraphRestarts, Restarts, Trouble
    <2>2. /\ trouble \in Nat /\ restarts \in Nat
          /\ \A m \in 1..Len(kind) : taken[m] \in Nat
      BY PollBounds
    <2>3. /\ trouble' + restarts' >= 1 + trouble + restarts
          /\ trouble' \in Nat /\ restarts' \in Nat
      <3>1. CASE trouble' = trouble
        BY <2>1, <2>2, <3>1
      <3>2. CASE trouble' = trouble + 1
        BY <2>1, <2>2, <3>2
      <3> QED BY <2>1, <3>1, <3>2
    <2>4. link' \in Nat
      BY <1>9 DEF GraphRestarts, Restarts, DeltaInv, GraphShape
    <2> QED BY <2>1, <2>2, <2>3, <2>4, PollEnds
  <1> QED BY <1>1, <1>2, <1>3, <1>4, <1>5, <1>6, <1>7, <1>8, <1>9 DEF GraphWorks
-----------------------------------------------------------------------------
\* The session's numbers while nobody else removes messages: they mean what
\* they meant when the folder was selected, and what was processed has its
\* verdict.
NumbersHold ==
    /\ \A m \in moved : filed[m] # {}
    /\ \A n \in processed : filed[view[n]] # {}
    /\ Len(view) <= Len(folder) /\ \A n \in 1..Len(view) : folder[n] = view[n]

FolderShape ==
    /\ folder \in Seq(1..Len(kind)) /\ OneOfEach(folder)
    /\ view \in Seq(1..Len(kind)) /\ OneOfEach(view)
    /\ inHand \in Seq(1..Len(view)) /\ OneOfEach(inHand)
    /\ sent \in 0..Len(inHand)
    /\ processed \subseteq 1..Len(view)
    /\ seen \subseteq 1..Len(kind) /\ moved \subseteq 1..Len(kind)
    /\ pc = "idle" => view = <<>>
    /\ expunges \in Nat

\* What is in hand was never taken up, and what was sent is flagged.
AtMostOnce ==
    /\ \A m \in 1..Len(kind) : taken[m] <= 1 /\ (m \notin seen => taken[m] = 0)
    /\ \A i \in 1..Len(inHand) : taken[view[inHand[i]]] = 0
    /\ \A i \in 1..sent : view[inHand[i]] \in seen

ImapInv == FolderShape /\ AtMostOnce /\ (expunges = 0 => NumbersHold)

\* A session that ends leaves nothing in hand.
LEMMA SessionEndsKeeps ==
    ASSUME ImapInv, SessionEnds, UNCHANGED <<kind, taken, filed, expunges>>,
           folder' \in Seq(1..Len(kind)), OneOfEach(folder'),
           seen \subseteq seen', seen' \subseteq 1..Len(kind), moved' \subseteq 1..Len(kind),
           expunges = 0 => \A m \in moved' : filed[m] # {}
    PROVE  ImapInv'
  <1>1. /\ pc' = "idle" /\ inHand' = <<>> /\ view' = <<>> /\ sent' = 0 /\ processed' = {}
    BY DEF SessionEnds
  <1>2. Len(inHand') = 0 /\ Len(view') = 0
    BY <1>1
  <1>3. /\ inHand' \in Seq(1..Len(view')) /\ view' \in Seq(1..Len(kind))
        /\ OneOfEach(view') /\ OneOfEach(inHand') /\ sent' \in 0..Len(inHand')
    BY <1>1, <1>2 DEF OneOfEach
  <1>4. FolderShape'
    BY <1>1, <1>3 DEF ImapInv, FolderShape, OneOfEach
  <1>5. AtMostOnce'
    BY <1>1, <1>2 DEF ImapInv, AtMostOnce
  <1>6. expunges' = 0 => NumbersHold'
    <2>1. Len(folder') \in Nat
      OBVIOUS
    <2> QED BY <1>1, <1>2, <2>1 DEF NumbersHold
  <1> QED BY <1>4, <1>5, <1>6 DEF ImapInv

LEMMA ImapEntersStep ==
    ASSUME Ledgers, ImapInv, ImapEnters PROVE ImapInv'
  <1>1. /\ Enters /\ folder' = Append(folder, Len(kind'))
        /\ UNCHANGED <<pc, inHand, seen, moved, expunges, view, sent, processed>>
    BY DEF ImapEnters, Enters
  <1>2. /\ Len(kind') = Len(kind) + 1
        /\ \A k \in 1..Len(kind) : taken'[k] = taken[k] /\ filed'[k] = filed[k]
        /\ taken'[Len(kind) + 1] = 0
    BY <1>1, AfterEntering
  <1>3. FolderShape /\ AtMostOnce
    BY DEF ImapInv
  <1>4. Len(kind) \in Nat /\ Len(view) \in Nat /\ Len(folder) \in Nat
    BY <1>3 DEF FolderShape, Ledgers
  <1>5. /\ folder' \in Seq(1..Len(kind')) /\ Len(folder') = Len(folder) + 1
        /\ folder'[Len(folder) + 1] = Len(kind) + 1
        /\ \A i \in 1..Len(folder) : folder'[i] = folder[i] /\ folder[i] \in 1..Len(kind)
    <2>1. folder \in Seq(1..Len(kind) + 1) /\ folder \in Seq(1..Len(kind))
      BY <1>3, <1>4 DEF FolderShape
    <2> QED BY <1>1, <1>2, <1>4, <2>1
  <1>6. OneOfEach(folder')
    <2>1. OneOfEach(folder)
      BY <1>3 DEF FolderShape
    <2>2. ASSUME NEW i \in 1..Len(folder) + 1, NEW j \in 1..Len(folder) + 1,
                 folder'[i] = folder'[j]
          PROVE  i = j
      <3>0. \A k \in 1..Len(folder) : folder'[k] # folder'[Len(folder) + 1]
        BY <1>4, <1>5
      <3>1. CASE i = Len(folder) + 1
        BY <1>4, <2>2, <3>0, <3>1
      <3>2. CASE j = Len(folder) + 1
        BY <1>4, <2>2, <3>0, <3>2
      <3>3. CASE i \in 1..Len(folder) /\ j \in 1..Len(folder)
        BY <1>5, <2>1, <2>2, <3>3 DEF OneOfEach
      <3> QED BY <1>4, <3>1, <3>2, <3>3
    <2> QED BY <1>5, <2>2 DEF OneOfEach
  <1>7. view' \in Seq(1..Len(kind'))
    BY <1>1, <1>2, <1>3, <1>4 DEF FolderShape
  <1>8. FolderShape'
    <2>1. seen' \subseteq 1..Len(kind') /\ moved' \subseteq 1..Len(kind')
      BY <1>1, <1>2, <1>3, <1>4 DEF FolderShape
    <2>2. /\ inHand' \in Seq(1..Len(view')) /\ OneOfEach(inHand)' /\ OneOfEach(view)'
          /\ sent' \in 0..Len(inHand') /\ processed' \subseteq 1..Len(view')
          /\ (pc' = "idle" => view' = <<>>) /\ expunges' \in Nat
      BY <1>1, <1>3 DEF FolderShape, OneOfEach
    <2>3. OneOfEach(folder)'
      BY <1>6 DEF OneOfEach
    <2> QED BY <1>5, <1>7, <2>1, <2>2, <2>3 DEF FolderShape
  <1>9. /\ \A i \in 1..Len(inHand) : view[inHand[i]] \in 1..Len(kind)
        /\ \A n \in 1..Len(view) : view[n] \in 1..Len(kind)
    <2>1. inHand \in Seq(1..Len(view)) /\ view \in Seq(1..Len(kind))
      BY <1>3 DEF FolderShape
    <2>2. \A n \in 1..Len(view) : view[n] \in 1..Len(kind)
      BY <2>1
    <2>3. \A i \in 1..Len(inHand) : inHand[i] \in 1..Len(view)
      BY <2>1
    <2> QED BY <2>2, <2>3
  <1>10. AtMostOnce'
    <2>1. ASSUME NEW m \in 1..Len(kind')
          PROVE  taken'[m] <= 1 /\ (m \notin seen' => taken'[m] = 0)
      <3>1. CASE m = Len(kind) + 1
        BY <1>2, <3>1
      <3>2. CASE m \in 1..Len(kind)
        BY <1>1, <1>2, <1>3, <3>2 DEF AtMostOnce
      <3> QED BY <1>2, <1>4, <3>1, <3>2
    <2>2. \A i \in 1..Len(inHand') : taken'[view'[inHand'[i]]] = 0
      BY <1>1, <1>2, <1>3, <1>9 DEF AtMostOnce
    <2>3. \A i \in 1..sent' : view'[inHand'[i]] \in seen'
      BY <1>1, <1>3 DEF AtMostOnce
    <2> QED BY <2>1, <2>2, <2>3 DEF AtMostOnce
  <1>11. expunges' = 0 => NumbersHold'
    <2> SUFFICES ASSUME expunges = 0 PROVE NumbersHold'
      BY <1>1
    <2>1. NumbersHold
      BY DEF ImapInv
    <2>2. /\ \A m \in moved' : filed'[m] # {}
      BY <1>1, <1>2, <1>3, <2>1 DEF NumbersHold, FolderShape
    <2>3. \A n \in processed' : filed'[view'[n]] # {}
      BY <1>1, <1>2, <1>3, <1>9, <2>1 DEF NumbersHold, FolderShape
    <2>4. Len(view') <= Len(folder') /\ \A n \in 1..Len(view') : folder'[n] = view'[n]
      BY <1>1, <1>4, <1>5, <2>1 DEF NumbersHold
    <2> QED BY <2>2, <2>3, <2>4 DEF NumbersHold
  <1> QED BY <1>8, <1>10, <1>11 DEF ImapInv

LEMMA OthersExpungeStep ==
    ASSUME ImapInv, OthersExpunge PROVE ImapInv'
  <1>1. PICK m : folder' = Without(folder, {m})
    BY DEF OthersExpunge
  <1>2. /\ expunges' = expunges + 1
        /\ UNCHANGED <<kind, taken, filed, pc, inHand, seen, moved, view, sent, processed>>
    BY DEF OthersExpunge, intakeVars
  <1>3. folder \in Seq(1..Len(kind)) /\ OneOfEach(folder) /\ expunges \in Nat
    BY DEF ImapInv, FolderShape
  <1>4. folder' \in Seq((1..Len(kind)) \ {m}) /\ OneOfEach(folder')
    BY <1>1, <1>3, WithoutFacts
  <1>5. folder' \in Seq(1..Len(kind))
    BY <1>4
  <1>6. FolderShape'
    BY <1>2, <1>3, <1>4, <1>5 DEF ImapInv, FolderShape, OneOfEach
  <1>7. AtMostOnce'
    BY <1>2 DEF ImapInv, AtMostOnce
  <1>8. expunges' # 0
    BY <1>2, <1>3
  <1> QED BY <1>6, <1>7, <1>8 DEF ImapInv

LEMMA SearchStep ==
    ASSUME Ledgers, ImapInv, Search PROVE ImapInv'
  <1> DEFINE numbers == [n \in DOMAIN folder |-> n]
             old == {n \in DOMAIN folder : folder[n] \in seen}
  <1>1. /\ pc = "idle" /\ inHand' = Without(numbers, old) /\ view' = folder /\ pc' = "working"
        /\ UNCHANGED <<kind, taken, filed, folder, seen, moved, expunges, sent, processed>>
    BY DEF Search
  <1>2. /\ folder \in Seq(1..Len(kind)) /\ OneOfEach(folder) /\ Len(folder) \in Nat
        /\ view = <<>>
    BY <1>1 DEF ImapInv, FolderShape
  <1>3. /\ numbers \in Seq(1..Len(folder)) /\ OneOfEach(numbers)
    <2>1. numbers = [n \in 1..Len(folder) |-> n]
      BY <1>2
    <2>2. numbers \in Seq(1..Len(folder)) /\ Len(numbers) = Len(folder)
      BY <1>2, <2>1
    <2> QED BY <2>1, <2>2 DEF OneOfEach
  <1>4. inHand' \in Seq((1..Len(folder)) \ old) /\ OneOfEach(inHand')
    <2> HIDE DEF numbers, old
    <2> QED BY <1>1, <1>3, WithoutFacts
  <1>5. /\ inHand' \in Seq(1..Len(folder))
        /\ \A i \in 1..Len(inHand') : inHand'[i] \in 1..Len(folder) /\ folder[inHand'[i]] \notin seen
    <2>1. \A i \in 1..Len(inHand') : inHand'[i] \in (1..Len(folder)) \ old
      BY <1>4
    <2>2. inHand' \in Seq(1..Len(folder))
      <3> HIDE DEF old
      <3> QED BY <1>4
    <2> QED BY <1>2, <2>1, <2>2
  <1>6. sent = 0 /\ processed = {}
    <2>1. inHand \in Seq(1..Len(view)) /\ sent \in 0..Len(inHand) /\ processed \subseteq 1..Len(view)
      BY DEF ImapInv, FolderShape
    <2>2. Len(view) = 0
      BY <1>2
    <2>3. Len(inHand) = 0
      <3>1. ASSUME Len(inHand) # 0 PROVE FALSE
        <4>1. inHand[1] \in 1..Len(view)
          BY <2>1, <3>1
        <4> QED BY <2>2, <4>1
      <3> QED BY <3>1
    <2> QED BY <2>1, <2>2, <2>3
  <1> HIDE DEF numbers, old
  <1>7. FolderShape'
    <2>1. Len(inHand') \in Nat
      BY <1>5
    <2>2. sent' \in 0..Len(inHand') /\ processed' \subseteq 1..Len(view')
      BY <1>1, <1>6, <2>1
    <2> QED BY <1>1, <1>2, <1>4, <1>5, <2>2 DEF ImapInv, FolderShape, OneOfEach
  <1>8. AtMostOnce'
    <2>1. \A m \in 1..Len(kind) : taken[m] <= 1 /\ (m \notin seen => taken[m] = 0)
      BY DEF ImapInv, AtMostOnce
    <2>2. ASSUME NEW i \in 1..Len(inHand') PROVE taken[folder[inHand'[i]]] = 0
      <3>1. folder[inHand'[i]] \in 1..Len(kind) /\ folder[inHand'[i]] \notin seen
        <4>1. inHand'[i] \in 1..Len(folder) /\ folder[inHand'[i]] \notin seen
          BY <1>5
        <4>2. \A n \in 1..Len(folder) : folder[n] \in 1..Len(kind)
          BY <1>2
        <4> QED BY <4>1, <4>2
      <3> QED BY <2>1, <3>1
    <2>3. \A i \in 1..sent' : view'[inHand'[i]] \in seen'
      BY <1>1, <1>6
    <2> QED BY <1>1, <2>1, <2>2, <2>3 DEF AtMostOnce
  <1>9. expunges' = 0 => NumbersHold'
    BY <1>1, <1>2, <1>6 DEF ImapInv, NumbersHold
  <1> QED BY <1>7, <1>8, <1>9 DEF ImapInv

LEMMA SendNextStep ==
    ASSUME ImapInv, SendNext PROVE ImapInv'
  <1>1. /\ sent < Len(inHand) /\ seen' = seen \cup {view[inHand[sent + 1]]} /\ sent' = sent + 1
        /\ UNCHANGED <<kind, taken, filed, pc, inHand, folder, moved, expunges, view, processed>>
    BY DEF SendNext, intakeVars
  <1>2. FolderShape /\ AtMostOnce
    BY DEF ImapInv
  <1>3. /\ Len(inHand) \in Nat /\ sent \in 0..Len(inHand) /\ sent + 1 \in 1..Len(inHand)
        /\ inHand[sent + 1] \in 1..Len(view) /\ view[inHand[sent + 1]] \in 1..Len(kind)
    <2>1. /\ inHand \in Seq(1..Len(view)) /\ view \in Seq(1..Len(kind))
          /\ sent \in 0..Len(inHand)
      BY <1>2 DEF FolderShape
    <2>2. sent + 1 \in 1..Len(inHand)
      BY <1>1, <2>1
    <2>3. inHand[sent + 1] \in 1..Len(view)
      BY <2>1, <2>2, Element, Zenon
    <2>4. view[inHand[sent + 1]] \in 1..Len(kind)
      BY <2>1, <2>3, Element, Zenon
    <2>5. Len(inHand) \in Nat
      BY <2>1
    <2> QED BY <2>1, <2>2, <2>3, <2>4, <2>5
  <1>4. FolderShape'
    <2>1. seen' \subseteq 1..Len(kind) /\ sent' \in 0..Len(inHand)
      <3>1. seen \subseteq 1..Len(kind)
        BY <1>2 DEF FolderShape
      <3>2. seen' \subseteq 1..Len(kind)
        BY <1>1, <1>3, <3>1
      <3>3. sent' \in 0..Len(inHand)
        BY <1>1, <1>3
      <3> QED BY <3>2, <3>3
    <2> QED BY <1>1, <1>2, <2>1 DEF FolderShape, OneOfEach
  <1>5. AtMostOnce'
    <2>1. ASSUME NEW i \in 1..sent + 1 PROVE view[inHand[i]] \in seen'
      <3>1. CASE i = sent + 1
        BY <1>1, <3>1
      <3>2. CASE i \in 1..sent
        BY <1>1, <1>2, <3>2 DEF AtMostOnce
      <3> QED BY <1>3, <3>1, <3>2
    <2> QED BY <1>1, <1>2, <2>1 DEF AtMostOnce
  <1>6. expunges' = 0 => NumbersHold'
    BY <1>1 DEF ImapInv, NumbersHold
  <1> QED BY <1>4, <1>5, <1>6 DEF ImapInv

LEMMA ProcessStep ==
    ASSUME Ledgers, ImapInv, Process PROVE ImapInv' /\ Ledgers'
  <1> PICK n, m : n = Head(inHand) /\ m = view[n]
    OBVIOUS
  <1>1. /\ sent > 0 /\ Takes(m) /\ inHand' = Tail(inHand) /\ sent' = sent - 1
        /\ UNCHANGED <<channel, kind, pc, restarts, folder, seen, moved, expunges, view>>
        /\ Files(m, Home) \/ UNCHANGED filed
        /\ (processed' = processed \cup {n} /\ Files(m, Home)) \/ UNCHANGED processed
        /\ Trouble \/ UNCHANGED trouble
    BY DEF Process, FailedIsLeft
  <1>2. FolderShape /\ AtMostOnce
    BY DEF ImapInv
  <1>3. /\ inHand \in Seq(1..Len(view)) /\ view \in Seq(1..Len(kind))
        /\ sent \in 0..Len(inHand) /\ Len(inHand) \in Nat /\ inHand # <<>>
        /\ processed \subseteq 1..Len(view)
    BY <1>1, <1>2 DEF FolderShape
  <1>4. /\ n = inHand[1] /\ 1 \in 1..Len(inHand) /\ n \in 1..Len(view) /\ m \in 1..Len(kind)
        /\ Tail(inHand) \in Seq(1..Len(view)) /\ Len(Tail(inHand)) = Len(inHand) - 1
        /\ \A i \in 1..Len(inHand) - 1 : Tail(inHand)[i] = inHand[i + 1]
    <2>1. /\ Head(inHand) = inHand[1] /\ 1 \in 1..Len(inHand) /\ Head(inHand) \in 1..Len(view)
          /\ Tail(inHand) \in Seq(1..Len(view)) /\ Len(Tail(inHand)) = Len(inHand) - 1
          /\ \A i \in 1..Len(inHand) - 1 : Tail(inHand)[i] = inHand[i + 1]
      BY <1>3
    <2> QED BY <1>3, <2>1
  <1>5. trouble' \in Nat /\ restarts' \in Nat
    BY <1>1 DEF Ledgers, Trouble
  <1>6. /\ Ledgers' /\ taken'[m] <= taken[m] + 1
        /\ \A k \in 1..Len(kind) : k # m => taken'[k] = taken[k] /\ filed'[k] = filed[k]
        /\ filed[m] \subseteq filed'[m] /\ (Files(m, Home) => Home \in filed'[m])
    BY <1>1, <1>4, <1>5, HomeIsOrg, AfterTaking
  <1>7. taken[m] = 0 /\ m \in seen
    <2>1. 1 \in 1..sent
      BY <1>1, <1>3
    <2> QED BY <1>2, <1>4, <2>1 DEF AtMostOnce
  <1>8. /\ OneOfEach(Tail(inHand)) /\ \A i \in 1..Len(Tail(inHand)) : Tail(inHand)[i] # n
    <2>1. OneOfEach(inHand)
      BY <1>2 DEF FolderShape
    <2>2. \A i \in 1..Len(inHand) - 1 : i + 1 \in 1..Len(inHand) /\ i + 1 # 1
      BY <1>3
    <2>3. ASSUME NEW i \in 1..Len(inHand) - 1 PROVE inHand[i + 1] # n
      BY <1>4, <2>1, <2>2 DEF OneOfEach
    <2>4. ASSUME NEW i \in 1..Len(inHand) - 1, NEW j \in 1..Len(inHand) - 1,
                 inHand[i + 1] = inHand[j + 1]
          PROVE  i = j
      <3>1. i + 1 = j + 1
        BY <2>1, <2>2, <2>4 DEF OneOfEach
      <3> QED BY <3>1
    <2> QED BY <1>4, <2>3, <2>4 DEF OneOfEach
  <1>9. FolderShape'
    <2>1. processed' \subseteq 1..Len(view) /\ sent' \in 0..Len(inHand')
      <3>1. processed' \subseteq 1..Len(view)
        BY <1>1, <1>3, <1>4
      <3>2. Len(inHand') = Len(inHand) - 1 /\ sent' = sent - 1
        BY <1>1, <1>4
      <3>3. sent' \in 0..Len(inHand')
        BY <1>1, <1>3, <3>2
      <3> QED BY <3>1, <3>3
    <2>2. OneOfEach(inHand)' /\ inHand' \in Seq(1..Len(view))
      BY <1>1, <1>4, <1>8 DEF OneOfEach
    <2> QED BY <1>1, <1>2, <2>1, <2>2 DEF FolderShape, OneOfEach
  <1>10. AtMostOnce'
    <2>1. ASSUME NEW k \in 1..Len(kind) PROVE taken'[k] <= 1 /\ (k \notin seen => taken'[k] = 0)
      <3>1. CASE k = m
        BY <1>6, <1>7, <3>1
      <3>2. CASE k # m
        BY <1>2, <1>6, <3>2 DEF AtMostOnce
      <3> QED BY <3>1, <3>2
    <2>2. ASSUME NEW i \in 1..Len(Tail(inHand)) PROVE taken'[view[Tail(inHand)[i]]] = 0
      <3>1. i + 1 \in 1..Len(inHand) /\ Tail(inHand)[i] = inHand[i + 1]
        BY <1>3, <1>4
      <3>2. taken[view[inHand[i + 1]]] = 0
        BY <1>2, <3>1 DEF AtMostOnce
      <3>3. Tail(inHand)[i] \in 1..Len(view) /\ Tail(inHand)[i] # n
        BY <1>4, <1>8
      <3>4. view[Tail(inHand)[i]] # m
        BY <1>2, <1>4, <3>3 DEF FolderShape, OneOfEach
      <3>5. view[Tail(inHand)[i]] \in 1..Len(kind)
        BY <1>3, <3>3, Element, Zenon
      <3> QED BY <1>6, <3>1, <3>2, <3>4, <3>5
    <2>3. ASSUME NEW i \in 1..sent - 1 PROVE view[Tail(inHand)[i]] \in seen
      <3>1. i + 1 \in 1..sent /\ i \in 1..Len(inHand) - 1
        BY <1>3
      <3>2. view[inHand[i + 1]] \in seen
        BY <1>2, <3>1 DEF AtMostOnce
      <3> QED BY <1>4, <3>1, <3>2
    <2> QED BY <1>1, <2>1, <2>2, <2>3 DEF AtMostOnce
  <1>11. expunges' = 0 => NumbersHold'
    <2> SUFFICES ASSUME expunges = 0 PROVE NumbersHold'
      BY <1>1
    <2>1. NumbersHold
      BY DEF ImapInv
    <2>2. \A k \in 1..Len(kind) : filed[k] # {} => filed'[k] # {}
      BY <1>6
    <2>3. \A k \in moved : filed'[k] # {}
      BY <1>2, <2>1, <2>2 DEF NumbersHold, FolderShape
    <2>4. \A k \in processed' : filed'[view[k]] # {}
      <3>1. ASSUME NEW k \in processed PROVE filed'[view[k]] # {}
        <4>1. view[k] \in 1..Len(kind) /\ filed[view[k]] # {}
          <5>1. k \in 1..Len(view)
            BY <1>3
          <5>2. filed[view[k]] # {}
            BY <2>1 DEF NumbersHold
          <5>3. view[k] \in 1..Len(kind)
            BY <1>3, <5>1, Element, Zenon
          <5> QED BY <5>2, <5>3
        <4> QED BY <2>2, <4>1
      <3>2. Files(m, Home) => filed'[view[n]] # {}
        BY <1>6
      <3> QED BY <1>1, <3>1, <3>2
    <2> QED BY <1>1, <2>1, <2>3, <2>4 DEF NumbersHold
  <1> QED BY <1>6, <1>9, <1>10, <1>11 DEF ImapInv

LEMMA MoveStep ==
    ASSUME ImapInv, MoveProcessed PROVE ImapInv'
  <1>1. PICK numbering \in {view, folder} :
          LET goes == {numbering[n] : n \in processed \cap DOMAIN numbering} \cap Range(folder)
          IN  moved' = moved \cup goes /\ folder' = Without(folder, goes)
    BY DEF MoveProcessed
  <1> PICK goes :
        goes = {numbering[n] : n \in processed \cap DOMAIN numbering} \cap Range(folder)
    OBVIOUS
  <1>2. moved' = moved \cup goes /\ folder' = Without(folder, goes)
    BY <1>1
  <1>3. SessionEnds /\ UNCHANGED <<kind, taken, filed, expunges, seen>>
    BY DEF MoveProcessed
  <1>4. /\ folder \in Seq(1..Len(kind)) /\ OneOfEach(folder) /\ moved \subseteq 1..Len(kind)
        /\ seen \subseteq 1..Len(kind) /\ view \in Seq(1..Len(kind))
        /\ processed \subseteq 1..Len(view)
    BY DEF ImapInv, FolderShape
  <1>5. folder' \in Seq((1..Len(kind)) \ goes) /\ OneOfEach(folder')
    BY <1>2, <1>4, WithoutFacts
  <1>6. folder' \in Seq(1..Len(kind))
    BY <1>5
  <1>7. goes \subseteq 1..Len(kind)
    <2>1. Range(folder) \subseteq 1..Len(kind)
      BY <1>4 DEF Range
    <2> QED BY <2>1
  <1>8. ASSUME expunges = 0, NEW m \in moved' PROVE filed[m] # {}
    <2>1. NumbersHold
      BY <1>8 DEF ImapInv
    <2>2. CASE m \in moved
      BY <2>1, <2>2 DEF NumbersHold
    <2>3. CASE m \in goes
      <3>1. PICK n \in processed : m = numbering[n]
        BY <2>3
      <3>2. n \in 1..Len(view)
        BY <1>4
      <3>3. m = view[n]
        BY <2>1, <3>1, <3>2 DEF NumbersHold
      <3> QED BY <2>1, <3>3 DEF NumbersHold
    <2> QED BY <1>2, <2>2, <2>3
  <1>9. moved' \subseteq 1..Len(kind)
    BY <1>2, <1>4, <1>7
  <1> QED BY <1>3, <1>4, <1>5, <1>6, <1>8, <1>9, SessionEndsKeeps

LEMMA ImapStep ==
    ASSUME Ledgers, ImapInv,
           ImapWorks \/ ImapEnters \/ OthersExpunge \/ ImapRestarts
    PROVE  ImapInv'
  <1> DEFINE Stays == UNCHANGED <<kind, taken, filed, folder, moved, expunges>>
  <1>1. ASSUME SessionEnds, Stays, seen \subseteq seen', seen' \subseteq 1..Len(kind)
        PROVE  ImapInv'
    <2>1. /\ folder' \in Seq(1..Len(kind)) /\ OneOfEach(folder') /\ moved' \subseteq 1..Len(kind)
          /\ expunges = 0 => \A m \in moved' : filed[m] # {}
      BY <1>1 DEF ImapInv, FolderShape, NumbersHold, OneOfEach
    <2> QED BY <1>1, <2>1, SessionEndsKeeps
  <1>2. /\ seen \subseteq 1..Len(kind)
        /\ {view[n] : n \in processed} \subseteq 1..Len(kind)
    BY DEF ImapInv, FolderShape
  <1>3. CASE ImapEnters
    BY <1>3, ImapEntersStep
  <1>4. CASE OthersExpunge
    BY <1>4, OthersExpungeStep
  <1>5. CASE ImapRestarts
    <2>1. SessionEnds /\ Stays /\ UNCHANGED seen
      BY <1>5 DEF ImapRestarts, Restarts
    <2> QED BY <1>1, <1>2, <2>1
  <1>6. CASE Search
    BY <1>6, SearchStep
  <1>7. CASE SendNext
    BY <1>7, SendNextStep
  <1>8. CASE Process
    BY <1>8, ProcessStep
  <1>9. CASE FetchDone
    <2>1. Stays /\ UNCHANGED seen
      BY <1>9 DEF FetchDone
    <2>2. CASE SessionEnds
      BY <1>1, <1>2, <2>1, <2>2
    <2>3. CASE pc' = "marking" /\ UNCHANGED <<inHand, view, sent, processed>>
      <3>1. FolderShape'
        BY <2>1, <2>3 DEF ImapInv, FolderShape, OneOfEach
      <3>2. AtMostOnce' /\ (expunges' = 0 => NumbersHold')
        BY <2>1, <2>3 DEF ImapInv, AtMostOnce, NumbersHold
      <3> QED BY <3>1, <3>2 DEF ImapInv
    <2> QED BY <1>9, <2>2, <2>3 DEF FetchDone
  <1>10. CASE MarkSeen
    <2>1. Stays /\ seen' = seen \cup {view[n] : n \in processed}
      BY <1>10 DEF MarkSeen
    <2>2. seen \subseteq seen' /\ seen' \subseteq 1..Len(kind)
      BY <1>2, <2>1
    <2>3. CASE SessionEnds
      BY <1>1, <2>1, <2>2, <2>3
    <2>4. CASE pc' = "moving" /\ UNCHANGED <<inHand, view, sent, processed>>
      <3>1. FolderShape'
        BY <2>1, <2>2, <2>4 DEF ImapInv, FolderShape, OneOfEach
      <3>2. AtMostOnce'
        BY <2>1, <2>2, <2>4 DEF ImapInv, AtMostOnce
      <3>3. expunges' = 0 => NumbersHold'
        BY <2>1, <2>4 DEF ImapInv, NumbersHold
      <3> QED BY <3>1, <3>2, <3>3 DEF ImapInv
    <2> QED BY <1>10, <2>3, <2>4 DEF MarkSeen
  <1>11. CASE MoveProcessed
    BY <1>11, MoveStep
  <1>12. CASE PollFails
    <2>1. SessionEnds /\ Stays /\ UNCHANGED seen
      BY <1>12 DEF PollFails
    <2> QED BY <1>1, <1>2, <2>1
  <1> QED BY <1>3, <1>4, <1>5, <1>6, <1>7, <1>8, <1>9, <1>10, <1>11, <1>12 DEF ImapWorks
-----------------------------------------------------------------------------
\* Each receiver's invariant holds of the receiver that is looked at.
ReceiverInv ==
    /\ Ledgers /\ DeltaInv
    /\ channel = "telegram" => TelegramInv
    /\ channel = "graph" => PollInv
    /\ channel = "imap" => ImapInv
    /\ channel # "imap" => moved = {}

TelegramActs == TelegramWorks \/ TelegramEnters \/ TelegramRestarts
GraphActs == GraphWorks \/ GraphEnters \/ GraphRestarts
ImapActs == ImapWorks \/ ImapEnters \/ OthersExpunge \/ ImapRestarts

\* Only the receiver that is looked at acts.
LEMMA WhoActs ==
    ASSUME Next
    PROVE  /\ UNCHANGED channel
           /\ \/ channel = "telegram" /\ TelegramActs /\ UNCHANGED <<graphVars, imapVars>>
              \/ channel = "graph" /\ GraphActs /\ UNCHANGED <<telegramVars, imapVars>>
              \/ channel = "imap" /\ ImapActs /\ UNCHANGED <<telegramVars, graphVars>>
  <1>1. ASSUME TelegramActs PROVE channel = "telegram" /\ UNCHANGED channel
    BY <1>1 DEF TelegramActs, TelegramWorks, GetUpdates, GetUpdatesFails, GetUpdatesTimesOut,
                HandleUpdate, TelegramEnters, Enters, TelegramRestarts, Restarts
  <1>2. ASSUME GraphActs PROVE channel = "graph" /\ UNCHANGED channel
    BY <1>2 DEF GraphActs, GraphWorks, FetchPage, FetchPageFails, SkipRemoved, HandleMessage,
                HandleMessageFails, PageDone, SaveState, GraphEnters, Enters, GraphRestarts, Restarts
  <1>3. ASSUME ImapActs PROVE channel = "imap" /\ UNCHANGED channel
    BY <1>3 DEF ImapActs, ImapWorks, Search, SendNext, Process, FetchDone, MarkSeen,
                MoveProcessed, PollFails, ImapEnters, Enters, OthersExpunge, intakeVars,
                ImapRestarts, Restarts
  <1> QED BY <1>1, <1>2, <1>3
             DEF Next, Works, Environment, TelegramActs, GraphActs, ImapActs

LEMMA LedgersStand ==
    ASSUME Ledgers, UNCHANGED <<channel, kind, taken, filed>>,
           trouble' \in {trouble, trouble + 1}, restarts' \in {restarts, restarts + 1}
    PROVE  Ledgers'
  BY DEF Ledgers, Kinds

LEMMA TelegramStep ==
    ASSUME Ledgers, TelegramInv, TelegramActs PROVE Ledgers' /\ TelegramInv'
  <1>1. CASE TelegramEnters
    BY <1>1, TelegramEntersStep, AfterEntering DEF TelegramEnters
  <1>2. CASE GetUpdates
    <2>1. Ledgers'
      BY <1>2, LedgersStand DEF GetUpdates
    <2> QED BY <1>2, <2>1, GetUpdatesStep
  <1>3. CASE GetUpdatesFails \/ GetUpdatesTimesOut
    <2>1. /\ confirmed' \in {confirmed, Confirmed(offset)} /\ trouble' \in {trouble, trouble + 1}
          /\ pc = "idle" /\ pc' \in {"idle", "stopped"}
          /\ UNCHANGED <<channel, kind, taken, filed, inHand, restarts, offset, binding>>
      BY <1>3 DEF GetUpdatesFails, GetUpdatesTimesOut, Trouble
    <2>2. /\ offset \in 0..Len(kind) + 1 /\ confirmed \in 0..Len(kind) + 1
          /\ inHand \in Seq(1..Len(kind))
          /\ \A i \in 1..Len(inHand) : inHand[i] = NextUpdate + i - 1
      BY DEF TelegramInv
    <2>3. NextUpdate' = NextUpdate /\ confirmed' \in 0..Len(kind) + 1
      BY <2>1, <2>2 DEF NextUpdate, Confirmed
    <2>4. TelegramInv'
      BY <2>1, <2>2, <2>3, SamePlace
    <2> QED BY <2>1, <2>4, LedgersStand
  <1>4. CASE HandleUpdate
    BY <1>4, HandleUpdateStep
  <1>5. CASE TelegramRestarts
    <2>1. Ledgers'
      BY <1>5, LedgersStand DEF TelegramRestarts, Restarts
    <2> QED BY <1>5, <2>1, TelegramRestartsStep
  <1> QED BY <1>1, <1>2, <1>3, <1>4, <1>5 DEF TelegramActs, TelegramWorks

LEMMA GraphLedgers ==
    ASSUME Ledgers, DeltaInv, PollInv, GraphActs, channel = "graph" PROVE Ledgers'
  <1>1. CASE GraphEnters
    BY <1>1, AfterEntering DEF GraphEnters
  <1>2. CASE HandleMessage \/ HandleMessageFails
    <2> PICK k : k = Head(inHand)
      OBVIOUS
    <2>1. /\ pc = "working" /\ inHand # <<>> /\ Takes(k)
          /\ Files(k, Home) \/ UNCHANGED filed
          /\ UNCHANGED <<channel, kind, restarts>> /\ trouble' \in {trouble, trouble + 1}
      BY <1>2 DEF HandleMessage, HandleMessageFails, Trouble
    <2>2. k \in 1..Len(kind)
      BY <2>1, HeadOfPage
    <2>3. trouble' \in Nat /\ restarts' \in Nat
      BY <2>1 DEF Ledgers
    <2> QED BY <2>1, <2>2, <2>3, HomeIsOrg, AfterTaking
  <1>3. CASE FetchPage \/ FetchPageFails \/ SkipRemoved \/ PageDone \/ SaveState \/ GraphRestarts
    BY <1>3, LedgersStand
       DEF FetchPage, FetchPageFails, SkipRemoved, PageDone, SaveState, GraphRestarts, Restarts, Trouble
  <1> QED BY <1>1, <1>2, <1>3 DEF GraphActs, GraphWorks

LEMMA ImapLedgers ==
    ASSUME Ledgers, ImapInv, ImapActs PROVE Ledgers'
  <1>1. CASE ImapEnters
    BY <1>1, AfterEntering DEF ImapEnters
  <1>2. CASE Process
    BY <1>2, ProcessStep
  <1>3. CASE OthersExpunge \/ ImapRestarts \/ Search \/ SendNext \/ FetchDone \/ MarkSeen
             \/ MoveProcessed \/ PollFails
    <2>1. /\ UNCHANGED <<channel, kind, taken, filed>>
          /\ trouble' \in {trouble, trouble + 1} /\ restarts' \in {restarts, restarts + 1}
      BY <1>3 DEF OthersExpunge, ImapRestarts, Restarts, Search, SendNext, FetchDone, MarkSeen,
                  MoveProcessed, PollFails, Trouble, intakeVars
    <2> QED BY <2>1, LedgersStand
  <1> QED BY <1>1, <1>2, <1>3 DEF ImapActs, ImapWorks

LEMMA ReceiverInit == Init => ReceiverInv
  <1> SUFFICES ASSUME Init PROVE ReceiverInv
    OBVIOUS
  <1> USE DEF Init, IntakeInit, TelegramInit, GraphInit, ImapInit
  <1>1. DeltaInv
    BY DeltaInit
  <1>2. Ledgers
    BY DEF Ledgers
  <1>3. TelegramInv
    BY DEF TelegramInv
  <1>4. channel = "graph" => PollInv
    BY DEF PollInv, Place
  <1>5. ImapInv
    BY DEF ImapInv, FolderShape, AtMostOnce, NumbersHold, OneOfEach
  <1>6. moved = {}
    OBVIOUS
  <1> QED BY <1>1, <1>2, <1>3, <1>4, <1>5, <1>6 DEF ReceiverInv

LEMMA ReceiverStep == ReceiverInv /\ [Next]_vars => ReceiverInv'
  <1> SUFFICES ASSUME ReceiverInv, [Next]_vars PROVE ReceiverInv'
    OBVIOUS
  <1>1. DeltaInv'
    BY DeltaStep DEF ReceiverInv
  <1>2. CASE UNCHANGED vars
    <2>1. UNCHANGED <<intakeVars, telegramVars, graphVars, imapVars>>
      BY <1>2 DEF vars
    <2>2. Ledgers' = Ledgers /\ TelegramInv' = TelegramInv
      BY <2>1 DEF intakeVars, telegramVars, Ledgers, Kinds, TelegramInv, NextUpdate, Confirmed, Names
    <2>3. PollInv' = PollInv
      BY <2>1 DEF intakeVars, graphVars, PollInv, Place, BadFrom
    <2>4. ImapInv' = ImapInv /\ UNCHANGED <<channel, moved>>
      BY <2>1 DEF intakeVars, imapVars, ImapInv, FolderShape, AtMostOnce, NumbersHold, OneOfEach
    <2> QED BY <1>1, <2>2, <2>3, <2>4 DEF ReceiverInv
  <1>3. CASE Next
    <2>1. UNCHANGED channel
      BY <1>3, WhoActs
    <2>2. CASE channel = "telegram"
      <3>1. TelegramActs /\ UNCHANGED moved
        BY <1>3, <2>2, WhoActs DEF imapVars
      <3>2. Ledgers' /\ TelegramInv'
        BY <2>2, <3>1, TelegramStep DEF ReceiverInv
      <3> QED BY <1>1, <2>1, <2>2, <3>1, <3>2 DEF ReceiverInv
    <2>3. CASE channel = "graph"
      <3>1. GraphActs /\ UNCHANGED moved
        BY <1>3, <2>3, WhoActs DEF imapVars
      <3>2. Ledgers'
        BY <2>3, <3>1, GraphLedgers DEF ReceiverInv
      <3>3. PollInv'
        BY <1>1, <2>3, <3>1, <3>2, PollStep DEF ReceiverInv, GraphActs
      <3> QED BY <1>1, <2>1, <2>3, <3>1, <3>2, <3>3 DEF ReceiverInv
    <2>4. CASE channel = "imap"
      <3>1. ImapActs
        BY <1>3, <2>4, WhoActs
      <3>2. Ledgers'
        BY <2>4, <3>1, ImapLedgers DEF ReceiverInv
      <3>3. ImapInv'
        BY <2>4, <3>1, ImapStep DEF ReceiverInv, ImapActs
      <3> QED BY <1>1, <2>1, <2>4, <3>1, <3>2, <3>3 DEF ReceiverInv
    <2> QED BY <2>2, <2>3, <2>4 DEF ReceiverInv, Ledgers
  <1> QED BY <1>2, <1>3

-----------------------------------------------------------------------------
\* A chat's mail is analysed for the organisation its last "/start" before it
\* named, whatever fails and however often updates are delivered again.
THEOREM ChatsKeepTheirOrganisation == Spec => []AnalysedForItsChat
  <1>1. Spec => []ReceiverInv
    BY ReceiverInit, ReceiverStep, PTL DEF Spec
  <1>2. ReceiverInv => AnalysedForItsChat
    <2> SUFFICES ASSUME ReceiverInv, channel = "telegram",
                        NEW m \in 1..Len(kind), NEW org \in Orgs, org \in filed[m]
                 PROVE  \E s \in Starts(m) : kind[s] = org /\ \A t \in Starts(m) : t <= s
      BY DEF AnalysedForItsChat, Messages, ReceiverInv, Ledgers
    <2>1. Names(m, org)
      BY DEF ReceiverInv, TelegramInv
    <2> QED BY <2>1 DEF Names, Starts
  <1> QED BY <1>1, <1>2, PTL

\* Whatever the source: a message is taken up again only after a failure or
\* a restart, one repetition for each, or while Graph's page is held up by
\* mail that cannot be read.
THEOREM RepetitionsHaveCauses == Spec => []RepetitionHasACause
  <1>1. Spec => []ReceiverInv
    BY ReceiverInit, ReceiverStep, PTL DEF Spec
  <1>2. ReceiverInv => RepetitionHasACause
    <2> SUFFICES ASSUME ReceiverInv, NEW m \in 1..Len(kind)
                 PROVE  \/ taken[m] <= 1 + trouble + restarts
                        \/ channel = "graph" /\ \E k \in m..Len(kind) : kind[k] = "bad"
      <3>1. ReceiverInv => Messages = 1..Len(kind)
        BY DEF Messages, ReceiverInv, Ledgers
      <3> QED BY <3>1 DEF RepetitionHasACause
    <2>1. taken[m] \in Nat /\ trouble \in Nat /\ restarts \in Nat
      BY DEF ReceiverInv, Ledgers
    <2>2. CASE channel = "telegram"
      <3>1. taken[m] <= 1 + restarts
        <4>1. /\ m < NextUpdate => taken[m] <= 1 + restarts
              /\ m >= NextUpdate => taken[m] <= restarts
          BY <2>2 DEF ReceiverInv, TelegramInv
        <4>2. NextUpdate \in Nat /\ m \in Nat
          BY <2>2, NextUpdateBounds DEF ReceiverInv
        <4> QED BY <2>1, <4>1, <4>2
      <3> QED BY <2>1, <3>1
    <2>3. CASE channel = "graph"
      <3>1. \/ BadFrom(m) \/ taken[m] <= trouble + restarts
            \/ taken[m] <= 1 + trouble + restarts
        BY <2>3 DEF ReceiverInv, PollInv
      <3> QED BY <2>1, <2>3, <3>1 DEF BadFrom
    <2>4. CASE channel = "imap"
      <3>1. taken[m] <= 1
        BY <2>4 DEF ReceiverInv, ImapInv, AtMostOnce
      <3> QED BY <2>1, <3>1
    <2> QED BY <2>2, <2>3, <2>4 DEF ReceiverInv, Ledgers
  <1> QED BY <1>1, <1>2, PTL

\* While nobody else removes messages, what is moved has a verdict: the
\* session's numbers then mean what they meant when the folder was selected.
THEOREM OnlyAnalysedMailIsMoved == Spec => []MovedWasAnalysed
  <1>1. Spec => []ReceiverInv
    BY ReceiverInit, ReceiverStep, PTL DEF Spec
  <1>2. ReceiverInv => MovedWasAnalysed
    <2> SUFFICES ASSUME ReceiverInv, NEW m \in moved, expunges = 0 PROVE filed[m] # {}
      <3>1. ReceiverInv => moved = {} \/ expunges \in Nat
        BY DEF ReceiverInv, ImapInv, FolderShape
      <3> QED BY <3>1 DEF MovedWasAnalysed
    <2> QED BY DEF ReceiverInv, ImapInv, NumbersHold
  <1> QED BY <1>1, <1>2, PTL
-----------------------------------------------------------------------------
\* What was acknowledged stays, and what is acknowledged now was taken up.
LEMMA AcknowledgeStep ==
    ASSUME Ledgers, UNCHANGED <<channel, taken>>,
           Acknowledged \subseteq Acknowledged', Acknowledged' \subseteq 1..Len(taken),
           channel # "imap" => \A m \in Acknowledged' : taken[m] > 0
    PROVE  Mail!Next
  <1>1. Mail!Acknowledge(Acknowledged')
    BY DEF Mail!Acknowledge
  <1>2. Acknowledged' \in SUBSET Mail!Messages
    BY DEF Mail!Messages, Ledgers
  <1> QED BY <1>1, <1>2 DEF Mail!Next

LEMMA ArriveStep ==
    ASSUME UNCHANGED channel, Enters, UNCHANGED Acknowledged PROVE Mail!Next
  BY DEF Enters, Mail!Next, Mail!Arrive

LEMMA TakeStep ==
    ASSUME Ledgers, UNCHANGED channel, NEW m \in 1..Len(kind), Takes(m),
           UNCHANGED Acknowledged,
           IF channel = "imap" THEN m \in Acknowledged /\ taken[m] = 0 ELSE m \notin Acknowledged
    PROVE  Mail!Next
  <1>1. Mail!Handle(m)
    BY DEF Takes, Mail!Handle, Mail!Again
  <1>2. m \in Mail!Messages
    BY DEF Mail!Messages, Ledgers
  <1> QED BY <1>1, <1>2 DEF Mail!Next

LEMMA TelegramRefines ==
    ASSUME ReceiverInv, channel = "telegram", UNCHANGED channel, TelegramActs
    PROVE  [Mail!Next]_(Mail!vars)
  <1>1. Ledgers /\ TelegramInv /\ channel' = "telegram"
    BY DEF ReceiverInv
  <1>2. /\ kind \in Seq(Kinds) /\ Len(kind) \in Nat /\ Len(taken) = Len(kind)
    BY <1>1 DEF Ledgers
  <1>3. /\ Acknowledged = {m \in 1..Len(kind) : m < confirmed}
        /\ Acknowledged' = {m \in DOMAIN kind' : m < confirmed'}
    BY <1>1, <1>2 DEF Acknowledged, Messages
  <1>4. /\ confirmed \in 0..Len(kind) + 1 /\ offset \in 0..Len(kind) + 1
        /\ NextUpdate \in 1..Len(kind) + 1 /\ offset <= NextUpdate /\ confirmed <= NextUpdate
    BY <1>1, NextUpdateBounds DEF TelegramInv
  <1>5. CASE TelegramEnters
    <2>1. Enters /\ UNCHANGED confirmed
      BY <1>5 DEF TelegramEnters, telegramVars
    <2>2. DOMAIN kind' = 1..Len(kind) + 1
      <3>1. kind' \in Seq(Kinds') /\ Len(kind') = Len(kind) + 1
        BY <1>1, <2>1, AfterEntering DEF Ledgers
      <3> QED BY <1>2, <3>1
    <2>3. Acknowledged' = Acknowledged
      BY <1>2, <1>3, <1>4, <2>1, <2>2
    <2> QED BY <2>1, <2>3, ArriveStep
  <1>6. CASE GetUpdates \/ GetUpdatesFails \/ GetUpdatesTimesOut
    <2>1. /\ confirmed' \in {confirmed, Confirmed(offset)} /\ UNCHANGED <<kind, taken>>
      BY <1>6 DEF GetUpdates, GetUpdatesFails, GetUpdatesTimesOut
    <2>2. confirmed <= confirmed' /\ confirmed' <= NextUpdate /\ confirmed' \in Nat
      BY <1>4, <2>1 DEF Confirmed, NextUpdate
    <2>3. Acknowledged \subseteq Acknowledged' /\ Acknowledged' \subseteq 1..Len(taken)
      BY <1>2, <1>3, <1>4, <2>1, <2>2
    <2>4. \A m \in Acknowledged' : taken[m] > 0
      <3>1. \A m \in 1..Len(kind) : m < NextUpdate => taken[m] > 0
        BY <1>1 DEF TelegramInv
      <3> QED BY <1>2, <1>3, <1>4, <2>1, <2>2, <3>1
    <2> QED BY <1>1, <2>1, <2>3, <2>4, AcknowledgeStep
  <1>7. CASE HandleUpdate
    <2> PICK u : u = Head(inHand)
      OBVIOUS
    <2>1. pc = "working" /\ Takes(u) /\ UNCHANGED <<kind, confirmed>>
      BY <1>7 DEF HandleUpdate
    <2>2. u = NextUpdate /\ u \in 1..Len(kind)
      <3>1. /\ inHand # <<>> /\ inHand \in Seq(1..Len(kind))
            /\ \A i \in 1..Len(inHand) : inHand[i] = NextUpdate + i - 1
        BY <1>1, <2>1 DEF TelegramInv
      <3>2. u = inHand[1] /\ 1 \in 1..Len(inHand)
        BY <3>1
      <3> QED BY <1>4, <3>1, <3>2
    <2>3. u \notin Acknowledged /\ UNCHANGED Acknowledged
      BY <1>2, <1>3, <1>4, <2>1, <2>2
    <2> QED BY <1>1, <2>1, <2>2, <2>3, TakeStep
  <1>8. CASE TelegramRestarts
    <2>1. UNCHANGED <<kind, taken, confirmed>>
      BY <1>8 DEF TelegramRestarts, Restarts
    <2>2. UNCHANGED Acknowledged
      BY <1>2, <1>3, <2>1
    <2> QED BY <2>1, <2>2 DEF Mail!vars
  <1> QED BY <1>5, <1>6, <1>7, <1>8 DEF TelegramActs, TelegramWorks

LEMMA GraphRefines ==
    ASSUME ReceiverInv, ReceiverInv', channel = "graph", UNCHANGED channel, GraphActs
    PROVE  [Mail!Next]_(Mail!vars)
  <1>1. Ledgers /\ DeltaInv /\ PollInv /\ channel' = "graph" /\ Ledgers' /\ DeltaInv'
    BY DEF ReceiverInv
  <1>2. /\ Len(kind) \in Nat /\ Len(taken) = Len(kind) /\ kind \in Seq(Kinds)
        /\ link \in 0..Len(kind) /\ saved \in 0..Len(kind) /\ page.to \in 0..Len(kind)
        /\ link <= Place
    BY <1>1, PollBounds DEF Ledgers, PollInv
  <1>3. /\ Acknowledged = {m \in 1..Len(kind) : m <= saved /\ m <= link /\ kind[m] # "gone"}
        /\ Acknowledged' = {m \in DOMAIN kind' : m <= saved' /\ m <= link' /\ kind'[m] # "gone"}
    BY <1>1, <1>2 DEF Acknowledged, Messages
  <1>4. ASSUME UNCHANGED <<kind, taken, filed>>, NEW m \in Acknowledged' PROVE taken[m] > 0
    <2>1. m \in 1..Len(kind) /\ m <= link' /\ kind[m] # "gone"
      BY <1>2, <1>3, <1>4
    <2>2. link' \in Nat
      BY <1>1 DEF DeltaInv, GraphShape
    <2>3. m \in 1..link'
      BY <1>2, <2>1, <2>2
    <2>4. Done(m)'
      BY <1>1, <2>3 DEF DeltaInv, NothingSkipped
    <2> QED BY <1>1, <1>4, <2>1, <2>4 DEF Done, Ledgers
  <1>5. CASE GraphEnters
    <2>1. Enters /\ UNCHANGED <<link, saved>>
      BY <1>5 DEF GraphEnters, graphVars
    <2>2. /\ Len(kind') = Len(kind) + 1 /\ kind' \in Seq(Kinds')
          /\ \A k \in 1..Len(kind) : kind'[k] = kind[k]
      BY <1>1, <2>1, AfterEntering DEF Ledgers
    <2>3. DOMAIN kind' = 1..Len(kind) + 1
      BY <1>2, <2>2
    <2>4. Acknowledged' = Acknowledged
      BY <1>2, <1>3, <2>1, <2>2, <2>3
    <2> QED BY <2>1, <2>4, ArriveStep
  <1>6. CASE HandleMessage \/ HandleMessageFails
    <2> PICK k : k = Head(inHand)
      OBVIOUS
    <2>1. /\ pc = "working" /\ inHand # <<>> /\ Takes(k) /\ UNCHANGED <<kind, link, saved>>
      BY <1>6 DEF HandleMessage, HandleMessageFails
    <2>2. k = Place + 1 /\ k \in 1..Len(kind) /\ Place \in Nat
      BY <1>1, <2>1, HeadOfPage
    <2>3. k \notin Acknowledged /\ UNCHANGED Acknowledged
      BY <1>2, <1>3, <2>1, <2>2
    <2> QED BY <1>1, <2>1, <2>2, <2>3, TakeStep
  <1>7. CASE PageDone
    <2>1. /\ link' \in {link, page.to} /\ inHand = <<>> /\ pc = "working"
          /\ UNCHANGED <<kind, taken, filed, saved>>
      BY <1>7 DEF PageDone
    <2>2. link <= link' /\ link' \in Nat
      BY <1>2, <2>1 DEF Place
    <2>3. Acknowledged \subseteq Acknowledged' /\ Acknowledged' \subseteq 1..Len(taken)
      BY <1>2, <1>3, <2>1, <2>2
    <2> QED BY <1>1, <1>4, <2>1, <2>3, AcknowledgeStep
  <1>8. CASE SaveState
    <2>1. saved' \in {saved, link} /\ UNCHANGED <<kind, taken, filed, link>>
      BY <1>8 DEF SaveState
    <2>2. Acknowledged \subseteq Acknowledged' /\ Acknowledged' \subseteq 1..Len(taken)
      BY <1>2, <1>3, <2>1
    <2> QED BY <1>1, <1>4, <2>1, <2>2, AcknowledgeStep
  <1>9. CASE GraphRestarts
    <2>1. link' \in {saved, 0} /\ UNCHANGED <<kind, taken, filed, saved>>
      BY <1>9 DEF GraphRestarts, Restarts
    <2>2. CASE link' = saved
      <3>1. Acknowledged \subseteq Acknowledged' /\ Acknowledged' \subseteq 1..Len(taken)
        BY <1>2, <1>3, <2>1, <2>2
      <3> QED BY <1>1, <1>4, <2>1, <3>1, AcknowledgeStep
    <2>3. CASE link' = 0
      <3>1. Acknowledged' = {}
        BY <1>2, <1>3, <2>1, <2>3
      <3> QED BY <1>1, <2>1, <3>1 DEF Mail!Next, Mail!Forget
    <2> QED BY <2>1, <2>2, <2>3
  <1>10. CASE FetchPage \/ FetchPageFails \/ SkipRemoved
    <2>1. UNCHANGED <<kind, taken, link, saved>>
      BY <1>10 DEF FetchPage, FetchPageFails, SkipRemoved, graphVars
    <2>2. UNCHANGED Acknowledged
      BY <1>2, <1>3, <2>1
    <2> QED BY <2>1, <2>2 DEF Mail!vars
  <1> QED BY <1>5, <1>6, <1>7, <1>8, <1>9, <1>10 DEF GraphActs, GraphWorks

LEMMA ImapRefines ==
    ASSUME ReceiverInv, ReceiverInv', channel = "imap", UNCHANGED channel, ImapActs
    PROVE  [Mail!Next]_(Mail!vars)
  <1>1. Ledgers /\ ImapInv /\ channel' = "imap" /\ ImapInv'
    BY DEF ReceiverInv
  <1>2. Acknowledged = seen /\ Acknowledged' = seen'
    BY <1>1 DEF Acknowledged
  <1>3. CASE ImapEnters
    <2>1. Enters /\ UNCHANGED seen
      BY <1>3 DEF ImapEnters
    <2> QED BY <1>2, <2>1, ArriveStep
  <1>4. CASE Process
    <2> PICK m : m = view[Head(inHand)]
      OBVIOUS
    <2>1. sent > 0 /\ Takes(m) /\ UNCHANGED seen
      BY <1>4 DEF Process
    <2>2. /\ inHand \in Seq(1..Len(view)) /\ view \in Seq(1..Len(kind)) /\ sent \in 0..Len(inHand)
      BY <1>1 DEF ImapInv, FolderShape
    <2>3. /\ Head(inHand) = inHand[1] /\ 1 \in 1..Len(inHand) /\ 1 \in 1..sent
          /\ inHand[1] \in 1..Len(view)
      <3>1. 1 \in 1..Len(inHand) /\ 1 \in 1..sent
        BY <2>1, <2>2
      <3>2. inHand[1] \in 1..Len(view)
        BY <2>2, <3>1, Element, Zenon
      <3> QED BY <3>1, <3>2
    <2>4. m \in 1..Len(kind)
      BY <2>2, <2>3, Element, Zenon
    <2>5. taken[m] = 0 /\ m \in seen
      BY <1>1, <2>3 DEF ImapInv, AtMostOnce
    <2> QED BY <1>1, <1>2, <2>1, <2>4, <2>5, TakeStep
  <1>5. CASE SendNext \/ MarkSeen
    <2>1. seen \subseteq seen' /\ UNCHANGED <<kind, taken>>
      BY <1>5 DEF SendNext, MarkSeen, intakeVars
    <2>2. seen' \subseteq 1..Len(kind)
      BY <1>1, <2>1 DEF ImapInv, FolderShape
    <2>3. Len(taken) = Len(kind)
      BY <1>1 DEF Ledgers
    <2> QED BY <1>1, <1>2, <2>1, <2>2, <2>3, AcknowledgeStep
  <1>6. CASE OthersExpunge \/ ImapRestarts \/ Search \/ FetchDone \/ MoveProcessed \/ PollFails
    <2>1. UNCHANGED <<taken, seen>>
      BY <1>6 DEF OthersExpunge, ImapRestarts, Restarts, Search, FetchDone, MoveProcessed,
                  PollFails, intakeVars
    <2> QED BY <1>2, <2>1 DEF Mail!vars
  <1> QED BY <1>3, <1>4, <1>5, <1>6 DEF ImapActs, ImapWorks

\* The receivers implement the mailbox: telegram and Graph acknowledge what
\* they handled and never handle it again, and over IMAP nothing is handled
\* twice.
THEOREM ReceiversImplementTheMailbox == Spec => ImplementsMailbox
  <1>1. Spec => []ReceiverInv
    BY ReceiverInit, ReceiverStep, PTL DEF Spec
  <1>2. Init => Mail!Init
    <2> SUFFICES ASSUME Init PROVE Mail!Init
      OBVIOUS
    <2>1. taken = <<>> /\ kind = <<>> /\ seen = {} /\ channel \in {"telegram", "graph", "imap"}
      BY DEF Init, IntakeInit, ImapInit
    <2>2. Acknowledged = {}
      BY <2>1 DEF Acknowledged, Messages
    <2> QED BY <2>1, <2>2 DEF Mail!Init
  <1>3. ReceiverInv /\ ReceiverInv' /\ [Next]_vars => [Mail!Next]_(Mail!vars)
    <2> SUFFICES ASSUME ReceiverInv, ReceiverInv', [Next]_vars PROVE [Mail!Next]_(Mail!vars)
      OBVIOUS
    <2>1. CASE UNCHANGED vars
      <3>1. UNCHANGED <<intakeVars, telegramVars, graphVars, imapVars>>
        BY <2>1 DEF vars
      <3>2. UNCHANGED <<channel, kind, taken, confirmed, saved, link, seen>>
        BY <3>1 DEF intakeVars, telegramVars, graphVars, imapVars
      <3> QED BY <3>2 DEF Mail!vars, Acknowledged, Messages
    <2>2. CASE Next
      <3>1. UNCHANGED channel
        BY <2>2, WhoActs
      <3>2. CASE channel = "telegram" /\ TelegramActs
        BY <3>1, <3>2, TelegramRefines
      <3>3. CASE channel = "graph" /\ GraphActs
        BY <3>1, <3>3, GraphRefines
      <3>4. CASE channel = "imap" /\ ImapActs
        BY <3>1, <3>4, ImapRefines
      <3> QED BY <2>2, <3>2, <3>3, <3>4, WhoActs
    <2> QED BY <2>1, <2>2
  <1> QED BY <1>1, <1>2, <1>3, PTL DEF Spec, Mail!Spec, ImplementsMailbox
=============================================================================
