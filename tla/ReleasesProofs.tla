----------------------------- MODULE ReleasesProofs -----------------------------
(* Theorems about Catalog's release lists: for every distro, set of pages, and  *)
(* every pair of periods.                                                       *)
EXTENDS NetbootProofs, WellFoundedInduction

CacheRows == [until: 0..(MaxClock + Ttl), answer: Answers, at: 0..MaxClock]

\* A lookup started no later than the mirror answered it.
LookupsAreInTime ==
    \A p \in Pages, c \in Caches :
        /\ page[p][c].pc = "ask" => page[p][c].now <= clock
        /\ page[p][c].pc = "store" => page[p][c].now <= page[p][c].at

Fresh(row) == row.until # 0 =>
                  row.until <= row.at + (IF row.answer.known THEN Ttl ELSE Retry)

ReleasesInv == ReleasesTypeOK /\ AnswersAreRecent /\ LookupsAreInTime
--------------------------------------------------------------------------------
(* What the steps put together. *)

LEMMA CachesAreFresh == AnswersAreRecent <=> Fresh(discovery) /\ Fresh(prereleases)
  BY DEF AnswersAreRecent, Fresh, Caches, Cache

LEMMA NoAnswerYet == /\ Unanswered \in Answers /\ IdleLookup \in Lookups
                     /\ NoCache \in CacheRows /\ Fresh(NoCache) /\ IdleLookup.pc = "idle"
  BY ReleasesAssumption
     DEF Unanswered, Answers, IdleLookup, Lookups, NoCache, CacheRows, Fresh

LEMMA AnswersAreTyped ==
    ASSUME ReleasesTypeOK, NEW c \in Caches
    PROVE  Cache(c) \in CacheRows /\ ReadNow(c) \in Answers
  <1>1. Cache(c) \in CacheRows
    BY DEF ReleasesTypeOK, Cache, CacheRows
  <1>2. Testing \subseteq Numbers /\ Out \subseteq Numbers /\ Carried \subseteq Numbers
    BY DEF Testing, Out, Carried
  <1>3. ReadNow(c) \in Answers
    BY <1>2 DEF ReadNow, Answers
  <1> QED
    BY <1>1, <1>3

\* A lookup that ended, as the page keeps it.
LEMMA DoneIsTyped ==
    ASSUME NEW c, NEW now \in 0..MaxClock, NEW answer \in Answers
    PROVE  Done(c, now, answer) \in Lookups /\ Done(c, now, answer).pc = "done"
  BY ReleasesAssumption DEF Done, Lookups

LEMMA LookUpIsTyped ==
    ASSUME ReleasesTypeOK, NEW c \in Caches
    PROVE  /\ LookUp(c) \in Lookups /\ LookUp(c).pc # "store"
           /\ LookUp(c).pc = "ask" => LookUp(c).now = clock
  <1>1. clock \in 0..MaxClock /\ Cache(c).answer \in Answers
    BY AnswersAreTyped DEF ReleasesTypeOK, CacheRows
  <1>2. CASE Cache(c).until > clock
    BY <1>1, <1>2, DoneIsTyped DEF LookUp
  <1>3. CASE ~(Cache(c).until > clock)
    <2>1. LookUp(c) = [pc |-> "ask", now |-> clock, answer |-> Unanswered, at |-> 0]
      BY <1>3 DEF LookUp, IdleLookup
    <2>2. 0 \in 0..MaxClock
      BY ReleasesAssumption
    <2> QED
      BY <1>1, <2>1, <2>2, NoAnswerYet DEF Lookups
  <1> QED
    BY <1>2, <1>3
--------------------------------------------------------------------------------
(* Every step keeps the invariant. *)

LEMMA NothingIsCached == ReleasesInit => ReleasesInv
  <1> SUFFICES ASSUME ReleasesInit PROVE ReleasesInv
      OBVIOUS
  <1>1. page \in [Pages -> [Caches -> Lookups]] /\ \A p \in Pages, c \in Caches : page[p][c] = IdleLookup
    BY NoAnswerYet DEF ReleasesInit
  <1>2. discovery \in CacheRows /\ prereleases \in CacheRows /\ AnswersAreRecent
    BY NoAnswerYet, CachesAreFresh DEF ReleasesInit
  <1>3. /\ clock \in 0..MaxClock /\ pages \in 0..MaxPages /\ checks \in 0..MaxChecks
        /\ since \in [Numbers -> 0..MaxClock] /\ stage \in [Numbers -> Stages]
    BY ReleasesAssumption DEF ReleasesInit, Stages
  <1>4. LookupsAreInTime
    BY <1>1, NoAnswerYet DEF LookupsAreInTime
  <1> QED
    BY <1>1, <1>2, <1>3, <1>4 DEF ReleasesInv, ReleasesTypeOK, CacheRows

LEMMA AdvanceIsSound ==
    ASSUME ReleasesInv, NEW v \in Numbers, Advance(v) PROVE ReleasesInv'
  <1>1. UNCHANGED << clock, discovery, prereleases, page, pages, checks >>
    BY DEF Advance, web
  <1>2. stage' \in [Numbers -> Stages] /\ since' \in [Numbers -> 0..MaxClock]
    BY ReleasesAssumption DEF Advance, ReleasesInv, ReleasesTypeOK, Stages
  <1>3. ReleasesTypeOK'
    BY <1>1, <1>2 DEF ReleasesInv, ReleasesTypeOK
  <1>4. AnswersAreRecent' /\ LookupsAreInTime'
    BY <1>1 DEF ReleasesInv, AnswersAreRecent, LookupsAreInTime, Cache
  <1> QED
    BY <1>3, <1>4 DEF ReleasesInv

LEMMA TickIsSound == ASSUME ReleasesInv, Tick PROVE ReleasesInv'
  <1>1. UNCHANGED << stage, since, discovery, prereleases, page, pages, checks >>
    BY DEF Tick, web
  <1>2. clock \in 0..MaxClock /\ clock' \in 0..MaxClock /\ clock <= clock'
    BY ReleasesAssumption DEF Tick, ReleasesInv, ReleasesTypeOK
  <1>3. ReleasesTypeOK'
    BY <1>1, <1>2 DEF ReleasesInv, ReleasesTypeOK
  <1>4. AnswersAreRecent'
    BY <1>1 DEF ReleasesInv, AnswersAreRecent, Cache
  <1>5. \A p \in Pages, c \in Caches : page[p][c].now \in 0..MaxClock
    BY DEF ReleasesInv, ReleasesTypeOK, Lookups
  <1>6. LookupsAreInTime'
    BY <1>1, <1>2, <1>5, ReleasesAssumption DEF ReleasesInv, LookupsAreInTime
  <1> QED
    BY <1>3, <1>4, <1>6 DEF ReleasesInv

\* Pages change where they take a slot, and only by what a lookup starts with.
LEMMA PageIsTaken ==
    ASSUME ReleasesInv, NEW p \in Pages, NEW new \in [Caches -> Lookups],
           page' = [page EXCEPT ![p] = new], UNCHANGED << world, discovery, prereleases >>,
           pages' \in 0..MaxPages, checks' \in 0..MaxChecks,
           \A c \in Caches : /\ new[c].pc # "store"
                             /\ new[c].pc = "ask" => new[c].now = clock
    PROVE  ReleasesInv'
  <1>1. ReleasesTypeOK'
    BY DEF ReleasesInv, ReleasesTypeOK, world
  <1>2. AnswersAreRecent'
    BY DEF ReleasesInv, AnswersAreRecent, Cache
  <1>3. clock' = clock /\ clock \in Nat
    BY DEF world, ReleasesInv, ReleasesTypeOK
  <1>4. ASSUME NEW q \in Pages, NEW c \in Caches
        PROVE  /\ page'[q][c].pc = "ask" => page'[q][c].now <= clock
               /\ page'[q][c].pc = "store" => page'[q][c].now <= page'[q][c].at
    <2>1. CASE q = p
      <3>1. page'[q] = new
        BY <2>1 DEF ReleasesInv, ReleasesTypeOK
      <3> QED
        BY <3>1, <1>3
    <2>2. CASE q # p
      <3>1. page'[q] = page[q]
        BY <2>2 DEF ReleasesInv, ReleasesTypeOK
      <3> QED
        BY <3>1 DEF ReleasesInv, LookupsAreInTime
    <2> QED
      BY <2>1, <2>2
  <1>5. LookupsAreInTime'
    BY <1>3, <1>4 DEF LookupsAreInTime
  <1> QED
    BY <1>1, <1>2, <1>5 DEF ReleasesInv

LEMMA OpenIsSound == ASSUME ReleasesInv, NEW p \in Pages, Open(p) PROVE ReleasesInv'
  <1> DEFINE new == [c \in Caches |-> LookUp(c)]
  <1>1. /\ page' = [page EXCEPT ![p] = new]
        /\ UNCHANGED << world, discovery, prereleases >>
        /\ pages' \in 0..MaxPages /\ checks' \in 0..MaxChecks
    BY ReleasesAssumption DEF Open, ReleasesInv, ReleasesTypeOK
  <1>2. /\ new \in [Caches -> Lookups]
        /\ \A c \in Caches : /\ new[c].pc # "store"
                             /\ new[c].pc = "ask" => new[c].now = clock
    BY LookUpIsTyped DEF ReleasesInv
  <1> HIDE DEF new
  <1> QED
    BY <1>1, <1>2, PageIsTaken

LEMMA CheckIsSound == ASSUME ReleasesInv, NEW p \in Pages, Check(p) PROVE ReleasesInv'
  <1> DEFINE first == LookUp("discovery")
             new   == [discovery |-> first, prereleases |-> IdleLookup]
  <1>1. /\ page' = [page EXCEPT ![p] = new]
        /\ UNCHANGED << world, discovery, prereleases >>
        /\ pages' \in 0..MaxPages /\ checks' \in 0..MaxChecks
    BY ReleasesAssumption DEF Check, ReleasesInv, ReleasesTypeOK
  <1>2. first \in Lookups /\ first.pc # "store" /\ (first.pc = "ask" => first.now = clock)
    BY LookUpIsTyped DEF ReleasesInv, Caches
  <1> HIDE DEF first
  <1>3. new \in [Caches -> Lookups]
    BY <1>2, NoAnswerYet DEF Caches
  <1>4. \A c \in Caches : new[c] = first \/ new[c] = IdleLookup
    BY DEF Caches
  <1>5. \A c \in Caches : /\ new[c].pc # "store"
                          /\ new[c].pc = "ask" => new[c].now = clock
    BY <1>2, <1>4, NoAnswerYet
  <1> HIDE DEF new
  <1> QED
    BY <1>1, <1>3, <1>5, PageIsTaken

\* One lookup of one page goes on.
LEMMA OneLookup ==
    ASSUME ReleasesInv, NEW p \in Pages, NEW c \in Caches, NEW l \in Lookups,
           page' = [page EXCEPT ![p][c] = l], UNCHANGED << world, pages, checks >>,
           l.pc = "store" => l.now <= l.at, l.pc # "ask"
    PROVE  /\ page' \in [Pages -> [Caches -> Lookups]]
           /\ LookupsAreInTime'
  <1>1. page' \in [Pages -> [Caches -> Lookups]]
    BY DEF ReleasesInv, ReleasesTypeOK
  <1>2. ASSUME NEW q \in Pages, NEW d \in Caches
        PROVE  page'[q][d] = l \/ page'[q][d] = page[q][d]
    BY DEF ReleasesInv, ReleasesTypeOK
  <1>3. clock' = clock
    BY DEF world
  <1>4. LookupsAreInTime'
    BY <1>2, <1>3 DEF ReleasesInv, LookupsAreInTime
  <1> QED
    BY <1>1, <1>4

LEMMA AskMirrorIsSound ==
    ASSUME ReleasesInv, NEW p \in Pages, NEW c \in Caches, AskMirror(p, c)
    PROVE  ReleasesInv'
  <1>1. PICK answer \in {Unanswered, ReadNow(c)} :
            page' = [page EXCEPT ![p][c].pc = "store", ![p][c].answer = answer,
                                 ![p][c].at = clock]
    BY DEF AskMirror
  <1>2. answer \in Answers
    BY <1>1, NoAnswerYet, AnswersAreTyped DEF ReleasesInv
  <1> DEFINE old == page[p][c]
             l   == [old EXCEPT !.pc = "store", !.answer = answer, !.at = clock]
  <1>3. old \in Lookups /\ old.pc = "ask" /\ clock \in 0..MaxClock /\ old.now <= clock
    BY DEF AskMirror, ReleasesInv, ReleasesTypeOK, LookupsAreInTime
  <1>4. l \in Lookups /\ l.pc = "store" /\ l.now = old.now /\ l.at = clock
    BY <1>2, <1>3 DEF Lookups
  <1>5. page' = [page EXCEPT ![p][c] = l]
    BY <1>1, <1>3 DEF ReleasesInv, ReleasesTypeOK, Lookups
  <1> HIDE DEF l, old
  <1>6. UNCHANGED << world, discovery, prereleases, pages, checks >>
    BY DEF AskMirror
  <1>7. page' \in [Pages -> [Caches -> Lookups]] /\ LookupsAreInTime'
    BY <1>3, <1>4, <1>5, <1>6, OneLookup
  <1>8. ReleasesTypeOK'
    BY <1>6, <1>7 DEF ReleasesInv, ReleasesTypeOK, world
  <1>9. AnswersAreRecent'
    BY <1>6 DEF ReleasesInv, AnswersAreRecent, Cache
  <1> QED
    BY <1>7, <1>8, <1>9 DEF ReleasesInv

LEMMA StoreIsSound ==
    ASSUME ReleasesInv, NEW p \in Pages, NEW c \in Caches, Store(p, c)
    PROVE  ReleasesInv'
  <1> DEFINE old  == page[p][c]
             kept == [until |-> Until(old), answer |-> old.answer, at |-> old.at]
             l    == Done(c, old.now, old.answer)
  <1>1. old \in Lookups /\ old.pc = "store" /\ old.now <= old.at
    BY DEF Store, ReleasesInv, ReleasesTypeOK, LookupsAreInTime
  <1>2. old.now \in 0..MaxClock /\ old.at \in 0..MaxClock /\ old.answer \in Answers
    BY <1>1 DEF Lookups
  <1>3. l \in Lookups /\ l.pc = "done"
    BY <1>2, DoneIsTyped
  <1>4. kept \in CacheRows /\ Fresh(kept)
    BY <1>1, <1>2, ReleasesAssumption DEF CacheRows, Fresh, Until
  <1>5. /\ page' = [page EXCEPT ![p][c] = l]
        /\ \/ discovery' = kept /\ UNCHANGED prereleases
           \/ prereleases' = kept /\ UNCHANGED discovery
        /\ UNCHANGED << world, pages, checks >>
    BY DEF Store, ReleasesInv, ReleasesTypeOK
  <1> HIDE DEF l, kept, old
  <1>6. page' \in [Pages -> [Caches -> Lookups]] /\ LookupsAreInTime'
    BY <1>3, <1>5, OneLookup
  <1>7. /\ discovery' \in CacheRows /\ prereleases' \in CacheRows
        /\ Fresh(discovery)' /\ Fresh(prereleases)'
    <2>1. /\ discovery \in CacheRows /\ prereleases \in CacheRows
          /\ Fresh(discovery) /\ Fresh(prereleases)
      BY CachesAreFresh DEF ReleasesInv, ReleasesTypeOK, CacheRows
    <2> QED
      BY <1>4, <1>5, <2>1 DEF Fresh
  <1>8. ReleasesTypeOK'
    BY <1>5, <1>6, <1>7 DEF ReleasesInv, ReleasesTypeOK, CacheRows, world
  <1>9. AnswersAreRecent'
    BY <1>7 DEF AnswersAreRecent, Fresh, Caches, Cache
  <1> QED
    BY <1>6, <1>8, <1>9 DEF ReleasesInv
--------------------------------------------------------------------------------
LEMMA ReleasesKeepTheirs == ReleasesInv /\ [Next]_vars => ReleasesInv'
  <1> SUFFICES ASSUME ReleasesInv, [Next]_vars PROVE ReleasesInv'
      OBVIOUS
  <1>1. CASE UNCHANGED releaseVars
    BY <1>1 DEF releaseVars, ReleasesInv, ReleasesTypeOK, AnswersAreRecent,
                LookupsAreInTime, Cache
  <1>2. CASE ReleasesNext
    <2>1. CASE \E v \in Numbers : Advance(v)
      BY <2>1, AdvanceIsSound
    <2>2. CASE Tick
      BY <2>2, TickIsSound
    <2>3. ASSUME NEW p \in Pages, Open(p) \/ Check(p) PROVE ReleasesInv'
      BY <2>3, OpenIsSound, CheckIsSound
    <2>4. ASSUME NEW p \in Pages, NEW c \in Caches, AskMirror(p, c) \/ Store(p, c)
          PROVE  ReleasesInv'
      BY <2>4, AskMirrorIsSound, StoreIsSound
    <2> QED
      BY <1>2, <2>1, <2>2, <2>3, <2>4 DEF ReleasesNext
  <1> QED
    BY <1>1, <1>2 DEF Next, vars

\* Both caches only hold answers that are recent enough, however long lookups take
\* and in whichever order they store (_cached_discovery, _cached_prereleases).
THEOREM CachesAreRecent == Spec => []AnswersAreRecent
  <1>1. Init => ReleasesInv
    BY NothingIsCached DEF Init
  <1>2. ReleasesInv => AnswersAreRecent
    BY DEF ReleasesInv
  <1> QED
    BY <1>1, <1>2, ReleasesKeepTheirs, PTL DEF Spec

\* Every variable of Catalog keeps its type.
THEOREM CatalogTypeCorrect == Spec => []TypeOK
  <1>1. Init => ReleasesInv
    BY NothingIsCached DEF Init
  <1>2. NetbootInv /\ ReleasesInv => TypeOK
    BY DEF NetbootInv, ReleasesInv, TypeOK
  <1> QED
    BY <1>1, <1>2, ReleasesKeepTheirs, CatalogInvariant, PTL DEF Spec
--------------------------------------------------------------------------------
(* Finite sets put in order. *)

\* A set of numbers has a least one.
LEMMA LeastNumber ==
    ASSUME NEW T \in SUBSET Nat, T # {}
    PROVE  \E x \in T : \A y \in T : x <= y
  <1>1. \E x \in T : \A y \in T : << y, x >> \notin OpToRel(<, Nat)
    BY WFMin, NatLessThanWellFounded
  <1>2. \A x, y \in T : x <= y \/ << y, x >> \in OpToRel(<, Nat)
    BY DEF OpToRel
  <1> QED
    BY <1>1, <1>2

IsOrder(R, S) == /\ \A x \in S : << x, x >> \notin R
                 /\ \A x, y, z \in S : << x, y >> \in R /\ << y, z >> \in R => << x, z >> \in R

\* In an order a finite set has an element that nothing comes after: the one that
\* the fewest come after.
LEMMA LastElement ==
    ASSUME NEW S, IsFiniteSet(S), S # {}, NEW R, IsOrder(R, S)
    PROVE  \E x \in S : \A y \in S : << x, y >> \notin R
  <1> DEFINE After(x) == {y \in S : << x, y >> \in R}
             sizes    == {Cardinality(After(x)) : x \in S}
  <1>1. \A x \in S : IsFiniteSet(After(x)) /\ Cardinality(After(x)) \in Nat
    BY FS_Subset, FS_CardinalityType
  <1> HIDE DEF After
  <1>2. sizes \in SUBSET Nat /\ sizes # {}
    BY <1>1
  <1>3. PICK n \in sizes : \A m \in sizes : n <= m
    <2> HIDE DEF sizes
    <2> QED
      BY <1>2, LeastNumber
  <1>4. PICK x \in S : Cardinality(After(x)) = n
    BY <1>3
  <1>5. ASSUME NEW y \in S, << x, y >> \in R PROVE FALSE
    <2>1. After(y) \subseteq After(x) /\ y \in After(x) /\ y \notin After(y)
      BY <1>5 DEF IsOrder, After
    <2>2. Cardinality(After(y)) < Cardinality(After(x))
      <3>1. /\ Cardinality(After(y)) <= Cardinality(After(x))
            /\ Cardinality(After(y)) = Cardinality(After(x)) => After(y) = After(x)
        BY <1>1, <2>1, FS_Subset
      <3> QED
        BY <1>1, <2>1, <3>1
    <2>3. Cardinality(After(y)) \in sizes
      OBVIOUS
    <2> HIDE DEF sizes
    <2> QED
      BY <1>1, <1>3, <1>4, <2>2, <2>3
  <1> QED
    BY <1>5

\* A finite set can be put in order.
LEMMA CanBeSorted ==
    ASSUME NEW S, IsFiniteSet(S), NEW R, IsOrder(R, S),
           \A x, y \in S : x = y \/ << x, y >> \in R \/ << y, x >> \in R
    PROVE  \E s \in SetToSeqs(S) : \A i, j \in DOMAIN s : i < j => << s[i], s[j] >> \in R
  <1> DEFINE Sorts(s, U) == /\ s \in [1..Cardinality(U) -> U]
                            /\ \A i, j \in 1..Cardinality(U) : i # j => s[i] # s[j]
                            /\ \A i, j \in 1..Cardinality(U) : i < j => << s[i], s[j] >> \in R
             bad == {n \in Nat : \E U \in SUBSET S : Cardinality(U) = n /\ ~\E s : Sorts(s, U)}
  <1>1. \A U \in SUBSET S : IsFiniteSet(U) /\ Cardinality(U) \in Nat
    BY FS_Subset, FS_CardinalityType
  <1>2. bad = {}
    <2> SUFFICES ASSUME bad # {} PROVE FALSE
        OBVIOUS
    <2>1. PICK n \in bad : \A m \in bad : n <= m
      <3>1. bad \in SUBSET Nat
        OBVIOUS
      <3> HIDE DEF bad
      <3> QED
        BY <3>1, LeastNumber
    <2>2. PICK U \in SUBSET S : Cardinality(U) = n /\ ~\E s : Sorts(s, U)
      OBVIOUS
    <2>3. CASE U = {}
      <3>1. Cardinality(U) = 0
        BY <2>3, FS_EmptySet
      <3>2. Sorts([i \in 1..0 |-> i], U)
        BY <3>1
      <3> QED
        BY <2>2, <3>2
    <2>4. CASE U # {}
      <3>1. PICK x \in U : \A y \in U : << x, y >> \notin R
        <4>1. IsOrder(R, U)
          BY <2>2 DEF IsOrder
        <4> QED
          BY <1>1, <2>2, <2>4, <4>1, LastElement
      <3> DEFINE V == U \ {x}
      <3>2. V \in SUBSET S /\ Cardinality(V) = n - 1 /\ n - 1 \in Nat /\ n \in Nat
        <4>1. V \in SUBSET S /\ Cardinality(V) = Cardinality(U) - 1
          BY <1>1, FS_RemoveElement
        <4>2. Cardinality(U) \in Nat /\ Cardinality(V) \in Nat
          BY <1>1, <4>1
        <4> HIDE DEF V, bad, Sorts
        <4> QED
          BY <2>2, <4>1, <4>2
      <3>3. n - 1 \notin bad
        BY <2>1, <3>2
      <3>4. PICK r : Sorts(r, V)
        BY <3>2, <3>3
      <3> DEFINE s == [i \in 1..n |-> IF i = n THEN x ELSE r[i]]
      <3>5. /\ r \in [1..(n - 1) -> V]
            /\ \A i, j \in 1..(n - 1) : i # j => r[i] # r[j]
            /\ \A i, j \in 1..(n - 1) : i < j => << r[i], r[j] >> \in R
        BY <3>2, <3>4
      <3> HIDE DEF Sorts
      <3>6. \A i \in 1..(n - 1) : /\ s[i] = r[i] /\ r[i] \in U /\ r[i] # x
                                  /\ << r[i], x >> \in R
        <4>1. \A i \in 1..(n - 1) : r[i] \in V
          BY <3>5
        <4>2. \A y \in V : << y, x >> \in R
          BY <2>2, <3>1
        <4> QED
          BY <3>2, <4>1, <4>2
      <3>7. s[n] = x /\ \A i \in 1..n : i = n \/ i \in 1..(n - 1)
        BY <3>2
      <3>8. s \in [1..n -> U]
        BY <3>6, <3>7
      <3>9. ASSUME NEW i \in 1..n, NEW j \in 1..n
            PROVE  (i # j => s[i] # s[j]) /\ (i < j => << s[i], s[j] >> \in R)
        <4> HIDE DEF s, V, bad
        <4>1. CASE i = n /\ j # n
          <5>1. j \in 1..(n - 1) /\ ~(i < j) /\ s[i] = x
            BY <3>2, <3>7, <4>1
          <5> QED
            BY <3>6, <5>1
        <4>2. CASE i # n /\ j = n
          BY <3>2, <3>6, <3>7, <4>2
        <4>3. CASE i # n /\ j # n
          BY <3>2, <3>5, <3>6, <3>7, <4>3
        <4>4. CASE i = n /\ j = n
          BY <3>2, <4>4
        <4> QED
          BY <4>1, <4>2, <4>3, <4>4
      <3> HIDE DEF s
      <3>10. Sorts(s, U)
        BY <2>2, <3>8, <3>9 DEF Sorts
      <3> QED
        BY <2>2, <3>10
    <2> QED
      BY <2>3, <2>4
  <1>3. S \in SUBSET S /\ Cardinality(S) \in Nat
    BY <1>1
  <1>4. \E s : Sorts(s, S)
    <2>1. Cardinality(S) \notin bad
      BY <1>2
    <2> HIDE DEF Sorts
    <2> QED
      BY <1>3, <2>1
  <1>5. PICK s : Sorts(s, S)
    BY <1>4
  <1>6. s \in SetToSeqs(S) /\ DOMAIN s = 1..Cardinality(S)
    BY <1>5 DEF SetToSeqs
  <1> QED
    BY <1>5, <1>6

\* What a list in order is: every element of the set, at one place.
Lists(s, S) == /\ s \in Seq(S) /\ Len(s) \in Nat /\ DOMAIN s = 1..Len(s)
               /\ \A i \in 1..Len(s) : s[i] \in S
               /\ \A x \in S : \E i \in 1..Len(s) : s[i] = x

LEMMA AListHasThemAll ==
    ASSUME NEW S, IsFiniteSet(S), NEW s \in SetToSeqs(S)
    PROVE  Lists(s, S)
  <1> DEFINE n == Cardinality(S)
  <1>1. n \in Nat
    BY FS_CardinalityType
  <1>2. s \in [1..n -> S] /\ \A i, j \in 1..n : i # j => s[i] # s[j]
    BY DEF SetToSeqs
  <1>3. s \in Injection(1..n, S) /\ IsFiniteSet(1..n) /\ Cardinality(1..n) = n
    <2>1. IsFiniteSet(1..n) /\ Cardinality(1..n) = n
      <3> HIDE DEF n
      <3> QED
        BY <1>1, FS_Interval
    <2> HIDE DEF n
    <2>2. DOMAIN s = 1..n /\ s \in [1..n -> S]
      BY <1>2
    <2>3. IsInjective(s)
      BY <1>2, <2>2 DEF IsInjective
    <2> QED
      BY <2>1, <2>2, <2>3 DEF Injection
  <1> HIDE DEF n
  <1>4. s \in Surjection(1..n, S)
    <2>1. Cardinality(1..n) = Cardinality(S) <=> s \in Surjection(1..n, S)
      BY <1>3, FS_Injection
    <2> QED
      BY <1>3, <2>1 DEF n
  <1>5. s \in Seq(S) /\ Len(s) = n
    BY <1>1, <1>2
  <1>6. \A x \in S : \E i \in 1..n : s[i] = x
    BY <1>4 DEF Surjection
  <1> QED
    BY <1>1, <1>2, <1>5, <1>6 DEF Lists

LEMMA NewestFirstIsAnOrder ==
    ASSUME NEW vs, vs \subseteq Nat \X Nat, IsFiniteSet(vs)
    PROVE  LET s == NewestFirst(vs) IN
           /\ Lists(s, vs)
           /\ \A i, j \in 1..Len(s) : i < j => Newer(s[i], s[j])
  <1> DEFINE R == {e \in vs \X vs : Newer(e[1], e[2])}
  <1>1. \A x, y \in vs : << x, y >> \in R <=> Newer(x, y)
    OBVIOUS
  <1>2. \A x \in vs : x[1] \in Nat /\ x[2] \in Nat /\ x = << x[1], x[2] >>
    OBVIOUS
  <1> HIDE DEF R
  <1>3. IsOrder(R, vs)
    <2>1. \A x \in vs : << x, x >> \notin R
      BY <1>1, <1>2 DEF Newer
    <2>2. ASSUME NEW x \in vs, NEW y \in vs, NEW z \in vs, Newer(x, y), Newer(y, z)
          PROVE  Newer(x, z)
      <3>1. x[1] \in Nat /\ x[2] \in Nat /\ y[1] \in Nat /\ y[2] \in Nat
            /\ z[1] \in Nat /\ z[2] \in Nat
        BY <1>2
      <3> QED
        BY <2>2, <3>1 DEF Newer
    <2> QED
      BY <1>1, <2>1, <2>2 DEF IsOrder
  <1>4. \A x, y \in vs : x = y \/ << x, y >> \in R \/ << y, x >> \in R
    <2>1. ASSUME NEW x \in vs, NEW y \in vs PROVE x = y \/ Newer(x, y) \/ Newer(y, x)
      <3>1. x[1] \in Nat /\ x[2] \in Nat /\ y[1] \in Nat /\ y[2] \in Nat
        BY <1>2
      <3>2. x[1] = y[1] /\ x[2] = y[2] => x = y
        BY <1>2
      <3> QED
        BY <3>1, <3>2 DEF Newer
    <2> QED
      BY <1>1, <2>1
  <1>5. \E s \in SetToSeqs(vs) : \A i, j \in DOMAIN s : i < j => << s[i], s[j] >> \in R
    BY <1>3, <1>4, CanBeSorted
  <1>6. \E s \in SetToSeqs(vs) : \A i, j \in DOMAIN s : i < j => Newer(s[i], s[j])
    <2>1. PICK s \in SetToSeqs(vs) : \A i, j \in DOMAIN s : i < j => << s[i], s[j] >> \in R
      BY <1>5
    <2>2. \A i \in DOMAIN s : s[i] \in vs
      BY DEF SetToSeqs
    <2> QED
      BY <1>1, <2>1, <2>2
  <1> DEFINE s == NewestFirst(vs)
  <1>7. s \in SetToSeqs(vs) /\ \A i, j \in DOMAIN s : i < j => Newer(s[i], s[j])
    BY <1>6 DEF NewestFirst, InOrder
  <1> HIDE DEF s
  <1>8. Lists(s, vs) /\ DOMAIN s = 1..Len(s)
    BY <1>7, AListHasThemAll DEF Lists
  <1>9. \A i, j \in 1..Len(s) : i < j => Newer(s[i], s[j])
    BY <1>7, <1>8
  <1> QED
    BY <1>8, <1>9 DEF s

LEMMA InOrderOfNumbers ==
    ASSUME NEW N, N \subseteq Nat, IsFiniteSet(N)
    PROVE  Lists(InOrder(N, Above), N)
  <1> DEFINE R == {e \in N \X N : e[1] < e[2]}
  <1>1. \A x, y \in N : << x, y >> \in R <=> x < y
    OBVIOUS
  <1> HIDE DEF R
  <1>2. IsOrder(R, N) /\ \A x, y \in N : x = y \/ << x, y >> \in R \/ << y, x >> \in R
    BY <1>1 DEF IsOrder
  <1>3. PICK s \in SetToSeqs(N) : \A i, j \in DOMAIN s : i < j => << s[i], s[j] >> \in R
    BY <1>2, CanBeSorted
  <1>4. \A i \in DOMAIN s : s[i] \in N
    BY DEF SetToSeqs
  <1>5. \A i, j \in DOMAIN s : i < j => s[i] < s[j]
    BY <1>1, <1>3, <1>4
  <1>6. InOrder(N, Above) \in SetToSeqs(N)
    BY <1>3, <1>5 DEF InOrder, Above
  <1> QED
    BY <1>6, AListHasThemAll
--------------------------------------------------------------------------------
(* What the answers in use cover of what is out. *)

\* Versions are compared as numbers are.
LEMMA NewerOrders ==
    ASSUME NEW x \in Nat \X Nat, NEW y \in Nat \X Nat, NEW z \in Nat \X Nat
    PROVE  /\ ~Newer(x, x)
           /\ Newer(x, y) /\ Newer(y, z) => Newer(x, z)
           /\ x = y \/ Newer(x, y) \/ Newer(y, x)
           /\ ~(Newer(x, y) /\ Newer(y, x))
  <1>1. /\ x[1] \in Nat /\ x[2] \in Nat /\ y[1] \in Nat /\ y[2] \in Nat
        /\ z[1] \in Nat /\ z[2] \in Nat
    OBVIOUS
  <1>2. x[1] = y[1] /\ x[2] = y[2] => x = y
    OBVIOUS
  <1> QED
    BY <1>1, <1>2 DEF Newer

\* The newest of what came out of a major release, at least as new as v.
LEMMA NewestIsCarried ==
    ASSUME NEW v \in Out PROVE \E w \in Carried : w[1] = v[1] /\ ~Newer(v, w)
  <1> DEFINE S == {w \in Out : w[1] = v[1] /\ ~Newer(v, w)}
             R == {e \in S \X S : Newer(e[2], e[1])}
  <1>1. Out \subseteq Numbers /\ Numbers \subseteq Nat \X Nat /\ IsFiniteSet(Numbers)
    BY NumbersAssumption DEF Out
  <1>2. IsFiniteSet(S) /\ S \subseteq Nat \X Nat
    BY <1>1, FS_Subset
  <1>3. v \in S
    BY <1>1, NewerOrders
  <1>4. \A x, y \in S : << x, y >> \in R <=> Newer(y, x)
    OBVIOUS
  <1>5. IsOrder(R, S)
    <2> HIDE DEF R, S
    <2> QED
      BY <1>2, <1>4, NewerOrders DEF IsOrder
  <1>6. PICK x \in S : \A y \in S : << x, y >> \notin R
    <2> HIDE DEF R, S
    <2> QED
      BY <1>2, <1>3, <1>5, LastElement
  <1>7. ASSUME NEW w \in Out, w[1] = x[1], Newer(w, x) PROVE FALSE
    <2>1. ~Newer(v, w)
      BY <1>1, <1>6, <1>7, NewerOrders
    <2>2. w \in S
      BY <1>6, <1>7, <2>1
    <2> QED
      BY <1>4, <1>6, <1>7, <2>2
  <1> QED
    BY <1>6, <1>7 DEF Carried
\* Versions come out in their order, and one always is.
OutInOrder == /\ \A v, w \in Numbers : Newer(v, w) /\ stage[v] # "ahead" => stage[w] = "out"
              /\ Out # {}

\* What an answer says of the versions that were out before t.
Covers(a, t) ==
    \A v \in Out : since[v] < t => /\ \E w \in a.found : w[1] = v[1] /\ ~Newer(v, w)
                                   /\ \A u \in a.left : u[1] = v[1] => Newer(u, v)
Sound(a) == a.found # {} /\ a.found \cap a.left = {}

\* An answer covers what was out when the mirror gave it: in the cache and in a lookup
\* about to store it by the time it was given, in a page by _DISCOVERY_TTL before it.
RowIsSound(row) == row.answer.known => /\ Sound(row.answer) /\ row.at <= clock
                                       /\ Covers(row.answer, row.at)
LookupSound(l) ==
    l.answer.known => /\ Sound(l.answer)
                      /\ l.pc = "store" => l.at <= clock /\ Covers(l.answer, l.at)
                      /\ l.pc = "done" => l.now <= clock /\ Covers(l.answer, l.now - Ttl + 1)

ReadsInv == /\ OutInOrder /\ RowIsSound(discovery)
            /\ \A p \in Pages : LookupSound(page[p]["discovery"])

LEMMA OldestIsOut == ReleasesInit => ReadsInv
  <1> SUFFICES ASSUME ReleasesInit PROVE ReadsInv
      OBVIOUS
  <1> DEFINE R == {e \in Numbers \X Numbers : Newer(e[1], e[2])}
  <1>1. \A x, y \in Numbers : << x, y >> \in R <=> Newer(x, y)
    OBVIOUS
  <1> HIDE DEF R
  <1>2. IsOrder(R, Numbers)
    BY <1>1, NumbersAssumption, NewerOrders DEF IsOrder
  <1>3. PICK v \in Numbers : \A w \in Numbers : << v, w >> \notin R
    BY <1>2, NumbersAssumption, LastElement
  <1>4. v \in Out
    BY <1>1, <1>3 DEF ReleasesInit, Out
  <1>5. \A x, y \in Numbers : Newer(x, y) => stage[x] = "ahead"
    BY DEF ReleasesInit
  <1>6. OutInOrder
    BY <1>4, <1>5 DEF OutInOrder
  <1>7. RowIsSound(discovery)
    BY DEF ReleasesInit, RowIsSound, NoCache, Unanswered
  <1>8. \A p \in Pages : LookupSound(page[p]["discovery"])
    BY DEF ReleasesInit, LookupSound, IdleLookup, Unanswered, Caches
  <1> QED
    BY <1>6, <1>7, <1>8 DEF ReadsInv

\* What an answer covers, it covers after what comes out later.
LEMMA CoveringIsKept ==
    ASSUME ReleasesTypeOK, NEW v \in Numbers, Advance(v), NEW a, NEW t \in Int, t <= clock,
           Covers(a, t)
    PROVE  Covers(a, t)'
  <1>1. /\ stage' = [stage EXCEPT ![v] = IF @ = "ahead" THEN "testing" ELSE "out"]
        /\ since' = [since EXCEPT ![v] = IF stage[v] = "ahead" THEN 0 ELSE clock]
    BY DEF Advance
  <1>2. \A w \in Numbers \ {v} : stage'[w] = stage[w] /\ since'[w] = since[w]
    BY <1>1 DEF ReleasesTypeOK
  <1>3. stage'[v] = "out" => since'[v] = clock /\ clock \in Nat
    BY <1>1 DEF ReleasesTypeOK
  <1>4. ASSUME NEW w \in Out', since'[w] < t PROVE w \in Out /\ since[w] < t
    BY <1>2, <1>3, <1>4 DEF Out
  <1> QED
    BY <1>4 DEF Covers

\* An answer that covers what was out by t covers what was out before.
LEMMA CoveringIsMonotone ==
    ASSUME ReleasesTypeOK, NEW a, NEW t \in Int, NEW s \in Int, s <= t, Covers(a, t)
    PROVE  Covers(a, s)
  <1>1. \A v \in Out : since[v] \in Int
    BY DEF ReleasesTypeOK, Out
  <1>2. \A v \in Out : since[v] < s => since[v] < t
    BY <1>1
  <1> QED
    BY <1>2 DEF Covers

\* Times are numbers.
LEMMA TimesAreNumbers ==
    ASSUME ReleasesTypeOK
    PROVE  /\ clock \in Int /\ discovery.at \in Int /\ discovery.until \in Int /\ Ttl \in Int
           /\ \A p \in Pages : /\ page[p]["discovery"] \in Lookups
                               /\ page[p]["discovery"].now \in Int
                               /\ page[p]["discovery"].at \in Int
  BY ReleasesAssumption DEF ReleasesTypeOK, Lookups, Caches

\* The world goes on: what the answers cover is the same or more is out.
LEMMA WorldKeepsReads ==
    ASSUME ReleasesTypeOK, ReadsInv, clock' \in Int, clock <= clock', OutInOrder',
           UNCHANGED << discovery, page >>,
           \A t \in Int : \A a : t <= clock /\ Covers(a, t) => Covers(a, t)'
    PROVE  ReadsInv'
  <1>1. RowIsSound(discovery)'
    BY TimesAreNumbers DEF ReadsInv, RowIsSound, Sound
  <1>2. ASSUME NEW p \in Pages PROVE LookupSound(page[p]["discovery"])'
    <2>0. PICK l : l = page[p]["discovery"]
      OBVIOUS
    <2>1. l.now \in Int /\ l.at \in Int /\ clock \in Int /\ Ttl \in Int
      BY <2>0, TimesAreNumbers
    <2>2. LookupSound(l) /\ page'[p]["discovery"] = l
      BY <2>0 DEF ReadsInv
    <2>3. Ttl \in Nat \ {0}
      BY ReleasesAssumption
    <2>4. CASE l.answer.known
      <3>1. Sound(l.answer)'
        BY <2>2, <2>4 DEF LookupSound, Sound
      <3>2. l.pc = "store" => l.at <= clock' /\ Covers(l.answer, l.at)'
        BY <2>1, <2>2, <2>4 DEF LookupSound
      <3>3. ASSUME l.pc = "done"
            PROVE  l.now <= clock' /\ Covers(l.answer, l.now - Ttl + 1)'
        <4>1. l.now <= clock /\ Covers(l.answer, l.now - Ttl + 1)
          BY <2>2, <2>4, <3>3 DEF LookupSound
        <4>2. l.now - Ttl + 1 \in Int /\ l.now - Ttl + 1 <= clock /\ l.now <= clock'
          BY <2>1, <2>3, <4>1
        <4>3. \A t \in Int : t <= clock /\ Covers(l.answer, t) => Covers(l.answer, t)'
          OBVIOUS
        <4> QED
          BY <4>1, <4>2, <4>3
      <3> QED
        BY <2>2, <3>1, <3>2, <3>3 DEF LookupSound
    <2>5. CASE ~l.answer.known
      BY <2>2, <2>5 DEF LookupSound
    <2> QED
      BY <2>4, <2>5
  <1> QED
    BY <1>1, <1>2 DEF ReadsInv

LEMMA AdvanceKeepsReads ==
    ASSUME ReleasesTypeOK, ReadsInv, NEW v \in Numbers, Advance(v) PROVE ReadsInv'
  <1>1. /\ stage' = [stage EXCEPT ![v] = IF @ = "ahead" THEN "testing" ELSE "out"]
        /\ stage[v] # "out" /\ \A w \in Numbers : Newer(v, w) => stage[w] = "out"
        /\ UNCHANGED << clock, discovery, page >>
    BY DEF Advance, web
  <1>2. \A w \in Numbers \ {v} : stage'[w] = stage[w]
    BY <1>1 DEF ReleasesTypeOK
  <1>3. OutInOrder'
    <2>1. Out' # {}
      BY <1>1, <1>2 DEF ReadsInv, OutInOrder, Out
    <2>2. ASSUME NEW u \in Numbers, NEW w \in Numbers, Newer(u, w), stage'[u] # "ahead"
          PROVE  stage'[w] = "out"
      <3>1. w # v
        <4>1. SUFFICES ASSUME w = v PROVE FALSE
            OBVIOUS
        <4>2. u # v
          BY <2>2, <4>1, NumbersAssumption, NewerOrders
        <4> QED
          BY <1>1, <1>2, <2>2, <4>1, <4>2 DEF ReadsInv, OutInOrder
      <3>2. stage[w] = "out"
        BY <1>1, <1>2, <2>2 DEF ReadsInv, OutInOrder
      <3> QED
        BY <1>2, <3>1, <3>2
    <2> QED
      BY <2>1, <2>2 DEF OutInOrder
  <1>4. \A t \in Int : \A a : t <= clock /\ Covers(a, t) => Covers(a, t)'
    BY CoveringIsKept
  <1> QED
    BY <1>1, <1>3, <1>4, TimesAreNumbers, WorldKeepsReads

LEMMA TickKeepsReads ==
    ASSUME ReleasesTypeOK, ReadsInv, Tick PROVE ReadsInv'
  <1>1. UNCHANGED << stage, since, discovery, page >> /\ clock' = clock + 1
    BY DEF Tick, web
  <1>2. OutInOrder' /\ \A t \in Int : \A a : Covers(a, t) => Covers(a, t)'
    BY <1>1 DEF ReadsInv, OutInOrder, Covers, Out
  <1> QED
    BY <1>1, <1>2, TimesAreNumbers, WorldKeepsReads

\* A lookup of the cache takes an answer in force, or none yet.
LEMMA LookUpIsSound ==
    ASSUME ReleasesInv, ReadsInv PROVE LookupSound(LookUp("discovery"))
  <1>1. /\ discovery.at \in Int /\ discovery.until \in Int /\ clock \in Int /\ Ttl \in Int
        /\ 0 <= clock
    BY TimesAreNumbers DEF ReleasesInv, ReleasesTypeOK
  <1>2. CASE discovery.until > clock
    <2>1. LookUp("discovery") = [pc |-> "done", answer |-> discovery.answer, at |-> 0,
                                 now |-> clock]
      BY <1>2 DEF LookUp, Cache, Done
    <2>2. ASSUME discovery.answer.known
          PROVE  Sound(discovery.answer) /\ Covers(discovery.answer, clock - Ttl + 1)
      <3>1. discovery.until <= discovery.at + Ttl
        BY <1>1, <1>2, <2>2 DEF ReleasesInv, AnswersAreRecent, Caches, Cache
      <3>2. Sound(discovery.answer) /\ Covers(discovery.answer, discovery.at)
        BY <2>2 DEF ReadsInv, RowIsSound
      <3>3. clock - Ttl + 1 \in Int /\ clock - Ttl + 1 <= discovery.at
        BY <1>1, <1>2, <3>1
      <3> QED
        BY <1>1, <3>2, <3>3, CoveringIsMonotone DEF ReleasesInv
    <2> QED
      BY <1>1, <2>1, <2>2 DEF LookupSound
  <1>3. CASE ~(discovery.until > clock)
    BY <1>3 DEF LookUp, Cache, IdleLookup, Unanswered, LookupSound
  <1> QED
    BY <1>2, <1>3

\* Only one page's lookup changes, and nothing of the world or the cache.
LEMMA OnePageReads ==
    ASSUME ReleasesInv, ReadsInv, NEW p \in Pages, UNCHANGED << world, discovery >>,
           \A q \in Pages : page'[q]["discovery"] = page[q]["discovery"]
                            \/ LookupSound(page'[q]["discovery"])
    PROVE  ReadsInv'
  <1>1. clock' = clock /\ stage' = stage /\ since' = since
    BY DEF world
  <1>2. OutInOrder' /\ RowIsSound(discovery)'
    BY <1>1 DEF ReadsInv, OutInOrder, RowIsSound, Sound, Covers, Out
  <1>3. ASSUME NEW q \in Pages PROVE LookupSound(page[q]["discovery"])'
    <2>1. LookupSound(page'[q]["discovery"])
      BY DEF ReadsInv
    <2> QED
      BY <1>1, <2>1 DEF LookupSound, Sound, Covers, Out
  <1> QED
    BY <1>2, <1>3 DEF ReadsInv

LEMMA OpenKeepsReads ==
    ASSUME ReleasesInv, ReadsInv, NEW p \in Pages, Open(p) \/ Check(p) PROVE ReadsInv'
  <1>1. UNCHANGED << world, discovery >>
    BY DEF Open, Check
  <1>2. \A q \in Pages : page'[q]["discovery"] = page[q]["discovery"]
                         \/ page'[q]["discovery"] = LookUp("discovery")
    BY DEF Open, Check, Caches, ReleasesInv, ReleasesTypeOK
  <1> QED
    BY <1>1, <1>2, LookUpIsSound, OnePageReads

\* The mirror's releases cover what is out; what it still tests is newer.
LEMMA MirrorIsSound ==
    ASSUME ReleasesInv, ReadsInv
    PROVE  /\ Sound(ReadNow("discovery"))
           /\ Covers(ReadNow("discovery"), clock)
  <1> DEFINE a == ReadNow("discovery")
  <1>1. a.found = Carried /\ a.left \subseteq Testing
    BY DEF ReadNow
  <1>2. Carried # {}
    BY NewestIsCarried DEF ReadsInv, OutInOrder
  <1>3. Carried \cap Testing = {}
    BY DEF Carried, Out, Testing
  <1>4. ASSUME NEW v \in Out, NEW u \in Testing PROVE Newer(u, v)
    <2>1. u \in Numbers /\ v \in Numbers /\ stage[u] = "testing" /\ stage[v] = "out"
      BY DEF Out, Testing
    <2>2. ~Newer(v, u) /\ u # v
      BY <2>1 DEF ReadsInv, OutInOrder
    <2> QED
      BY <2>1, <2>2, NumbersAssumption, NewerOrders
  <1>5. Sound(a)
    BY <1>1, <1>2, <1>3 DEF Sound
  <1>6. Covers(a, clock)
    BY <1>1, <1>4, NewestIsCarried DEF Covers
  <1> QED
    BY <1>5, <1>6

LEMMA AskMirrorKeepsReads ==
    ASSUME ReleasesInv, ReadsInv, NEW p \in Pages, NEW c \in Caches, AskMirror(p, c)
    PROVE  ReadsInv'
  <1>1. PICK answer \in {Unanswered, ReadNow(c)} :
            page' = [page EXCEPT ![p][c].pc = "store", ![p][c].answer = answer,
                                 ![p][c].at = clock]
    BY DEF AskMirror
  <1>2. UNCHANGED << world, discovery >>
    BY DEF AskMirror
  <1>3. page \in [Pages -> [Caches -> Lookups]] /\ clock \in Nat
    BY DEF ReleasesInv, ReleasesTypeOK
  <1>4. ASSUME NEW q \in Pages PROVE page'[q]["discovery"] = page[q]["discovery"]
                                     \/ LookupSound(page'[q]["discovery"])
    <2>1. CASE q = p /\ c = "discovery"
      <3> DEFINE old == page[p]["discovery"]
                 new == [old EXCEPT !.pc = "store", !.answer = answer, !.at = clock]
      <3>1. old \in Lookups
        BY <1>3 DEF Caches
      <3>2. page'[q]["discovery"] = new
        BY <1>1, <1>3, <2>1 DEF Lookups, Caches
      <3>3. new.pc = "store" /\ new.answer = answer /\ new.at = clock
        BY <3>1 DEF Lookups
      <3> HIDE DEF new
      <3>4. answer.known => Sound(answer) /\ Covers(answer, clock)
        BY <1>1, <2>1, MirrorIsSound DEF Unanswered
      <3>5. LookupSound(new)
        BY <1>3, <3>3, <3>4 DEF LookupSound
      <3> QED
        BY <3>2, <3>5
    <2>2. CASE ~(q = p /\ c = "discovery")
      BY <1>1, <1>3, <2>2 DEF Caches
    <2> QED
      BY <2>1, <2>2
  <1> QED
    BY <1>2, <1>4, OnePageReads

LEMMA StoreKeepsReads ==
    ASSUME ReleasesInv, ReadsInv, NEW p \in Pages, NEW c \in Caches, Store(p, c)
    PROVE  ReadsInv'
  <1>1. UNCHANGED << clock, stage, since >>
    BY DEF Store, world
  <1>2. page' = [page EXCEPT ![p][c] = Done(c, page[p][c].now, page[p][c].answer)]
    BY DEF Store, ReleasesInv, ReleasesTypeOK
  <1>3. page \in [Pages -> [Caches -> Lookups]]
    BY DEF ReleasesInv, ReleasesTypeOK
  <1>4. CASE c = "prereleases"
    <2>1. discovery' = discovery /\ UNCHANGED world
      BY <1>4 DEF Store
    <2>2. \A q \in Pages : page'[q]["discovery"] = page[q]["discovery"]
      BY <1>2, <1>3, <1>4 DEF Caches
    <2> QED
      BY <2>1, <2>2, OnePageReads
  <1>5. CASE c = "discovery"
    <2>0. PICK l : l = page[p]["discovery"]
      OBVIOUS
    <2>1. /\ l \in Lookups /\ l.pc = "store" /\ l.now <= l.at /\ LookupSound(l)
          /\ l.now \in Int /\ l.at \in Int
      BY <1>5, <2>0, TimesAreNumbers DEF Store, ReadsInv, ReleasesInv, LookupsAreInTime
    <2>2. l.answer.known => /\ Sound(l.answer) /\ l.at <= clock /\ Covers(l.answer, l.at)
      BY <2>1 DEF LookupSound
    <2>3. discovery'.answer = l.answer /\ discovery'.at = l.at
      BY <1>5, <2>0 DEF Store
    <2>4. RowIsSound(discovery')
      BY <2>2, <2>3 DEF RowIsSound
    <2>5. LookupSound(Done("discovery", l.now, l.answer))
      <3>1. /\ Done("discovery", l.now, l.answer).pc = "done"
            /\ Done("discovery", l.now, l.answer).answer = l.answer
            /\ Done("discovery", l.now, l.answer).now = l.now
        BY DEF Done
      <3>2. l.answer.known => l.now <= clock /\ Covers(l.answer, l.now - Ttl + 1)
        <4>1. /\ l.now - Ttl + 1 \in Int /\ l.now - Ttl + 1 <= l.at
              /\ l.at <= clock => l.now <= clock
          BY <2>1, TimesAreNumbers, ReleasesAssumption DEF ReleasesInv
        <4> QED
          BY <2>1, <2>2, <4>1, CoveringIsMonotone DEF ReleasesInv
      <3> QED
        BY <2>2, <3>1, <3>2 DEF LookupSound
    <2>6. ASSUME NEW q \in Pages PROVE LookupSound(page'[q]["discovery"])
      <3>1. page'[q]["discovery"] = page[q]["discovery"]
            \/ page'[q]["discovery"] = Done("discovery", l.now, l.answer)
        BY <1>2, <1>3, <1>5, <2>0 DEF Caches
      <3> QED
        BY <2>5, <3>1 DEF ReadsInv
    <2>7. \A a : Sound(a) => Sound(a)'
      BY DEF Sound
    <2>8. OutInOrder' /\ \A a : \A t : Covers(a, t) => Covers(a, t)'
      BY <1>1 DEF ReadsInv, OutInOrder, Covers, Out
    <2>9. RowIsSound(discovery)'
      BY <1>1, <2>4, <2>7, <2>8 DEF RowIsSound
    <2>10. ASSUME NEW q \in Pages PROVE LookupSound(page[q]["discovery"])'
      BY <1>1, <2>6, <2>7, <2>8 DEF LookupSound
    <2> QED
      BY <2>8, <2>9, <2>10 DEF ReadsInv
  <1> QED
    BY <1>4, <1>5 DEF Caches

LEMMA ReadsAreKept == ReleasesInv /\ ReadsInv /\ [Next]_vars => ReadsInv'
  <1> SUFFICES ASSUME ReleasesInv, ReadsInv, [Next]_vars PROVE ReadsInv'
      OBVIOUS
  <1>1. CASE UNCHANGED releaseVars
    BY <1>1 DEF releaseVars, ReadsInv, OutInOrder, Out, RowIsSound, LookupSound, Sound,
                Covers
  <1>2. CASE ReleasesNext
    <2>1. CASE \E v \in Numbers : Advance(v)
      BY <2>1, AdvanceKeepsReads DEF ReleasesInv
    <2>2. CASE Tick
      BY <2>2, TickKeepsReads DEF ReleasesInv
    <2>3. ASSUME NEW p \in Pages, Open(p) \/ Check(p) PROVE ReadsInv'
      BY <2>3, OpenKeepsReads
    <2>4. ASSUME NEW p \in Pages, NEW c \in Caches, AskMirror(p, c) \/ Store(p, c)
          PROVE  ReadsInv'
      BY <2>4, AskMirrorKeepsReads, StoreKeepsReads
    <2> QED
      BY <1>2, <2>1, <2>2, <2>3, <2>4 DEF ReleasesNext
  <1> QED
    BY <1>1, <1>2 DEF Next, vars

LEMMA ReadsAreSound == Spec => [](ReleasesInv /\ ReadsInv)
  <1>1. Init => ReleasesInv /\ ReadsInv
    BY NothingIsCached, OldestIsOut DEF Init
  <1> QED
    BY <1>1, ReleasesKeepTheirs, ReadsAreKept, PTL DEF Spec
--------------------------------------------------------------------------------
(* The list of a page. *)

\* What a page lists.
Offerings == [version: Nat \X Nat, pre: BOOLEAN, default: BOOLEAN]

LEMMA MinIsLeast ==
    ASSUME NEW T \in SUBSET Nat, T # {} PROVE Min(T) \in T /\ \A y \in T : Min(T) <= y
  BY LeastNumber DEF Min

\* The newest of a set.
LEMMA NewestIsFirst ==
    ASSUME NEW vs, vs \subseteq Nat \X Nat, IsFiniteSet(vs), vs # {}
    PROVE  /\ Head(NewestFirst(vs)) \in vs
           /\ \A v \in vs : ~Newer(v, Head(NewestFirst(vs)))
  <1> DEFINE s == NewestFirst(vs)
  <1>1. /\ Lists(s, vs) /\ \A i, j \in 1..Len(s) : i < j => Newer(s[i], s[j])
    BY NewestFirstIsAnOrder
  <1> HIDE DEF s
  <1>2. /\ Len(s) \in Nat /\ \A i \in 1..Len(s) : s[i] \in vs
        /\ \A v \in vs : \E i \in 1..Len(s) : s[i] = v
    BY <1>1 DEF Lists
  <1>3. 1 \in 1..Len(s)
    BY <1>2
  <1>4. Head(s) = s[1] /\ s[1] \in vs
    BY <1>2, <1>3
  <1>5. ASSUME NEW v \in vs PROVE ~Newer(v, s[1])
    <2>1. PICK i \in 1..Len(s) : s[i] = v
      BY <1>2
    <2>2. CASE i = 1
      BY <1>4, <2>1, <2>2, NewerOrders
    <2>3. CASE i # 1
      <3>1. Newer(s[1], v)
        <4>1. i \in Nat /\ 1 < i
          BY <1>2, <2>1, <2>3
        <4> QED
          BY <1>1, <1>3, <2>1, <4>1
      <3> QED
        BY <1>4, <3>1, NewerOrders
    <2> QED
      BY <2>2, <2>3
  <1> QED
    BY <1>4, <1>5 DEF s

\* The mirror's part of the list a page shows: a release is a pre-release if the mirror
\* tests it, and the default if it is the newest that is out.
LEMMA MineIsListed ==
    ASSUME NEW found, NEW testing, found \subseteq Nat \X Nat, testing \subseteq Nat \X Nat,
           IsFiniteSet(found), IsFiniteSet(testing)
    PROVE  LET mine == NewestFirst(found \cup testing)
               A == [i \in DOMAIN mine |-> Offer(mine[i], mine[i] \in testing,
                                                 IsDefault(mine[i], found, testing))]
           IN  /\ A \in Seq(Offerings)
               /\ \A i \in 1..Len(A) :
                      /\ A[i].version \in found \cup testing
                      /\ A[i].pre <=> A[i].version \in testing
                      /\ A[i].default <=> A[i].version = Head(NewestFirst(found))
               /\ \A v \in found \cup testing : \E i \in 1..Len(A) : A[i].version = v
  <1> DEFINE all  == found \cup testing
             mine == NewestFirst(all)
             A == [i \in DOMAIN mine |-> Offer(mine[i], mine[i] \in testing,
                                               IsDefault(mine[i], found, testing))]
  <1>1. Lists(mine, all)
    <2>1. all \subseteq Nat \X Nat /\ IsFiniteSet(all)
      BY FS_Union
    <2> HIDE DEF all
    <2> QED
      BY <2>1, NewestFirstIsAnOrder
  <1>2. all \subseteq Nat \X Nat
    OBVIOUS
  <1> HIDE DEF mine, all
  <1>3. /\ Len(mine) \in Nat /\ DOMAIN mine = 1..Len(mine)
        /\ \A i \in 1..Len(mine) : mine[i] \in all
        /\ \A v \in all : \E i \in 1..Len(mine) : mine[i] = v
    BY <1>1 DEF Lists
  <1>5. \A i \in 1..Len(mine) :
            /\ A[i].version = mine[i] /\ A[i].pre = (mine[i] \in testing)
            /\ A[i].default = (mine[i] = Head(NewestFirst(found)))
            /\ A[i] \in Offerings
    BY <1>2, <1>3 DEF Offer, IsDefault, Offerings
  <1>6. A \in Seq(Offerings) /\ Len(A) = Len(mine)
    BY <1>3, <1>5
  <1> HIDE DEF A
  <1>7. \A i \in 1..Len(A) : /\ A[i].version \in all
                             /\ A[i].pre <=> A[i].version \in testing
                             /\ A[i].default <=> A[i].version = Head(NewestFirst(found))
    BY <1>3, <1>5, <1>6
  <1>8. \A v \in all : \E i \in 1..Len(A) : A[i].version = v
    BY <1>3, <1>5, <1>6
  <1> QED
    BY <1>6, <1>7, <1>8 DEF A, mine, all

\* The catalog's part: what its own list offers, and no pre-release.
LEMMA RestIsListed ==
    ASSUME NEW found, NEW testing
    PROVE  LET rest == InOrder({i \in DOMAIN Listed : Listed[i] \notin found \cup testing}, Above)
               B == [i \in DOMAIN rest |-> CatalogList[rest[i]]]
           IN  B \in Seq(Offerings) /\ \A i \in 1..Len(B) : ~B[i].pre
  <1> DEFINE N    == {i \in DOMAIN Listed : Listed[i] \notin found \cup testing}
             rest == InOrder(N, Above)
             B    == [i \in DOMAIN rest |-> CatalogList[rest[i]]]
  <1>1. Listed \in Seq(Nat \X Nat) /\ DOMAIN Listed = 1..Len(Listed) /\ Len(Listed) \in Nat
    BY NumbersAssumption
  <1>2. N \subseteq Nat /\ IsFiniteSet(N) /\ N \subseteq DOMAIN Listed
    <2>1. N \subseteq DOMAIN Listed /\ IsFiniteSet(1..Len(Listed)) /\ DOMAIN Listed \subseteq Nat
      BY <1>1, FS_Interval
    <2> HIDE DEF N
    <2> QED
      BY <1>1, <2>1, FS_Subset
  <1>3. \A i \in DOMAIN Listed : CatalogList[i] \in Offerings /\ ~CatalogList[i].pre
    BY <1>1 DEF CatalogList, Offer, Offerings
  <1>4. Lists(rest, N)
    <2> HIDE DEF N
    <2> QED
      BY <1>2, InOrderOfNumbers
  <1> HIDE DEF rest, N
  <1>5. DOMAIN rest = 1..Len(rest) /\ Len(rest) \in Nat /\ \A i \in 1..Len(rest) : rest[i] \in N
    BY <1>4 DEF Lists
  <1>6. \A i \in 1..Len(rest) : B[i] \in Offerings /\ ~B[i].pre
    BY <1>2, <1>3, <1>5
  <1>7. B \in Seq(Offerings) /\ Len(B) = Len(rest)
    BY <1>5, <1>6
  <1> QED
    BY <1>6, <1>7 DEF B, rest, N

\* What the list of a page that could read the mirror offers, and which release it selects.
ListedWell(list, found, testing) ==
    /\ list \in Seq(Offerings) /\ Len(list) \in Nat /\ DOMAIN list = 1..Len(list)
    /\ \A i \in 1..Len(list) : list[i].pre => list[i].version \in testing
    /\ \A v \in found : \E i \in 1..Len(list) : list[i].version = v /\ ~list[i].pre
    /\ \E m \in 1..Len(list) :
           /\ list[m].default /\ list[m].version = Head(NewestFirst(found)) /\ ~list[m].pre
           /\ \A i \in 1..Len(list) : list[i].default => m <= i

LEMMA DiscoveredIsListedWell ==
    ASSUME NEW found, NEW testing, found \subseteq Numbers, testing \subseteq Numbers,
           found # {}, found \cap testing = {}
    PROVE  ListedWell(WithDiscovered(found, testing), found, testing)
  <1> DEFINE newest == Head(NewestFirst(found))
             mine == NewestFirst(found \cup testing)
             rest == InOrder({i \in DOMAIN Listed : Listed[i] \notin found \cup testing}, Above)
             A == [i \in DOMAIN mine |-> Offer(mine[i], mine[i] \in testing,
                                               IsDefault(mine[i], found, testing))]
             B == [i \in DOMAIN rest |-> CatalogList[rest[i]]]
             list == A \o B
  <1>1. /\ found \subseteq Nat \X Nat /\ testing \subseteq Nat \X Nat
        /\ IsFiniteSet(found) /\ IsFiniteSet(testing)
    BY NumbersAssumption, FS_Subset
  <1>2. /\ A \in Seq(Offerings)
        /\ \A i \in 1..Len(A) : /\ A[i].version \in found \cup testing
                                /\ A[i].pre <=> A[i].version \in testing
                                /\ A[i].default <=> A[i].version = newest
        /\ \A v \in found \cup testing : \E i \in 1..Len(A) : A[i].version = v
    BY <1>1, MineIsListed
  <1>3. B \in Seq(Offerings) /\ \A i \in 1..Len(B) : ~B[i].pre
    BY RestIsListed
  <1>4. WithDiscovered(found, testing) = list
    BY DEF WithDiscovered
  <1>5. newest \in found
    BY <1>1, NewestIsFirst
  <1> HIDE DEF newest, mine, rest, A, B
  <1>6. Len(A) \in Nat /\ Len(B) \in Nat
    BY <1>2, <1>3
  <1>7. /\ list \in Seq(Offerings) /\ Len(list) = Len(A) + Len(B)
        /\ \A i \in 1..(Len(A) + Len(B)) :
               list[i] = IF i <= Len(A) THEN A[i] ELSE B[i - Len(A)]
    BY <1>2, <1>3, ConcatProperties
  <1> HIDE DEF list
  <1>8. DOMAIN list = 1..Len(list) /\ Len(list) \in Nat
    BY <1>6, <1>7
  <1>9. \A i \in 1..Len(A) : i \in 1..Len(list) /\ list[i] = A[i]
    BY <1>6, <1>7
  <1>10. \A i \in 1..Len(list) : i \notin 1..Len(A) => ~list[i].pre
    <2>1. \A i \in 1..Len(list) : i \notin 1..Len(A) =>
              i - Len(A) \in 1..Len(B) /\ list[i] = B[i - Len(A)]
      BY <1>6, <1>7
    <2> QED
      BY <1>3, <2>1
  <1>11. \A i \in 1..Len(list) : list[i].pre => list[i].version \in testing
    BY <1>2, <1>9, <1>10
  <1>12. \A v \in found : \E i \in 1..Len(list) : list[i].version = v /\ ~list[i].pre
    <2> TAKE v \in found
    <2>1. PICK i \in 1..Len(A) : A[i].version = v
      BY <1>2
    <2>2. ~A[i].pre
      BY <1>2, <2>1
    <2> QED
      BY <1>9, <2>1, <2>2
  <1>13. \E m \in 1..Len(list) : /\ list[m].default /\ list[m].version = newest /\ ~list[m].pre
                                 /\ \A i \in 1..Len(list) : list[i].default => m <= i
    <2> DEFINE T == {i \in 1..Len(A) : A[i].default}
    <2>1. T \in SUBSET Nat /\ T # {}
      BY <1>2, <1>5, <1>6
    <2>2. PICK m \in T : \A i \in T : m <= i
      <3> HIDE DEF T
      <3> QED
        BY <2>1, LeastNumber
    <2>3. m \in 1..Len(A) /\ A[m].default /\ A[m].version = newest /\ ~A[m].pre
      BY <1>2, <1>5, <2>2
    <2>4. ASSUME NEW i \in 1..Len(list), list[i].default PROVE m <= i
      <3>1. CASE i \in 1..Len(A)
        BY <1>9, <2>2, <2>4, <3>1
      <3>2. CASE i \notin 1..Len(A)
        BY <1>6, <1>8, <2>3, <3>2
      <3> QED
        BY <3>1, <3>2
    <2> QED
      BY <1>9, <2>3, <2>4
  <1> QED
    BY <1>4, <1>7, <1>8, <1>11, <1>12, <1>13 DEF ListedWell, newest

\* With the pre-releases in front, the same releases follow, further down.
Precedes(found, list, shown) ==
    \E n \in Nat : /\ DOMAIN shown = 1..(n + Len(list))
                   /\ \A i \in 1..n : /\ shown[i].pre /\ ~shown[i].default
                                      /\ shown[i].version \in found
                                      /\ ~Superseded(shown[i].version, list)
                   /\ \A i \in 1..Len(list) : shown[i + n] = list[i]

LEMMA PrereleasesGoFirst ==
    ASSUME NEW list \in Seq(Offerings), NEW found \in SUBSET Numbers
    PROVE  Precedes(found, list, WithPrereleases(list, found))
  <1> DEFINE S     == {v \in found : ~Superseded(v, list)}
             added == NewestFirst(S)
             A     == [i \in DOMAIN added |-> Offer(added[i], TRUE, FALSE)]
             all   == A \o list
  <1>1. S \subseteq found /\ found \subseteq Nat \X Nat /\ IsFiniteSet(S)
    BY NumbersAssumption, FS_Subset
  <1>2. Lists(added, S)
    <2>1. S \subseteq Nat \X Nat
      BY <1>1
    <2> HIDE DEF S
    <2> QED
      BY <1>1, <2>1, NewestFirstIsAnOrder
  <1>3. WithPrereleases(list, found) = all
    BY DEF WithPrereleases
  <1> HIDE DEF added
  <1>4. /\ Len(added) \in Nat /\ DOMAIN added = 1..Len(added)
        /\ \A i \in 1..Len(added) : added[i] \in S
    BY <1>2 DEF Lists
  <1>5. \A i \in 1..Len(added) : /\ A[i].pre /\ ~A[i].default /\ A[i].version = added[i]
                                 /\ A[i] \in Offerings
    BY <1>1, <1>4 DEF Offer, Offerings
  <1>6. A \in Seq(Offerings) /\ Len(A) = Len(added)
    <2>1. DOMAIN A = 1..Len(added) /\ A = [i \in 1..Len(added) |-> A[i]]
      BY <1>4
    <2> HIDE DEF A
    <2> QED
      BY <1>4, <1>5, <2>1
  <1> HIDE DEF A
  <1>7. /\ all \in Seq(Offerings) /\ Len(all) = Len(A) + Len(list)
        /\ \A i \in 1..(Len(A) + Len(list)) :
               all[i] = IF i <= Len(A) THEN A[i] ELSE list[i - Len(A)]
    BY <1>6, ConcatProperties
  <1> HIDE DEF all
  <1>8. Len(list) \in Nat
    OBVIOUS
  <1>9. \A i \in 1..Len(A) : /\ all[i].pre /\ ~all[i].default
                             /\ all[i].version \in found
                             /\ ~Superseded(all[i].version, list)
    <2>1. \A i \in 1..Len(A) : all[i] = A[i]
      BY <1>4, <1>6, <1>7, <1>8
    <2> QED
      BY <1>4, <1>5, <1>6, <2>1
  <1>10. \A i \in 1..Len(list) : all[i + Len(A)] = list[i]
    <2> TAKE i \in 1..Len(list)
    <2>1. /\ i + Len(A) \in 1..(Len(A) + Len(list)) /\ ~(i + Len(A) <= Len(A))
          /\ (i + Len(A)) - Len(A) = i
      BY <1>4, <1>6, <1>8
    <2> QED
      BY <1>7, <2>1
  <1>11. Len(A) \in Nat /\ DOMAIN all = 1..(Len(A) + Len(list))
    BY <1>4, <1>6, <1>7, <1>8
  <1> QED
    BY <1>3, <1>9, <1>10, <1>11 DEF Precedes

\* What a page offers whose mirror could be read.
LEMMA PageIsListedWell ==
    ASSUME ReleasesInv, ReadsInv, NEW p \in Pages, UpToDate(p),
           NEW a, a = page[p]["discovery"].answer
    PROVE  LET list  == PageList(p)
               known == WithDiscovered(a.found, a.left)
           IN  /\ ListedWell(known, a.found, a.left)
               /\ \A i \in DOMAIN list : list[i].pre =>
                      list[i].version \in a.left
                      \/ (list[i].version \in Numbers /\ ~Superseded(list[i].version, known))
               /\ \E m \in DOMAIN list :
                      /\ list[m].default /\ list[m].version = Head(NewestFirst(a.found))
                      /\ ~list[m].pre
                      /\ \A i \in DOMAIN list : list[i].default => m <= i
               /\ DOMAIN list \subseteq Nat
  <1> DEFINE known == WithDiscovered(a.found, a.left)
             b     == page[p]["prereleases"].answer
  <1>1. /\ a \in Answers /\ b \in Answers /\ a.known /\ Sound(a)
    BY DEF ReleasesInv, ReleasesTypeOK, ReadsInv, LookupSound, UpToDate, Caches, Lookups
  <1>2. /\ a.found \subseteq Numbers /\ a.left \subseteq Numbers /\ b.found \in SUBSET Numbers
        /\ a.found # {} /\ a.found \cap a.left = {}
    BY <1>1 DEF Answers, Sound
  <1>3. ListedWell(known, a.found, a.left)
    BY <1>2, DiscoveredIsListedWell
  <1>4. PageList(p) = IF b.known THEN WithPrereleases(known, b.found) ELSE known
    BY <1>1 DEF PageList
  <1> HIDE DEF known, b
  <1>5. /\ known \in Seq(Offerings) /\ Len(known) \in Nat /\ DOMAIN known = 1..Len(known)
        /\ \A i \in 1..Len(known) : known[i].pre => known[i].version \in a.left
    BY <1>3 DEF ListedWell
  <1>6. PICK m \in 1..Len(known) :
            /\ known[m].default /\ known[m].version = Head(NewestFirst(a.found))
            /\ ~known[m].pre
            /\ \A i \in 1..Len(known) : known[i].default => m <= i
    BY <1>3 DEF ListedWell
  <1>7. CASE ~b.known
    <2>1. PageList(p) = known /\ DOMAIN known \subseteq Nat
      BY <1>4, <1>5, <1>7
    <2>2. \A i \in DOMAIN known : known[i].pre => known[i].version \in a.left
      BY <1>5
    <2>3. \E k \in DOMAIN known :
              /\ known[k].default /\ known[k].version = Head(NewestFirst(a.found))
              /\ ~known[k].pre
              /\ \A i \in DOMAIN known : known[i].default => k <= i
      BY <1>5, <1>6
    <2> QED
      BY <1>3, <2>1, <2>2, <2>3 DEF known
  <1>8. CASE b.known
    <2>1. PICK list : list = WithPrereleases(known, b.found)
      OBVIOUS
    <2>2. PICK n \in Nat : /\ DOMAIN list = 1..(n + Len(known))
                           /\ \A i \in 1..n : /\ list[i].pre /\ ~list[i].default
                                              /\ list[i].version \in b.found
                                              /\ ~Superseded(list[i].version, known)
                           /\ \A i \in 1..Len(known) : list[i + n] = known[i]
      <3>1. Precedes(b.found, known, list)
        BY <1>2, <1>5, <2>1, PrereleasesGoFirst
      <3> QED
        BY <3>1 DEF Precedes
    <2>3. DOMAIN list = 1..(n + Len(known))
      BY <2>2
    <2>4. ASSUME NEW i \in DOMAIN list, i \notin 1..n
          PROVE  i - n \in 1..Len(known) /\ list[i] = known[i - n]
      <3>1. i \in Nat /\ i - n \in 1..Len(known) /\ (i - n) + n = i
        BY <1>5, <2>3, <2>4
      <3>2. list[(i - n) + n] = known[i - n]
        BY <2>2, <3>1
      <3> QED
        BY <3>1, <3>2
    <2>5. \A i \in DOMAIN list : list[i].pre =>
              list[i].version \in a.left
              \/ (list[i].version \in Numbers /\ ~Superseded(list[i].version, known))
      <3> TAKE i \in DOMAIN list
      <3>1. CASE i \in 1..n
        BY <1>2, <2>2, <3>1
      <3>2. CASE i \notin 1..n
        BY <1>5, <2>4, <3>2
      <3> QED
        BY <3>1, <3>2
    <2>6. /\ m + n \in DOMAIN list /\ list[m + n] = known[m]
      <3>1. m + n \in 1..(n + Len(known))
        BY <1>5
      <3> QED
        BY <2>2, <2>3, <3>1
    <2>7. ASSUME NEW i \in DOMAIN list, list[i].default PROVE m + n <= i
      <3>1. i \notin 1..n
        BY <2>2, <2>7
      <3>2. i - n \in 1..Len(known) /\ known[i - n].default
        BY <2>4, <2>7, <3>1
      <3>3. m <= i - n /\ i \in Nat /\ m \in Nat
        BY <1>5, <1>6, <2>3, <3>2
      <3> QED
        BY <3>3
    <2>8. PageList(p) = list
      BY <1>4, <1>8, <2>1
    <2>9. DOMAIN list \subseteq Nat
      BY <1>5, <2>3
    <2> QED
      BY <1>3, <1>6, <2>5, <2>6, <2>7, <2>8, <2>9 DEF known
  <1> QED
    BY <1>7, <1>8

LEMMA PageOffersNoOldBeta == ReleasesInv /\ ReadsInv => BetasAreAhead
  <1> SUFFICES ASSUME ReleasesInv, ReadsInv, NEW p \in Pages, UpToDate(p),
                      NEW i \in DOMAIN PageList(p), PageList(p)[i].pre,
                      NEW v \in Out, v[1] = PageList(p)[i].version[1],
                      ~Newer(PageList(p)[i].version, v),
                      since[v] + Ttl <= page[p]["discovery"].now
               PROVE  FALSE
      BY DEF BetasAreAhead
  <1> DEFINE l == page[p]["discovery"]
             a == l.answer
             u == PageList(p)[i].version
             known == WithDiscovered(a.found, a.left)
  <1>1. /\ u \in a.left \/ (u \in Numbers /\ ~Superseded(u, known))
        /\ ListedWell(known, a.found, a.left)
    BY PageIsListedWell
  <1>2. /\ a.known /\ l.pc = "done" /\ a \in Answers
        /\ Covers(a, l.now - Ttl + 1)
    BY DEF UpToDate, Caches, ReadsInv, LookupSound, ReleasesInv, ReleasesTypeOK, Lookups
  <1>3. since[v] < l.now - Ttl + 1
    <2>1. since[v] \in Int /\ l.now \in Int /\ Ttl \in Int
      BY TimesAreNumbers DEF ReleasesInv, ReleasesTypeOK, Out
    <2> HIDE DEF l
    <2>2. since[v] + Ttl <= l.now
      BY DEF l
    <2> QED
      BY <2>1, <2>2
  <1> HIDE DEF l, a, u, known
  <1>4. u[1] = v[1] /\ ~Newer(u, v)
    BY DEF u
  <1>5. /\ \E w \in a.found : w[1] = v[1] /\ ~Newer(v, w)
        /\ \A x \in a.left : x[1] = v[1] => Newer(x, v)
    BY <1>2, <1>3 DEF Covers, a
  <1>6. PICK w \in a.found : w[1] = v[1] /\ ~Newer(v, w)
    BY <1>5
  <1>7. u \notin a.left
    BY <1>4, <1>5
  <1>8. u \in Numbers /\ ~Superseded(u, known)
    BY <1>1, <1>7
  <1>9. Newer(u, w)
    BY <1>1, <1>4, <1>6, <1>8 DEF ListedWell, Superseded
  <1>10. v \in Nat \X Nat /\ w \in Nat \X Nat /\ u \in Nat \X Nat
    BY <1>2, <1>8, NumbersAssumption DEF Out, Answers
  <1> QED
    BY <1>4, <1>6, <1>9, <1>10, NewerOrders

LEMMA PageSelectsTheNewest == ReleasesInv /\ ReadsInv => PreselectedIsNewest
  <1> SUFFICES ASSUME ReleasesInv, ReadsInv, NEW p \in Pages, UpToDate(p)
               PROVE  /\ ~Preselected(p).pre
                      /\ \A v \in page[p]["discovery"].answer.found :
                             ~Newer(v, Preselected(p).version)
      BY DEF PreselectedIsNewest
  <1> DEFINE a == page[p]["discovery"].answer
             list == PageList(p)
             defaults == {i \in DOMAIN list : list[i].default}
  <1>1. /\ DOMAIN list \subseteq Nat
        /\ \E m \in DOMAIN list : /\ list[m].default
                                  /\ list[m].version = Head(NewestFirst(a.found))
                                  /\ ~list[m].pre
                                  /\ \A i \in DOMAIN list : list[i].default => m <= i
    BY PageIsListedWell
  <1>2. a.found \subseteq Nat \X Nat /\ IsFiniteSet(a.found) /\ a.found # {}
    <2>1. a \in Answers /\ Sound(a)
      BY DEF UpToDate, Caches, ReadsInv, LookupSound, ReleasesInv, ReleasesTypeOK, Lookups
    <2> QED
      BY <2>1, NumbersAssumption, FS_Subset DEF Answers, Sound
  <1>3. Preselected(p) = list[IF defaults = {} THEN 1 ELSE Min(defaults)]
    BY DEF Preselected
  <1> HIDE DEF a, list
  <1>4. PICK m \in DOMAIN list : /\ list[m].default
                                 /\ list[m].version = Head(NewestFirst(a.found))
                                 /\ ~list[m].pre
                                 /\ \A i \in DOMAIN list : list[i].default => m <= i
    BY <1>1
  <1>5. m \in defaults /\ defaults \in SUBSET Nat /\ \A i \in defaults : m <= i
    BY <1>1, <1>4
  <1> HIDE DEF defaults
  <1>6. Min(defaults) \in Nat /\ Min(defaults) <= m /\ m <= Min(defaults) /\ m \in Nat
    BY <1>5, MinIsLeast
  <1>7. Preselected(p) = list[m]
    BY <1>3, <1>5, <1>6
  <1> QED
    BY <1>2, <1>4, <1>7, NewestIsFirst DEF a

\* A page that could read the mirror offers no beta of a version that had been out for
\* _DISCOVERY_TTL, for every distro and however old its two answers are
\* (with_prereleases, _superseded).
THEOREM BetasAreSuperseded == Spec => []BetasAreAhead
  BY ReadsAreSound, PageOffersNoOldBeta, PTL

\* It preselects the newest version that was out when the mirror was read, never a
\* pre-release (with_discovered, the default of page_catalog).
THEOREM NewestIsPreselected == Spec => []PreselectedIsNewest
  BY ReadsAreSound, PageSelectsTheNewest, PTL
================================================================================
