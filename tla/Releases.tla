-------------------------------- MODULE Releases --------------------------------
(***************************************************************************)
(* The release lists of one distro on the Images page (page_catalog): what *)
(* its mirror carries and the pre-releases it publishes, each looked up by *)
(* threads of their own through a cache that outlives the page, merged     *)
(* into the catalog's own list.                                            *)
(*                                                                         *)
(* A release is a << major, minor >>.  It is ahead, then a pre-release,    *)
(* then out; a folder of pre-releases may keep it after that.              *)
(***************************************************************************)
EXTENDS Integers, FiniteSets, SequencesExt

CONSTANTS Numbers,          \* what the distro publishes in the course of the run
          Listed,            \* the catalog's own list, a sequence; its default is first
          ListsTesting, KeepsOld,   \* how it publishes its pre-releases
          Ttl, Retry,        \* _DISCOVERY_TTL, _DISCOVERY_RETRY
          Pages, MaxClock, MaxPages, MaxChecks

ASSUME ReleasesAssumption == /\ Ttl \in Nat \ {0} /\ Retry \in Nat /\ Retry <= Ttl
                             /\ MaxClock \in Nat /\ MaxPages \in Nat /\ MaxChecks \in Nat
ASSUME NumbersAssumption  == /\ Numbers \subseteq Nat \X Nat /\ IsFiniteSet(Numbers)
                             /\ Numbers # {} /\ Listed \in Seq(Nat \X Nat)

VARIABLES clock, stage, since,   \* the distro: the stage of each version, when it came out
          discovery, prereleases,   \* the two caches
          page,                  \* the pages being made: their two lookups
          pages, checks          \* bounds: pages and checks so far

releaseVars == << clock, stage, since, discovery, prereleases, page, pages, checks >>

Stages   == {"ahead", "testing", "out"}
Newer(v, w) == v[1] > w[1] \/ (v[1] = w[1] /\ v[2] > w[2])
Unanswered == [known |-> FALSE, found |-> {}, left |-> {}]
Answers  == [known: BOOLEAN,                  \* None otherwise
             found: SUBSET Numbers,          \* released, or published as pre-releases
             left: SUBSET Numbers]            \* in discovery: the testing ones
Lookups  == [pc: {"idle", "ask", "store", "done"}, now: 0..MaxClock, answer: Answers,
             at: 0..MaxClock]                \* history: when the mirror was read
IdleLookup == [pc |-> "idle", now |-> 0, answer |-> Unanswered, at |-> 0]
NoCache    == [until |-> 0, answer |-> Unanswered, at |-> 0]
Caches   == {"discovery", "prereleases"}

ReleasesTypeOK == /\ clock \in 0..MaxClock
                  /\ stage \in [Numbers -> Stages] /\ since \in [Numbers -> 0..MaxClock]
                  /\ {discovery, prereleases} \subseteq [until: 0..(MaxClock + Ttl), answer: Answers,
                                                           at: 0..MaxClock]
                  /\ page \in [Pages -> [Caches -> Lookups]]
                  /\ pages \in 0..MaxPages /\ checks \in 0..MaxChecks

ReleasesInit == /\ clock = 0
                /\ stage = [v \in Numbers |-> IF \E w \in Numbers : Newer(v, w)
                                               THEN "ahead" ELSE "out"]
                /\ since = [v \in Numbers |-> 0]
                /\ discovery = NoCache /\ prereleases = NoCache
                /\ page = [p \in Pages |-> [c \in Caches |-> IdleLookup]]
                /\ pages = 0 /\ checks = 0
--------------------------------------------------------------------------------
(* The distro, its mirror and the time. *)

world == << clock, stage, since >>
web   == << discovery, prereleases, page, pages, checks >>

InProgress(p) == \E c \in Caches : page[p][c].pc \in {"ask", "store"}

\* Bound: nothing happens once the last page is made.
Watched == pages < MaxPages \/ checks < MaxChecks \/ \E p \in Pages : InProgress(p)

Advance(v) == /\ Watched /\ stage[v] # "out"
              /\ \A w \in Numbers : Newer(v, w) => stage[w] = "out"
              /\ stage' = [stage EXCEPT ![v] = IF @ = "ahead" THEN "testing" ELSE "out"]
              /\ since' = [since EXCEPT ![v] = IF stage[v] = "ahead" THEN 0 ELSE clock]
              /\ UNCHANGED << clock, web >>

Tick == /\ Watched /\ clock < MaxClock /\ clock' = clock + 1
        /\ UNCHANGED << stage, since, web >>

Out     == {v \in Numbers : stage[v] = "out"}
Testing == {v \in Numbers : stage[v] = "testing"}

\* The mirror moves a release elsewhere once a newer one of its major is out.
Carried == {v \in Out : ~\E w \in Out : w[1] = v[1] /\ Newer(w, v)}

\* What a lookup reads: discover_releases, discover_prereleases.  The listing of
\* releases may carry the testing one (Debian, Ubuntu); the folder of pre-releases
\* may keep those of what is out (AlmaLinux).
ReadNow(c) == [known |-> TRUE,
               found |-> IF c = "discovery" THEN Carried
                         ELSE Testing \cup (IF KeepsOld THEN Out ELSE {}),
               left  |-> IF c = "discovery" /\ ListsTesting THEN Testing ELSE {}]
--------------------------------------------------------------------------------
(* _cached_discovery and _cached_prereleases, on a thread each. *)

Done(c, now, answer) == [pc |-> "done", answer |-> answer, at |-> 0,
                         now |-> IF c = "discovery" THEN now ELSE 0]

Cache(c) == IF c = "discovery" THEN discovery ELSE prereleases

\* A slot keeps the answers its page was made from until it is used again.
FreePages == {p \in Pages : ~InProgress(p)}

\* Slots are interchangeable.
Takes(p) == p \in FreePages /\ p = CHOOSE q \in FreePages : TRUE

\* An answer in force is used.
LookUp(c) == IF Cache(c).until > clock THEN Done(c, clock, Cache(c).answer)
             ELSE [IdleLookup EXCEPT !.pc = "ask", !.now = clock]

\* page_catalog: both lookups at the same time.
Open(p) == /\ Takes(p) /\ pages < MaxPages /\ pages' = pages + 1
           /\ page' = [page EXCEPT ![p] = [c \in Caches |-> LookUp(c)]]
           /\ UNCHANGED << world, discovery, prereleases, checks >>

\* ended_release, when an image is added: the releases only.
Check(p) == /\ Takes(p) /\ checks < MaxChecks /\ checks' = checks + 1
            /\ page' = [page EXCEPT ![p] = [discovery |-> LookUp("discovery"),
                                             prereleases |-> IdleLookup]]
            /\ UNCHANGED << world, discovery, prereleases, pages >>

AskMirror(p, c) == /\ page[p][c].pc = "ask"
                   /\ \E answer \in {Unanswered, ReadNow(c)} :
                          page' = [page EXCEPT ![p][c].pc = "store", ![p][c].answer = answer,
                                               ![p][c].at = clock]
                   /\ UNCHANGED << world, discovery, prereleases, pages, checks >>

\* Faulty variant: counted from the end of the lookup.
UntilFromNow(l) == clock + (IF l.answer.known THEN Ttl ELSE Retry)
Until(l)        == l.now + (IF l.answer.known THEN Ttl ELSE Retry)

Store(p, c) == /\ page[p][c].pc = "store"
               /\ LET kept == [until |-> Until(page[p][c]), answer |-> page[p][c].answer,
                              at |-> page[p][c].at]
                  IN IF c = "discovery" THEN discovery' = kept /\ UNCHANGED prereleases
                                        ELSE prereleases' = kept /\ UNCHANGED discovery
               /\ page' = [page EXCEPT ![p][c] = Done(c, @.now, @.answer)]
               /\ UNCHANGED << world, pages, checks >>

ReleasesNext == \/ \E v \in Numbers : Advance(v)
                \/ Tick
                \/ \E p \in Pages : \/ Open(p) \/ Check(p)
                                    \/ \E c \in Caches : AskMirror(p, c) \/ Store(p, c)
--------------------------------------------------------------------------------
(* The list a page shows, from the answers it was made with. *)

\* The elements of S, each once; SetToSortSeq, in a form that can be reasoned about.
InOrder(S, precedes(_, _)) ==
    CHOOSE s \in SetToSeqs(S) : \A i, j \in DOMAIN s : i < j => precedes(s[i], s[j])
NewestFirst(vs) == InOrder(vs, Newer)
Above(i, j)     == i < j
Offer(v, pre, default) == [version |-> v, pre |-> pre, default |-> default]
CatalogList == [i \in DOMAIN Listed |-> Offer(Listed[i], FALSE, i = 1)]

\* Faulty variant: the newest listed is the default, testing or not.
NewestListed(v, found, testing) == v = Head(NewestFirst(found \cup testing))
\* The newest that is out is the default.
IsDefault(v, found, testing) == v = Head(NewestFirst(found))

\* with_discovered: the mirror's releases, then the catalog's that it no longer has.
WithDiscovered(found, testing) ==
    LET mine == NewestFirst(found \cup testing)
        rest == InOrder({i \in DOMAIN Listed : Listed[i] \notin found \cup testing}, Above)
    IN [i \in DOMAIN mine |-> Offer(mine[i], mine[i] \in testing,
                                    IsDefault(mine[i], found, testing))]
       \o [i \in DOMAIN rest |-> CatalogList[rest[i]]]

\* Faulty variant: that very version only.
SupersededByItself(v, list) == \E i \in DOMAIN list : ~list[i].pre /\ list[i].version = v
\* _superseded: the version or a newer one of its major release is out.
Superseded(v, list) == \E i \in DOMAIN list : /\ ~list[i].pre /\ list[i].version[1] = v[1]
                                              /\ ~Newer(v, list[i].version)

WithPrereleases(list, found) ==
    LET added == NewestFirst({v \in found : ~Superseded(v, list)})
    IN [i \in DOMAIN added |-> Offer(added[i], TRUE, FALSE)] \o list

PageList(p) == LET d == page[p]["discovery"].answer
                   list == IF d.known THEN WithDiscovered(d.found, d.left) ELSE CatalogList
               IN IF page[p]["prereleases"].answer.known
                  THEN WithPrereleases(list, page[p]["prereleases"].answer.found) ELSE list

\* The page selects the first default, or the first release.
Preselected(p) ==
    LET list     == PageList(p)
        defaults == {i \in DOMAIN list : list[i].default}
    IN list[IF defaults = {} THEN 1 ELSE Min(defaults)]

\* A page whose mirror could be read.
UpToDate(p) == /\ \A c \in Caches : page[p][c].pc = "done"
               /\ page[p]["discovery"].answer.known
--------------------------------------------------------------------------------
(* Properties. *)

\* A cached answer is not used beyond _DISCOVERY_TTL after the mirror gave it, and the
\* lack of one not beyond _DISCOVERY_RETRY, however long the lookup took and whichever
\* of two lookups stored last.
AnswersAreRecent ==
    \A c \in Caches : Cache(c).until # 0 =>
        Cache(c).until <= Cache(c).at + (IF Cache(c).answer.known THEN Ttl ELSE Retry)

\* A page that could read the mirror does not offer the beta of a version that had
\* been out for _DISCOVERY_TTL, although its two lists come from lookups of different
\* ages (with_prereleases, _superseded).
BetasAreAhead ==
    \A p \in Pages : UpToDate(p) =>
        \A e \in {PageList(p)[i] : i \in DOMAIN PageList(p)} : e.pre =>
            ~\E v \in Out : /\ v[1] = e.version[1] /\ ~Newer(e.version, v)
                            /\ since[v] + Ttl <= page[p]["discovery"].now

\* A page that could read the mirror preselects the newest version that was out when
\* it was read, never a pre-release and never the catalog's older default.
PreselectedIsNewest ==
    \A p \in Pages : UpToDate(p) =>
        /\ ~Preselected(p).pre
        /\ \A v \in page[p]["discovery"].answer.found : ~Newer(v, Preselected(p).version)
================================================================================
