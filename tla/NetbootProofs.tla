----------------------------- MODULE NetbootProofs -----------------------------
(* Theorems about Catalog's part with the images: for every set of entries,    *)
(* editions and requests, every cap and every mirror.                          *)
EXTENDS Catalog, DownloadProofs, FiniteSetTheorems, SequenceTheorems

Storing(r) == req[r].pc \in {"store", "write"}
Todo(r)    == req[r].todo
JobIds(r)  == {Todo(r)[i].id : i \in DOMAIN Todo(r)}

\* One request at a time stores entries.  What it has yet to store fits under the cap
\* next to what is there; an entry that is new is the only one, and still has its id.
StoresAreSound ==
    /\ CapHolds
    /\ \A r, q \in Requests : Storing(r) /\ Storing(q) => r = q
    /\ \A r \in Requests : Storing(r) =>
           /\ Todo(r) # << >>
           /\ Cardinality(Custom \cup JobIds(r)) <= MaxCustom
           /\ \A i \in DOMAIN Todo(r) : Todo(r)[i].fresh => i = 1 /\ Todo(r)[i].id \notin Custom
    /\ \A r \in Requests : req[r].pc = "delete" => Todo(r) # << >>

\* A file that is fetched has an address.
FetchesAreKnown ==
    run.pc = "fetch" => \/ run.todo = << "archive" >> /\ image.source \in Editions
                                                      /\ run.edition \in Editions
                        \/ run.todo \in {BootFiles, << "initrd" >>} /\ run.edition \in Editions

NetbootInv == NetbootTypeOK /\ DownloadInv /\ StoresAreSound /\ FetchesAreKnown
--------------------------------------------------------------------------------
(* What the invariant is preserved by. *)

LEMMA Constants ==
    /\ LiveIso \in Editions /\ ImageId \in Ids /\ None \notin Editions
    /\ "vmlinuz" \in Names /\ "initrd" \in Names /\ "archive" \in Names
    /\ BootFiles \in Seq(Names) /\ << "archive" >> \in Seq(Names) /\ << "initrd" >> \in Seq(Names)
    /\ << >> \in Seq(Names) /\ << >> \in Seq(Jobs)
    /\ \A id \in Ids : Contents(id) \subseteq Editions
  <1>1. /\ LiveIso \in Editions /\ ImageId \in Ids /\ None \notin Editions
        /\ "vmlinuz" \in Names /\ "initrd" \in Names /\ "archive" \in Names
    BY EditionsAssumption
  <1>2. BootFiles \in Seq(Names) /\ << "archive" >> \in Seq(Names) /\ << "initrd" >> \in Seq(Names)
    BY <1>1 DEF BootFiles
  <1>3. \A id \in Ids : Contents(id) \subseteq Editions
    <2>1. (CHOOSE e \in Editions \ {LiveIso} : TRUE) \in Editions
      BY EditionsAssumption
    <2> QED
      BY <2>1 DEF Contents
  <1> QED
    BY <1>1, <1>2, <1>3

\* A request's slot that is put in order, next to a table that only lost rows.
LEMMA StateFields ==
    ASSUME NetbootTypeOK, NEW r \in Requests
    PROVE  /\ req[r] \in RequestStates
           /\ Todo(r) \in Seq(Jobs) /\ Custom \subseteq Ids
           /\ JobIds(r) \subseteq Ids
           /\ image.source \in Editions \cup {None} /\ run.edition \in Editions \cup {None}
           /\ run.todo \in Seq(Names)
  <1>1. req[r] \in RequestStates /\ Todo(r) \in Seq(Jobs)
    BY DEF NetbootTypeOK, RequestStates, Todo
  <1>2. \A i \in DOMAIN Todo(r) : Todo(r)[i].id \in Ids
    <2>1. \A s \in Seq(Jobs) : \A i \in DOMAIN s : s[i] \in Jobs
      OBVIOUS
    <2>2. \A job \in Jobs : job.id \in Ids
      BY DEF Jobs
    <2> QED
      BY <1>1, <2>1, <2>2
  <1>3. JobIds(r) \subseteq Ids
    BY <1>2 DEF JobIds
  <1> QED
    BY <1>1, <1>3 DEF NetbootTypeOK, ImageRows, RunStates, Custom

LEMMA Smaller ==
    ASSUME NEW S, NEW T, S \subseteq Ids, T \subseteq S, Cardinality(S) <= MaxCustom
    PROVE  Cardinality(T) <= MaxCustom
  <1>1. IsFiniteSet(S) /\ IsFiniteSet(T)
    BY BoundsAssumption, FS_Subset
  <1>2. Cardinality(T) <= Cardinality(S)
    BY <1>1, FS_Subset
  <1>3. Cardinality(T) \in Nat /\ Cardinality(S) \in Nat
    BY <1>1, FS_CardinalityType
  <1> QED
    BY <1>2, <1>3, BoundsAssumption

\* Nothing stored, and nothing new to store; rows may go.
LEMMA StoresSurvive ==
    ASSUME NetbootTypeOK, StoresAreSound, Custom' \subseteq Custom,
           \A r \in Requests : Storing(r)' => Storing(r) /\ Todo(r)' = Todo(r),
           \A r \in Requests : req'[r].pc = "delete" => Todo(r)' # << >>
    PROVE  StoresAreSound'
  <1>1. CapHolds'
    BY Smaller DEF StoresAreSound, CapHolds, Custom
  <1>2. ASSUME NEW r \in Requests, Storing(r)'
        PROVE  /\ Todo(r)' # << >>
               /\ Cardinality(Custom \cup JobIds(r))' <= MaxCustom
               /\ \A i \in DOMAIN Todo(r)' : Todo(r)'[i].fresh =>
                      i = 1 /\ Todo(r)'[i].id \notin Custom'
    <2>1. Storing(r) /\ Todo(r)' = Todo(r) /\ JobIds(r)' = JobIds(r)
      BY <1>2 DEF JobIds
    <2>2. Cardinality(Custom \cup JobIds(r)) <= MaxCustom
      BY <2>1 DEF StoresAreSound
    <2>3. Cardinality(Custom' \cup JobIds(r)) <= MaxCustom
      BY <2>2, StateFields, Smaller
    <2> QED
      BY <2>1, <2>3 DEF StoresAreSound
  <1>3. \A r, q \in Requests : Storing(r)' /\ Storing(q)' => r = q
    BY DEF StoresAreSound
  <1> QED
    BY <1>1, <1>2, <1>3 DEF StoresAreSound

\* A request that begins to store.
LEMMA StoresBegin ==
    ASSUME NetbootTypeOK, StoresAreSound, LoopIsFree, NEW r \in Requests,
           NEW jobs \in Seq(Jobs), Stores(r, jobs), jobs # << >>,
           Cardinality(Custom \cup {jobs[i].id : i \in DOMAIN jobs}) <= MaxCustom,
           \A i \in DOMAIN jobs : jobs[i].fresh => i = 1 /\ jobs[i].id \notin Custom
    PROVE  StoresAreSound' /\ req' \in [Requests -> RequestStates]
  <1> DEFINE new == [Idle EXCEPT !.pc = "store", !.todo = jobs]
  <1>1. new \in RequestStates /\ new.pc = "store" /\ new.todo = jobs
    BY DEF Idle, RequestStates
  <1>2. req' = [req EXCEPT ![r] = new] /\ table' = table
    BY DEF Stores
  <1> HIDE DEF new
  <1>3. req' \in [Requests -> RequestStates]
    BY <1>1, <1>2 DEF NetbootTypeOK
  <1>4. /\ \A q \in Requests : q # r => req'[q] = req[q]
        /\ req'[r] = new /\ Todo(r)' = jobs
    BY <1>1, <1>2 DEF NetbootTypeOK, Todo
  <1>5. Custom' = Custom
    BY <1>2 DEF Custom
  <1>6. \A q \in Requests : Storing(q)' => q = r
    BY <1>4 DEF Storing, LoopIsFree
  <1>7. JobIds(r)' = {jobs[i].id : i \in DOMAIN jobs}
    BY <1>4 DEF JobIds
  <1>8. CapHolds'
    BY <1>5 DEF StoresAreSound, CapHolds
  <1>9. \A q \in Requests : req'[q].pc = "delete" => Todo(q)' # << >>
    BY <1>1, <1>4 DEF StoresAreSound, Todo
  <1>10. ASSUME NEW q \in Requests, Storing(q)'
         PROVE  /\ Todo(q)' # << >>
                /\ Cardinality(Custom \cup JobIds(q))' <= MaxCustom
                /\ \A i \in DOMAIN Todo(q)' : Todo(q)'[i].fresh =>
                       i = 1 /\ Todo(q)'[i].id \notin Custom'
    <2>1. q = r
      BY <1>6, <1>10
    <2> QED
      BY <2>1, <1>4, <1>5, <1>7
  <1> QED
    BY <1>3, <1>6, <1>8, <1>9, <1>10 DEF StoresAreSound
--------------------------------------------------------------------------------
(* The catalog routes. *)

LEMMA OneJob ==
    ASSUME NEW job \in Jobs
    PROVE  /\ << job >> \in Seq(Jobs) /\ << job >> # << >>
           /\ {<< job >>[i].id : i \in DOMAIN << job >>} = {job.id}
           /\ \A i \in DOMAIN << job >> : i = 1 /\ << job >>[i] = job
  <1> DEFINE jobs == << job >>
  <1>1. jobs \in Seq(Jobs) /\ DOMAIN jobs = {1} /\ jobs[1] = job
    OBVIOUS
  <1>2. jobs # << >>
    OBVIOUS
  <1> HIDE DEF jobs
  <1>3. {jobs[i].id : i \in DOMAIN jobs} = {job.id}
    BY <1>1
  <1>4. \A i \in DOMAIN jobs : i = 1 /\ jobs[i] = job
    BY <1>1
  <1> QED
    BY <1>1, <1>2, <1>3, <1>4 DEF jobs

\* What is in order on the side of the image stays so.
LEMMA CatalogOnly ==
    ASSUME NetbootInv, UNCHANGED << downloadVars, runVars >>, StoresAreSound',
           req' \in [Requests -> RequestStates], table' \in [Ids -> Editions \cup {None}],
           made' \in 0..MaxRequests, restarts' \in 0..MaxRestarts
    PROVE  NetbootInv'
  <1>1. UNCHANGED << mirror, disk, part, call, image, run >>
    BY DEF downloadVars, runVars
  <1>2. disk' \in [Names -> {Absent} \cup {disk[n] : n \in Names}]
    BY <1>1 DEF NetbootInv, DownloadInv, DownloadTypeOK
  <1>3. DownloadInv'
    BY <1>1, <1>2, MovedIsSound DEF NetbootInv
  <1>4. NetbootTypeOK'
    BY <1>1, <1>3 DEF NetbootInv, NetbootTypeOK, DownloadInv
  <1>5. FetchesAreKnown'
    BY <1>1 DEF NetbootInv, FetchesAreKnown
  <1> QED
    BY <1>3, <1>4, <1>5 DEF NetbootInv

LEMMA Asked ==
    ASSUME NetbootInv, NEW r \in Requests, Ask(r)
    PROVE  /\ UNCHANGED << downloadVars, runVars >>
           /\ made' \in 0..MaxRequests /\ restarts' \in 0..MaxRestarts
  BY BoundsAssumption DEF NetbootInv, NetbootTypeOK, Ask

LEMMA SaveNewIsSound ==
    ASSUME NetbootInv, NEW r \in Requests, SaveNew(r)
    PROVE  NetbootInv'
  <1> USE DEF NetbootInv
  <1>a. PICK base \in Concerned : \E id \in FreeId(base) \cap Concerned : \E e \in Contents(id) :
            Stores(r, << [id |-> id, edition |-> e, fresh |-> TRUE] >>)
    BY DEF SaveNew
  <1>b. PICK id \in FreeId(base) \cap Concerned : \E e \in Contents(id) :
            Stores(r, << [id |-> id, edition |-> e, fresh |-> TRUE] >>)
    BY <1>a
  <1>1. PICK e \in Contents(id) : Stores(r, << [id |-> id, edition |-> e, fresh |-> TRUE] >>)
    BY <1>b
  <1> DEFINE job == [id |-> id, edition |-> e, fresh |-> TRUE]
  <1>2. Concerned \subseteq Ids
    BY Constants DEF Concerned
  <1>3. id \in Ids /\ id \notin Custom
    BY <1>b, <1>2 DEF FreeId
  <1>4. job \in Jobs /\ job.id = id
    BY <1>1, <1>3, Constants DEF Jobs
  <1>5. Ask(r) /\ LoopIsFree /\ Cardinality(Custom) < MaxCustom /\ Stores(r, << job >>)
    BY <1>1 DEF SaveNew
  <1> HIDE DEF job
  <1>6. IsFiniteSet(Custom) /\ Cardinality(Custom) \in Nat
    BY BoundsAssumption, StateFields, FS_Subset, FS_CardinalityType
  <1>7. Cardinality(Custom \cup {id}) <= MaxCustom
    <2>1. Cardinality(Custom \cup {id}) = Cardinality(Custom) + 1
      BY <1>3, <1>6, FS_AddElement
    <2> QED
      BY <1>5, <1>6, <2>1, BoundsAssumption
  <1>8. StoresAreSound' /\ req' \in [Requests -> RequestStates]
    BY <1>3, <1>4, <1>5, <1>7, OneJob, StoresBegin
  <1>9. table' \in [Ids -> Editions \cup {None}]
    BY <1>5 DEF Stores, NetbootTypeOK
  <1> QED
    BY <1>5, <1>8, <1>9, Asked, CatalogOnly

LEMMA SaveEditedIsSound ==
    ASSUME NetbootInv, NEW r \in Requests, SaveEdited(r)
    PROVE  NetbootInv'
  <1> USE DEF NetbootInv
  <1>a. PICK id \in Custom \cap Concerned : \E e \in Contents(id) :
            Stores(r, << [id |-> id, edition |-> e, fresh |-> FALSE] >>)
    BY DEF SaveEdited
  <1>1. PICK e \in Contents(id) : Stores(r, << [id |-> id, edition |-> e, fresh |-> FALSE] >>)
    BY <1>a
  <1> DEFINE job == [id |-> id, edition |-> e, fresh |-> FALSE]
  <1>2. job \in Jobs /\ job.id = id /\ ~job.fresh
    BY <1>1, Constants DEF Jobs, Custom
  <1>3. Ask(r) /\ LoopIsFree /\ Stores(r, << job >>)
    BY <1>1 DEF SaveEdited
  <1> HIDE DEF job
  <1>4. Custom \cup {id} = Custom
    BY <1>1
  <1>5. Cardinality(Custom \cup {id}) <= MaxCustom
    BY <1>4 DEF StoresAreSound, CapHolds
  <1>6. StoresAreSound' /\ req' \in [Requests -> RequestStates]
    BY <1>2, <1>3, <1>5, OneJob, StoresBegin
  <1>7. table' \in [Ids -> Editions \cup {None}]
    BY <1>3 DEF Stores, NetbootTypeOK
  <1> QED
    BY <1>3, <1>6, <1>7, Asked, CatalogOnly

\* SetToSeq lists the members of a set.
LEMMA Listing ==
    ASSUME NEW S, IsFiniteSet(S), S # {}
    PROVE  SetToSeq(S) \in Seq(S) /\ SetToSeq(S) # << >>
  <1>1. PICK f : f \in Bijection(1..Cardinality(S), S)
    BY FS_CardinalityType DEF ExistsBijection
  <1>2. f \in [1..Cardinality(S) -> S] /\ IsInjective(f)
    BY <1>1 DEF Bijection, Injection
  <1>3. SetToSeq(S) \in [1..Cardinality(S) -> S]
    BY <1>2 DEF SetToSeq
  <1>4. Cardinality(S) \in Nat /\ Cardinality(S) # 0
    BY FS_CardinalityType, FS_EmptySet
  <1> HIDE DEF SetToSeq
  <1>5. SetToSeq(S) \in Seq(S) /\ Len(SetToSeq(S)) = Cardinality(S)
    BY <1>3, <1>4
  <1> QED
    BY <1>4, <1>5

LEMMA ImportIsSound ==
    ASSUME NetbootInv, NEW r \in Requests, Import(r)
    PROVE  NetbootInv'
  <1> USE DEF NetbootInv
  <1>a. PICK ids \in (SUBSET Concerned) \ {{}} :
            \E new \in Parsed(ids) :
                LET list == SetToSeq(ids)
                IN /\ Cardinality(Custom \cup ids) <= MaxCustom
                   /\ Stores(r, [i \in DOMAIN list |->
                                 [id |-> list[i], edition |-> new[list[i]], fresh |-> FALSE]])
    BY DEF Import
  <1>1. PICK new \in Parsed(ids) :
            LET list == SetToSeq(ids)
            IN /\ Cardinality(Custom \cup ids) <= MaxCustom
               /\ Stores(r, [i \in DOMAIN list |->
                             [id |-> list[i], edition |-> new[list[i]], fresh |-> FALSE]])
    BY <1>a
  <1>2. Concerned \subseteq Ids
    BY Constants DEF Concerned
  <1>3. ids \subseteq Ids /\ ids # {} /\ new \in [ids -> Editions]
    BY <1>1, <1>2 DEF Parsed
  <1>4. IsFiniteSet(ids)
    BY <1>3, BoundsAssumption, FS_Subset
  <1> DEFINE list == SetToSeq(ids)
             jobs == [i \in DOMAIN list |->
                         [id |-> list[i], edition |-> new[list[i]], fresh |-> FALSE]]
  <1>5. list \in Seq(ids) /\ list # << >>
    BY <1>3, <1>4, Listing
  <1>6. Cardinality(Custom \cup ids) <= MaxCustom /\ Stores(r, jobs)
    BY <1>1
  <1> HIDE DEF list
  <1>7. \A i \in DOMAIN list : list[i] \in ids
    BY <1>5
  <1>8. \A i \in DOMAIN jobs : jobs[i] \in Jobs /\ jobs[i].id \in ids /\ ~jobs[i].fresh
    BY <1>3, <1>7 DEF Jobs
  <1>9. jobs \in Seq(Jobs) /\ jobs # << >>
    <2>1. DOMAIN jobs = 1..Len(list) /\ Len(list) \in Nat /\ Len(list) # 0
      BY <1>5
    <2>2. jobs \in [1..Len(list) -> Jobs]
      BY <1>8, <2>1
    <2> HIDE DEF jobs
    <2> QED
      BY <2>1, <2>2
  <1> HIDE DEF jobs
  <1>10. Custom \cup {jobs[i].id : i \in DOMAIN jobs} \subseteq Custom \cup ids
    BY <1>8
  <1>11. Cardinality(Custom \cup {jobs[i].id : i \in DOMAIN jobs}) <= MaxCustom
    BY <1>3, <1>6, <1>10, StateFields, Smaller
  <1>12. StoresAreSound' /\ req' \in [Requests -> RequestStates]
    BY <1>6, <1>8, <1>9, <1>11, StoresBegin DEF Import
  <1>13. table' \in [Ids -> Editions \cup {None}] /\ Ask(r)
    BY <1>6 DEF Stores, NetbootTypeOK, Import
  <1> QED
    BY <1>12, <1>13, Asked, CatalogOnly

\* A request that steps, or ends, without storing.
LEMMA StoreReadsIsSound ==
    ASSUME NetbootInv, NEW r \in Requests, StoreReads(r)
    PROVE  NetbootInv'
  <1> USE DEF NetbootInv
  <1> DEFINE seen == Head(req[r].todo).id \in Custom
             new  == [req[r] EXCEPT !.pc = "write", !.seen = seen]
  <1>1. req' = [req EXCEPT ![r] = new] /\ UNCHANGED << downloadVars, runVars, table, made, restarts >>
    BY DEF StoreReads
  <1>2. seen \in BOOLEAN
    OBVIOUS
  <1>3. req[r].pc = "store"
    BY DEF StoreReads
  <1> HIDE DEF seen
  <1>4. new \in RequestStates /\ new.todo = Todo(r) /\ new.pc = "write"
    BY <1>2, StateFields DEF RequestStates, Todo
  <1> HIDE DEF new
  <1>5. req' \in [Requests -> RequestStates]
    BY <1>1, <1>4 DEF NetbootTypeOK
  <1>6. req'[r] = new /\ \A q \in Requests : q # r => req'[q] = req[q]
    BY <1>1 DEF NetbootTypeOK
  <1>7. \A q \in Requests : Storing(q)' => Storing(q) /\ Todo(q)' = Todo(q)
    BY <1>3, <1>4, <1>6 DEF Storing, Todo
  <1>8. \A q \in Requests : req'[q].pc = "delete" => Todo(q)' # << >>
    BY <1>4, <1>6 DEF StoresAreSound, Todo
  <1>9. Custom' = Custom
    BY <1>1 DEF Custom
  <1>10. StoresAreSound'
    BY <1>7, <1>8, <1>9, StoresSurvive
  <1> QED
    BY <1>1, <1>5, <1>10, CatalogOnly DEF NetbootTypeOK

LEMMA TheRest ==
    ASSUME NEW S, NEW s \in Seq(S), s # << >>, Len(s) # 1
    PROVE  /\ Tail(s) \in Seq(S) /\ Tail(s) # << >>
           /\ \A i \in DOMAIN Tail(s) : i + 1 \in DOMAIN s /\ i + 1 # 1 /\ Tail(s)[i] = s[i + 1]
  <1>1. Len(s) \in Nat /\ Len(s) > 1 /\ DOMAIN s = 1..Len(s)
    <2>1. Len(s) \in Nat \ {0}
      BY EmptySeq
    <2> QED
      BY <2>1
  <1>2. Tail(s) \in Seq(S) /\ Len(Tail(s)) = Len(s) - 1
    BY <1>1
  <1>3. \A i \in 1..Len(Tail(s)) : Tail(s)[i] = s[i + 1]
    BY <1>1, <1>2
  <1>4. DOMAIN Tail(s) = 1..Len(Tail(s)) /\ Tail(s) # << >>
    BY <1>1, <1>2
  <1> QED
    BY <1>1, <1>2, <1>3, <1>4

LEMMA IdleRequest == Idle \in RequestStates /\ Idle.pc = "idle"
  BY Constants DEF Idle, RequestStates

LEMMA StoreCommitsIsSound ==
    ASSUME NetbootInv, NEW r \in Requests, StoreCommits(r)
    PROVE  NetbootInv'
  <1> USE DEF NetbootInv
  <1> DEFINE todo == Todo(r)
             job  == Head(todo)
             lost == req[r].seen /\ job.id \notin Custom
             more == [Idle EXCEPT !.pc = "store", !.todo = Tail(todo)]
  <1>1. /\ req[r].pc = "write"
        /\ table' = IF lost THEN table ELSE [table EXCEPT ![job.id] = job.edition]
        /\ req' = [req EXCEPT ![r] = IF lost \/ Len(todo) = 1 THEN Idle ELSE more]
        /\ UNCHANGED << downloadVars, runVars, made, restarts >>
    BY DEF StoreCommits, Todo
  <1>2. /\ todo \in Seq(Jobs) /\ todo # << >>
        /\ Cardinality(Custom \cup JobIds(r)) <= MaxCustom
        /\ \A i \in DOMAIN todo : todo[i].fresh => i = 1
        /\ \A q \in Requests : Storing(q) => q = r
    BY <1>1, StateFields DEF StoresAreSound, Storing
  <1>3. job \in Jobs /\ job = todo[1] /\ 1 \in DOMAIN todo
    BY <1>2
  <1>4. job.id \in Ids /\ job.edition \in Editions /\ job.id \in JobIds(r)
    BY <1>3 DEF Jobs, JobIds
  <1> HIDE DEF job, todo
  <1>5. table' \in [Ids -> Editions \cup {None}] /\ Custom' \subseteq Custom \cup {job.id}
    BY <1>1, <1>4 DEF NetbootTypeOK, Custom
  <1>6. Custom' \subseteq Custom \cup JobIds(r) /\ Custom \cup JobIds(r) \subseteq Ids
    BY <1>4, <1>5, StateFields
  <1>7. CapHolds'
    <2>1. Cardinality(Custom') <= MaxCustom
      BY <1>2, <1>6, Smaller
    <2> QED
      BY <2>1 DEF CapHolds
  <1>8. CASE lost \/ Len(todo) = 1
    <2>1. req' = [req EXCEPT ![r] = Idle]
      BY <1>1, <1>8
    <2>2. /\ req' \in [Requests -> RequestStates]
          /\ req'[r] = Idle /\ \A q \in Requests : q # r => req'[q] = req[q]
      BY <2>1, IdleRequest DEF NetbootTypeOK
    <2>3. \A q \in Requests : ~Storing(q)'
      BY <1>2, <2>2, IdleRequest DEF Storing
    <2>4. \A q \in Requests : req'[q].pc = "delete" => Todo(q)' # << >>
      BY <2>2, IdleRequest DEF StoresAreSound, Todo
    <2>5. StoresAreSound'
      BY <1>7, <2>3, <2>4 DEF StoresAreSound
    <2> QED
      BY <1>1, <1>5, <2>2, <2>5, CatalogOnly DEF NetbootTypeOK
  <1>9. CASE ~(lost \/ Len(todo) = 1)
    <2>1. req' = [req EXCEPT ![r] = more]
      BY <1>1, <1>9
    <2>2. /\ Tail(todo) \in Seq(Jobs) /\ Tail(todo) # << >>
          /\ \A i \in DOMAIN Tail(todo) : i + 1 \in DOMAIN todo /\ i + 1 # 1
                                          /\ Tail(todo)[i] = todo[i + 1]
      BY <1>2, <1>9, TheRest
    <2>3. more \in RequestStates /\ more.pc = "store" /\ more.todo = Tail(todo)
      BY <2>2 DEF Idle, RequestStates
    <2> HIDE DEF more
    <2>4. /\ req' \in [Requests -> RequestStates]
          /\ req'[r] = more /\ \A q \in Requests : q # r => req'[q] = req[q]
      BY <2>1, <2>3 DEF NetbootTypeOK
    <2>5. Todo(r)' = Tail(todo) /\ \A q \in Requests : Storing(q)' => q = r
      BY <1>2, <2>3, <2>4 DEF Storing, Todo
    <2>6. \A i \in DOMAIN Tail(todo) : Tail(todo)[i].id \in JobIds(r) /\ ~Tail(todo)[i].fresh
      BY <1>2, <2>2 DEF JobIds, todo
    <2>7. JobIds(r)' \subseteq JobIds(r)
      BY <2>5, <2>6 DEF JobIds
    <2>8. Cardinality(Custom' \cup JobIds(r)') <= MaxCustom
      BY <1>2, <1>6, <2>7, Smaller
    <2>9. \A q \in Requests : req'[q].pc = "delete" => Todo(q)' # << >>
      BY <2>3, <2>4 DEF StoresAreSound, Todo
    <2>10. StoresAreSound'
      BY <1>7, <2>2, <2>5, <2>6, <2>8, <2>9 DEF StoresAreSound
    <2> QED
      BY <1>1, <1>5, <2>4, <2>10, CatalogOnly DEF NetbootTypeOK
  <1> QED
    BY <1>8, <1>9

LEMMA DeleteReadsIsSound ==
    ASSUME NetbootInv, NEW r \in Requests, DeleteReads(r)
    PROVE  NetbootInv'
  <1> USE DEF NetbootInv
  <1>1. PICK id \in Custom \cap Concerned :
            req' = [req EXCEPT ![r] = [Idle EXCEPT !.pc = "delete",
                        !.todo = << [id |-> id, edition |-> LiveIso, fresh |-> FALSE] >>]]
    BY DEF DeleteReads
  <1> DEFINE job == [id |-> id, edition |-> LiveIso, fresh |-> FALSE]
             new == [Idle EXCEPT !.pc = "delete", !.todo = << job >>]
  <1>2. req' = [req EXCEPT ![r] = new] /\ table' = table /\ Ask(r)
    BY <1>1 DEF DeleteReads
  <1>3. job \in Jobs
    BY Constants DEF Jobs, Custom
  <1> HIDE DEF job
  <1>4. new \in RequestStates /\ new.pc = "delete" /\ new.todo # << >>
    BY <1>3, OneJob DEF Idle, RequestStates
  <1> HIDE DEF new
  <1>5. /\ req' \in [Requests -> RequestStates]
        /\ req'[r] = new /\ \A q \in Requests : q # r => req'[q] = req[q]
    BY <1>2, <1>4 DEF NetbootTypeOK
  <1>6. \A q \in Requests : Storing(q)' => Storing(q) /\ Todo(q)' = Todo(q)
    BY <1>4, <1>5 DEF Storing, Todo
  <1>7. \A q \in Requests : req'[q].pc = "delete" => Todo(q)' # << >>
    BY <1>4, <1>5 DEF StoresAreSound, Todo
  <1>8. StoresAreSound'
    BY <1>2, <1>6, <1>7, StoresSurvive DEF Custom
  <1> QED
    BY <1>2, <1>5, <1>8, Asked, CatalogOnly DEF NetbootTypeOK

LEMMA DeleteCommitsIsSound ==
    ASSUME NetbootInv, NEW r \in Requests, DeleteCommits(r)
    PROVE  NetbootInv'
  <1> USE DEF NetbootInv
  <1>1. /\ table' = [table EXCEPT ![Head(req[r].todo).id] = None]
        /\ req' = [req EXCEPT ![r] = Idle]
        /\ UNCHANGED << downloadVars, runVars, made, restarts >>
    BY DEF DeleteCommits
  <1>2. table' \in [Ids -> Editions \cup {None}] /\ Custom' \subseteq Custom
    BY <1>1 DEF NetbootTypeOK, Custom
  <1>3. /\ req' \in [Requests -> RequestStates]
        /\ req'[r] = Idle /\ \A q \in Requests : q # r => req'[q] = req[q]
    BY <1>1, IdleRequest DEF NetbootTypeOK
  <1>4. \A q \in Requests : Storing(q)' => Storing(q) /\ Todo(q)' = Todo(q)
    BY <1>3, IdleRequest DEF Storing, Todo
  <1>5. \A q \in Requests : req'[q].pc = "delete" => Todo(q)' # << >>
    BY <1>3, IdleRequest DEF StoresAreSound, Todo
  <1>6. StoresAreSound'
    BY <1>2, <1>4, <1>5, StoresSurvive
  <1> QED
    BY <1>1, <1>2, <1>3, <1>6, CatalogOnly DEF NetbootTypeOK
--------------------------------------------------------------------------------
(* The image, its run and its downloads. *)

\* What is in order on the side of the catalog stays so.
LEMMA ImageOnly ==
    ASSUME NetbootInv, UNCHANGED catalogVars, DownloadInv', FetchesAreKnown',
           image' \in ImageRows, run' \in RunStates,
           made' \in 0..MaxRequests, restarts' \in 0..MaxRestarts
    PROVE  NetbootInv'
  <1>1. table' = table /\ req' = req
    BY DEF catalogVars
  <1>2. StoresAreSound'
    BY <1>1, StoresSurvive DEF NetbootInv, StoresAreSound, Storing, Todo, Custom
  <1> QED
    BY <1>1, <1>2 DEF NetbootInv, NetbootTypeOK, DownloadInv

\* Downloads are in order when files are removed or stay, and a call is lost or goes on.
LEMMA FilesGo ==
    ASSUME NetbootInv, UNCHANGED << mirror, part >>, call' \in {call, NoCall},
           disk' = disk \/ \E names : disk' = Without(names)
    PROVE  DownloadInv'
  <1>1. disk' \in [Names -> {Absent} \cup {disk[n] : n \in Names}]
    BY DEF Without, NetbootInv, NetbootTypeOK, DownloadTypeOK
  <1> QED
    BY <1>1, MovedIsSound DEF NetbootInv

LEMMA Rows ==
    /\ NoImage \in ImageRows /\ IdleRun \in RunStates /\ IdleRun.pc = "idle"
    /\ \A e \in Editions : Queued(e) \in ImageRows
    /\ \A i \in ImageRows, st \in Statuses : [i EXCEPT !.status = st] \in ImageRows
  <1>1. NoImage \in ImageRows /\ IdleRun \in RunStates /\ IdleRun.pc = "idle"
    BY Constants DEF NoImage, ImageRows, IdleRun, RunStates, Statuses
  <1>2. ASSUME NEW e \in Editions PROVE Queued(e) \in ImageRows
    BY DEF Queued, ImageRows, Statuses
  <1>3. ASSUME NEW i \in ImageRows, NEW st \in Statuses
        PROVE  [i EXCEPT !.status = st] \in ImageRows
    BY DEF ImageRows
  <1> QED
    BY <1>1, <1>2, <1>3

\* Steps of an admin on the image.
LEMMA ImageRequest ==
    ASSUME NetbootInv, OnImage
    PROVE  UNCHANGED catalogVars /\ made' \in 0..MaxRequests /\ restarts' \in 0..MaxRestarts
  BY BoundsAssumption DEF NetbootInv, NetbootTypeOK, OnImage

LEMMA AddIsSound ==
    ASSUME NetbootInv, NEW live \in BOOLEAN, Add(live)
    PROVE  NetbootInv'
  <1>1. /\ OnImage /\ run.pc = "idle" /\ UNCHANGED << mirror, disk, part, call, run >>
        /\ image' = Queued(IF live THEN LiveIso ELSE table[ImageId])
        /\ live \/ ImageId \in Custom
    BY DEF Add, downloadVars
  <1>2. (IF live THEN LiveIso ELSE table[ImageId]) \in Editions
    BY <1>1, Constants DEF NetbootInv, NetbootTypeOK, Custom
  <1>3. image' \in ImageRows /\ run' \in RunStates
    BY <1>1, <1>2, Rows DEF NetbootInv, NetbootTypeOK
  <1>4. DownloadInv' /\ FetchesAreKnown'
    BY <1>1, FilesGo DEF FetchesAreKnown
  <1> QED
    BY <1>1, <1>3, <1>4, ImageRequest, ImageOnly

LEMMA ReprocessIsSound ==
    ASSUME NetbootInv, Reprocess
    PROVE  NetbootInv'
  <1>1. /\ OnImage /\ run.pc = "idle" /\ UNCHANGED << mirror, disk, part, call, run >>
        /\ image' = [image EXCEPT !.status = "pending"]
    BY DEF Reprocess, downloadVars
  <1>2. image' \in ImageRows /\ run' \in RunStates
    BY <1>1, Rows DEF NetbootInv, NetbootTypeOK, Statuses
  <1>3. DownloadInv' /\ FetchesAreKnown'
    BY <1>1, FilesGo DEF FetchesAreKnown
  <1> QED
    BY <1>1, <1>2, <1>3, ImageRequest, ImageOnly

LEMMA DeleteImageIsSound ==
    ASSUME NetbootInv, DeleteImage
    PROVE  NetbootInv'
  <1>1. CASE run.pc = "idle"
    <2>1. OnImage /\ image' = NoImage /\ disk' = Without(Names) /\ UNCHANGED << run, mirror, part, call >>
      BY <1>1 DEF DeleteImage
    <2>2. DownloadInv'
      BY <2>1, FilesGo
    <2>3. FetchesAreKnown' /\ image' \in ImageRows /\ run' \in RunStates
      BY <1>1, <2>1, Rows DEF FetchesAreKnown, NetbootInv, NetbootTypeOK
    <2> QED
      BY <2>1, <2>2, <2>3, ImageRequest, ImageOnly
  <1>2. CASE run.pc # "idle"
    <2>1. /\ OnImage /\ image' = [image EXCEPT !.status = "deleting"]
          /\ run' = [run EXCEPT !.stop = TRUE] /\ UNCHANGED << mirror, disk, part, call >>
      BY <1>2 DEF DeleteImage, downloadVars
    <2>2. DownloadInv' /\ image' \in ImageRows
      BY <2>1, FilesGo, Rows DEF NetbootInv, NetbootTypeOK, Statuses
    <2>3. run' \in RunStates
      BY <2>1 DEF NetbootInv, NetbootTypeOK, RunStates
    <2>4. /\ run'.pc = run.pc /\ run'.todo = run.todo /\ run'.edition = run.edition
          /\ image'.source = image.source
      BY <2>1 DEF NetbootInv, NetbootTypeOK, RunStates, ImageRows
    <2>5. FetchesAreKnown'
      BY <2>4 DEF NetbootInv, FetchesAreKnown
    <2> QED
      BY <2>1, <2>2, <2>3, <2>5, ImageRequest, ImageOnly
  <1> QED
    BY <1>1, <1>2

\* A step of the run.
LEMMA RunRequest ==
    ASSUME NetbootInv, RunOnly
    PROVE  UNCHANGED catalogVars /\ made' \in 0..MaxRequests /\ restarts' \in 0..MaxRestarts
  BY DEF NetbootInv, NetbootTypeOK, RunOnly

LEMMA BeginIsSound ==
    ASSUME NetbootInv, Begin, RunOnly
    PROVE  NetbootInv'
  <1>1. /\ image' = [image EXCEPT !.status = "processing"]
        /\ run' = [IdleRun EXCEPT !.pc = "lookup"]
        /\ disk' = Without({"vmlinuz", "initrd"}) /\ UNCHANGED << mirror, part, call >>
    BY DEF Begin
  <1>2. run' \in RunStates /\ run'.pc = "lookup"
    BY <1>1, Constants DEF IdleRun, RunStates
  <1>3. image' \in ImageRows
    BY <1>1, Rows DEF NetbootInv, NetbootTypeOK, Statuses
  <1>4. DownloadInv' /\ FetchesAreKnown'
    BY <1>1, <1>2, FilesGo DEF FetchesAreKnown
  <1> QED
    BY <1>2, <1>3, <1>4, RunRequest, ImageOnly

\* A run that ends without its files.
LEMMA FailsIsTyped ==
    ASSUME NetbootInv, Fails
    PROVE  run' \in RunStates /\ run'.pc = "end"
  BY Constants DEF Fails, NetbootInv, NetbootTypeOK, RunStates

LEMMA LookupIsSound ==
    ASSUME NetbootInv, Lookup, RunOnly
    PROVE  NetbootInv'
  <1>1. UNCHANGED << mirror, disk, part, call, image >>
    BY DEF Lookup, downloadVars
  <1>2. image' \in ImageRows /\ DownloadInv'
    BY <1>1, FilesGo DEF NetbootInv, NetbootTypeOK
  <1>3. CASE Entry = None
    <2>1. run' \in RunStates /\ run'.pc = "end"
      BY <1>3, FailsIsTyped DEF Lookup
    <2> QED
      BY <1>2, <2>1, RunRequest, ImageOnly DEF FetchesAreKnown
  <1>4. CASE Entry # None
    <2> DEFINE fetched == IF Entry \notin Archived THEN BootFiles
                          ELSE IF image.source # None /\ ~disk["archive"].there
                               THEN << "archive" >> ELSE << >>
               pc == IF fetched = << >> THEN "extract" ELSE "fetch"
    <2>1. run' = [run EXCEPT !.pc = pc, !.edition = Entry, !.todo = fetched]
      BY <1>4 DEF Lookup
    <2>2. Entry \in Editions
      BY <1>4, Constants DEF Entry, NetbootInv, NetbootTypeOK
    <2>3. fetched \in Seq(Names) /\ fetched \in {BootFiles, << "archive" >>, << >>}
      BY Constants
    <2>4. fetched = << "archive" >> => image.source \in Editions
      BY StateFields DEF BootFiles, NetbootInv, NetbootTypeOK, ImageRows
    <2>5. pc \in {"extract", "fetch"} /\ (pc = "fetch" => fetched # << >>)
      OBVIOUS
    <2> HIDE DEF fetched, pc
    <2>6. run' \in RunStates /\ run'.pc = pc /\ run'.edition = Entry /\ run'.todo = fetched
      BY <2>1, <2>2, <2>3, <2>5 DEF NetbootInv, NetbootTypeOK, RunStates
    <2>7. FetchesAreKnown'
      BY <1>1, <2>2, <2>3, <2>4, <2>5, <2>6 DEF FetchesAreKnown
    <2> QED
      BY <1>2, <2>6, <2>7, RunRequest, ImageOnly
  <1> QED
    BY <1>3, <1>4

\* What is left to fetch, one file at a time.
LEMMA Queue ==
    /\ Head(BootFiles) = "vmlinuz" /\ Tail(BootFiles) = << "initrd" >> /\ Len(BootFiles) = 2
    /\ Head(<< "initrd" >>) = "initrd" /\ Len(<< "initrd" >>) = 1
    /\ Head(<< "archive" >>) = "archive" /\ Len(<< "archive" >>) = 1
    /\ Tail(<< "initrd" >>) = << >> /\ Tail(<< "archive" >>) = << >>
  BY DEF BootFiles

LEMMA DownloadIsSound ==
    ASSUME NetbootInv, Download, RunOnly
    PROVE  NetbootInv'
  <1>1. run.pc = "fetch" /\ Fetch(NextUrl, Head(run.todo)) /\ image' = image /\ run' = run
    BY DEF Download, runVars
  <1>2. Head(run.todo) \in Names
    BY <1>1, Constants, Queue DEF NetbootInv, FetchesAreKnown
  <1>3. NextUrl \in Urls
    <2>1. (IF Head(run.todo) = "archive" THEN image.source ELSE run.edition) \in Editions
      BY <1>1, Queue DEF NetbootInv, FetchesAreKnown
    <2> QED
      BY <1>2, <2>1, EditionsAssumption DEF NextUrl
  <1>4. DownloadInv'
    BY <1>1, <1>2, <1>3, FetchIsSound DEF NetbootInv
  <1>5. FetchesAreKnown' /\ image' \in ImageRows /\ run' \in RunStates
    BY <1>1 DEF NetbootInv, NetbootTypeOK, FetchesAreKnown
  <1> QED
    BY <1>4, <1>5, RunRequest, ImageOnly

LEMMA FetchedIsSound ==
    ASSUME NetbootInv, Fetched, RunOnly
    PROVE  NetbootInv'
  <1>1. run.pc = "fetch" /\ call' = NoCall /\ UNCHANGED << image, mirror, disk, part >>
    BY DEF Fetched
  <1>2. image' \in ImageRows /\ DownloadInv'
    BY <1>1, FilesGo DEF NetbootInv, NetbootTypeOK
  <1>3. CASE call.name # "archive" /\ ~Accepted(call.name)
    <2>1. run' \in RunStates /\ run'.pc = "end"
      BY <1>3, FailsIsTyped DEF Fetched
    <2> QED
      BY <1>2, <2>1, RunRequest, ImageOnly DEF FetchesAreKnown
  <1>4. CASE ~(call.name # "archive" /\ ~Accepted(call.name))
    <2> DEFINE pc == IF Len(run.todo) > 1 THEN "fetch"
                     ELSE IF call.name = "archive" THEN "extract" ELSE "end"
    <2>1. run' = [run EXCEPT !.todo = Tail(run.todo), !.pc = pc]
      BY <1>4 DEF Fetched
    <2>2. run.todo \in {BootFiles, << "initrd" >>, << "archive" >>} /\ run.edition \in Editions
      BY <1>1 DEF NetbootInv, FetchesAreKnown
    <2>3. Tail(run.todo) \in Seq(Names)
      BY <2>2, Queue, Constants
    <2>4. pc = "fetch" => Tail(run.todo) = << "initrd" >>
      <3>1. pc = "fetch" => Len(run.todo) > 1
        OBVIOUS
      <3>2. run.todo = BootFiles \/ Len(run.todo) = 1
        BY <2>2, Queue
      <3>3. ~(1 > 1)
        OBVIOUS
      <3>4. pc = "fetch" => run.todo = BootFiles
        BY <3>1, <3>2, <3>3
      <3>5. Tail(BootFiles) = << "initrd" >>
        BY Queue
      <3> HIDE DEF pc
      <3> QED
        BY <3>4, <3>5
    <2>5. pc \in {"fetch", "extract", "end"}
      OBVIOUS
    <2> HIDE DEF pc
    <2>6. /\ run' \in RunStates /\ run'.pc = pc /\ run'.edition = run.edition
          /\ run'.todo = Tail(run.todo)
      BY <2>1, <2>3, <2>5 DEF NetbootInv, NetbootTypeOK, RunStates
    <2>7. FetchesAreKnown'
      BY <2>2, <2>4, <2>6 DEF FetchesAreKnown
    <2> QED
      BY <1>2, <2>6, <2>7, RunRequest, ImageOnly
  <1> QED
    BY <1>3, <1>4

LEMMA NotFetchedIsSound ==
    ASSUME NetbootInv, NotFetched, RunOnly
    PROVE  NetbootInv'
  <1>1. Fails /\ call' = NoCall /\ UNCHANGED << image, mirror, disk, part >>
    BY DEF NotFetched
  <1>2. image' \in ImageRows /\ DownloadInv'
    BY <1>1, FilesGo DEF NetbootInv, NetbootTypeOK
  <1> QED
    BY <1>1, <1>2, FailsIsTyped, RunRequest, ImageOnly DEF FetchesAreKnown

LEMMA ExtractIsSound ==
    ASSUME NetbootInv, Extract, RunOnly
    PROVE  NetbootInv'
  <1>1. run.pc = "extract" /\ UNCHANGED << image, mirror, part, call >>
    BY DEF Extract
  <1>2. run' \in RunStates /\ run'.pc = "end"
    BY FailsIsTyped DEF Extract, NetbootInv, NetbootTypeOK, RunStates
  <1>3. disk' \in [Names -> {Absent} \cup {disk[n] : n \in Names}]
    BY Constants DEF Extract, FromArchive, FromLiveIso, NetbootInv, NetbootTypeOK, DownloadTypeOK
  <1>4. DownloadInv'
    BY <1>1, <1>3, MovedIsSound DEF NetbootInv
  <1>5. image' \in ImageRows
    BY <1>1 DEF NetbootInv, NetbootTypeOK
  <1> QED
    BY <1>2, <1>4, <1>5, RunRequest, ImageOnly DEF FetchesAreKnown

LEMMA EndOfRunIsSound ==
    ASSUME NetbootInv, End, RunOnly
    PROVE  NetbootInv'
  <1>1. run' = IdleRun /\ UNCHANGED << mirror, part, call >>
    BY DEF End
  <1>2. disk' = disk \/ \E names : disk' = Without(names)
    BY DEF End
  <1>3. image' \in ImageRows
    <2> DEFINE st == IF run.edition = None THEN "error" ELSE "ready"
               args == IF run.edition = None THEN image.args ELSE run.edition
    <2>1. image' = NoImage \/ image' = [image EXCEPT !.status = st, !.args = args]
      BY DEF End, Args
    <2>2. st \in Statuses
      BY DEF Statuses
    <2>3. args \in Editions \cup {None}
      BY DEF NetbootInv, NetbootTypeOK, ImageRows, RunStates
    <2> HIDE DEF st, args
    <2>4. CASE image' = NoImage
      BY <2>4, Rows
    <2>5. CASE image' = [image EXCEPT !.status = st, !.args = args]
      BY <2>2, <2>3, <2>5 DEF NetbootInv, NetbootTypeOK, ImageRows
    <2> QED
      BY <2>1, <2>4, <2>5
  <1>4. DownloadInv' /\ FetchesAreKnown' /\ run' \in RunStates
    BY <1>1, <1>2, FilesGo, Rows DEF FetchesAreKnown
  <1> QED
    BY <1>3, <1>4, RunRequest, ImageOnly

LEMMA BytesAreSound ==
    ASSUME NetbootInv, DownloadStep(run.stop), RunOnly, UNCHANGED runVars
    PROVE  NetbootInv'
  <1>1. run.stop \in BOOLEAN
    BY DEF NetbootInv, NetbootTypeOK, RunStates
  <1>2. DownloadInv'
    BY <1>1, StepIsSound DEF NetbootInv
  <1>3. FetchesAreKnown' /\ image' \in ImageRows /\ run' \in RunStates
    BY DEF NetbootInv, NetbootTypeOK, FetchesAreKnown, runVars
  <1> QED
    BY <1>2, <1>3, RunRequest, ImageOnly

LEMMA RunStepIsSound ==
    ASSUME NetbootInv, RunStep
    PROVE  NetbootInv'
  BY BeginIsSound, LookupIsSound, DownloadIsSound, FetchedIsSound, NotFetchedIsSound,
     ExtractIsSound, EndOfRunIsSound, BytesAreSound DEF RunStep

LEMMA RestartIsSound ==
    ASSUME NetbootInv, Restart
    PROVE  NetbootInv'
  <1> USE DEF NetbootInv
  <1>1. /\ req' = [r \in Requests |-> Idle] /\ run' = IdleRun /\ call' = NoCall
        /\ UNCHANGED << mirror, part, table, made >> /\ restarts' \in 0..MaxRestarts
    BY BoundsAssumption DEF Restart, NetbootTypeOK
  <1>2. disk' = disk \/ \E names : disk' = Without(names)
    BY DEF Restart
  <1>3. DownloadInv' /\ FetchesAreKnown' /\ run' \in RunStates
    BY <1>1, <1>2, FilesGo, Rows DEF FetchesAreKnown
  <1>4. image' \in ImageRows
    <2> DEFINE st == IF image.status \in {"pending", "processing"} THEN "needs_reprocess"
                     ELSE image.status
    <2>1. image' = NoImage \/ image' = [image EXCEPT !.status = st]
      BY DEF Restart
    <2>2. st \in Statuses
      BY DEF Statuses, NetbootTypeOK, ImageRows
    <2> HIDE DEF st
    <2> QED
      BY <2>1, <2>2, Rows DEF NetbootTypeOK
  <1>5. req' \in [Requests -> RequestStates] /\ \A r \in Requests : req'[r] = Idle
    BY <1>1, IdleRequest
  <1>6. StoresAreSound'
    <2>1. \A r \in Requests : ~Storing(r)' /\ req'[r].pc # "delete"
      BY <1>5, IdleRequest DEF Storing
    <2>2. Custom' = Custom
      BY <1>1 DEF Custom
    <2> QED
      BY <2>1, <2>2, StoresSurvive
  <1> QED
    BY <1>1, <1>3, <1>4, <1>5, <1>6 DEF NetbootTypeOK, DownloadInv

LEMMA PublishedIsSound ==
    ASSUME NetbootInv, NEW u \in Urls, Publish(u), RunOnly, UNCHANGED runVars
    PROVE  NetbootInv'
  <1>1. DownloadInv'
    BY PublishIsSound DEF NetbootInv
  <1>2. FetchesAreKnown' /\ image' \in ImageRows /\ run' \in RunStates
    BY DEF NetbootInv, NetbootTypeOK, FetchesAreKnown, runVars
  <1> QED
    BY <1>1, <1>2, RunRequest, ImageOnly
--------------------------------------------------------------------------------
(* The theorems. *)

LEMMA BeforeIsSound == NetbootInit => NetbootInv
  <1> SUFFICES ASSUME NetbootInit PROVE NetbootInv
      OBVIOUS
  <1>1. PICK e \in Contents(ImageId) :
            /\ table = [id \in Ids |-> IF id = ImageId THEN e ELSE None]
            /\ image \in {NoImage, Queued(e), Queued(LiveIso)}
    BY DEF NetbootInit
  <1>2. e \in Editions
    BY <1>1, Constants
  <1>3. image \in ImageRows /\ run \in RunStates /\ run.pc = "idle"
    BY <1>1, <1>2, Rows, Constants DEF NetbootInit
  <1>4. req \in [Requests -> RequestStates] /\ \A r \in Requests : req[r] = Idle
    BY IdleRequest DEF NetbootInit
  <1>5. table \in [Ids -> Editions \cup {None}] /\ Custom = {ImageId}
    BY <1>1, <1>2, Constants DEF Custom
  <1>6. CapHolds
    <2>1. Cardinality({ImageId}) = 1
      BY FS_Singleton
    <2> QED
      BY <1>5, <2>1, BoundsAssumption DEF CapHolds
  <1>7. StoresAreSound
    BY <1>4, <1>6, IdleRequest DEF StoresAreSound, Storing
  <1>8. DownloadInv
    BY InitIsSound DEF NetbootInit
  <1>9. made \in 0..MaxRequests /\ restarts \in 0..MaxRestarts
    BY BoundsAssumption DEF NetbootInit
  <1> QED
    BY <1>3, <1>4, <1>5, <1>7, <1>8, <1>9
       DEF NetbootInv, NetbootTypeOK, FetchesAreKnown, DownloadInv

LEMMA NextIsSound == NetbootInv /\ [Next]_vars => NetbootInv'
  <1> SUFFICES ASSUME NetbootInv, [Next]_vars PROVE NetbootInv'
      OBVIOUS
  <1>1. ASSUME UNCHANGED netbootVars PROVE NetbootInv'
    <2>1. UNCHANGED << mirror, disk, part, call, table, req, image, run, made, restarts >>
      BY <1>1 DEF netbootVars, downloadVars, catalogVars, runVars
    <2>2. DownloadInv'
      BY <2>1, FilesGo
    <2> QED
      BY <2>1, <2>2, ImageOnly DEF NetbootInv, NetbootTypeOK, FetchesAreKnown, catalogVars
  <1>2. ASSUME NetbootNext PROVE NetbootInv'
    <2>1. CASE \E r \in Requests : \/ SaveNew(r) \/ SaveEdited(r) \/ Import(r)
                                   \/ DeleteReads(r) \/ StoreReads(r)
                                   \/ StoreCommits(r) \/ DeleteCommits(r)
      BY <2>1, SaveNewIsSound, SaveEditedIsSound, ImportIsSound, DeleteReadsIsSound,
         StoreReadsIsSound, StoreCommitsIsSound, DeleteCommitsIsSound
    <2>2. CASE Add(FALSE) \/ Add(TRUE)
      BY <2>2, AddIsSound
    <2>3. CASE Reprocess
      BY <2>3, ReprocessIsSound
    <2>4. CASE DeleteImage
      BY <2>4, DeleteImageIsSound
    <2>5. CASE RunStep
      BY <2>5, RunStepIsSound
    <2>6. CASE Restart
      BY <2>6, RestartIsSound
    <2>7. CASE \E u \in Urls : MayPublish /\ Publish(u) /\ RunOnly /\ UNCHANGED runVars
      BY <2>7, PublishedIsSound
    <2> QED
      BY <1>2, <2>1, <2>2, <2>3, <2>4, <2>5, <2>6, <2>7 DEF NetbootNext
  <1> QED
    BY <1>1, <1>2 DEF Next, vars

\* The invariant of the images' part of the catalog.
THEOREM CatalogInvariant == Spec => []NetbootInv
  <1>1. Init => NetbootInv
    BY BeforeIsSound DEF Init
  <1> QED
    BY <1>1, NextIsSound, PTL DEF Spec

\* No file that a download put in place is short, long, mixed up or above the size
\* cap, whatever the mirror, the connection, an admin or a restart did
\* (netboot.download).
THEOREM DownloadsAreWhole == Spec => []FilesAreWhole
  <1>1. NetbootInv => FilesAreWhole
    BY DEF NetbootInv, DownloadInv
  <1> QED
    BY <1>1, CatalogInvariant, PTL

\* The cap on custom entries holds for every number of admins (save_entry,
\* import_entries, delete_entry).
THEOREM CapIsKept == Spec => []CapHolds
  <1>1. NetbootInv => CapHolds
    BY DEF NetbootInv, StoresAreSound
  <1> QED
    BY <1>1, CatalogInvariant, PTL

\* No admin's new entry replaces an entry (free_entry_id, store_entry).
THEOREM NewEntriesAreNew == Spec => []NewIsNew
  <1>1. NetbootInv => NewIsNew
    <2> SUFFICES ASSUME NetbootInv, NEW r \in Requests, req[r].pc \in {"store", "write"},
                        Head(req[r].todo).fresh
                 PROVE  Head(req[r].todo).id \notin Custom
        BY DEF NewIsNew
    <2>1. Storing(r) /\ Todo(r) \in Seq(Jobs)
      BY StateFields DEF Storing, NetbootInv
    <2>2. Todo(r) # << >>
      BY <2>1 DEF NetbootInv, StoresAreSound
    <2>3. 1 \in DOMAIN Todo(r) /\ Head(req[r].todo) = Todo(r)[1]
      BY <2>1, <2>2 DEF Todo
    <2> QED
      BY <2>1, <2>3 DEF NetbootInv, StoresAreSound
  <1> QED
    BY <1>1, CatalogInvariant, PTL
--------------------------------------------------------------------------------
(* A ready image boots.  ReadyBoots looks at the end of a run: what its files are  *)
(* of has to be known from the entry it looked up on, file by file.                *)

Fits(n, e) == disk[n].there /\ disk[n].url = UrlOf[e][n] /\ Accepted(n)
Boots(e)   == \A n \in {"vmlinuz", "initrd"} : disk[n].there /\ (e \notin Archived => Fits(n, e))

\* Nobody else has the row, so nothing it holds changes under the run but the status.
RunHasRow == run.pc # "idle" => image.status \in {"processing", "deleting"}

\* The download under way is of the next file; its file is the one the run finds.
CallIsNext ==
    /\ run.pc # "fetch" => call.pc = "idle"
    /\ run.pc = "fetch" /\ call.pc # "idle" => call.name = Head(run.todo)
    /\ run.pc = "fetch" /\ call.pc \in {"open", "read"} => call.url = NextUrl
    /\ run.pc = "fetch" /\ call.pc = "done" =>
           disk[call.name].there /\ disk[call.name].url = NextUrl

\* What has been fetched, extracted or made ready is of the edition looked up.
FilesAreOfEdition ==
    /\ run.pc = "fetch" => (run.edition \in Archived <=> run.todo = << "archive" >>)
    /\ run.pc = "fetch" /\ run.todo = << "initrd" >> => Fits("vmlinuz", run.edition)
    /\ run.pc = "extract" => run.edition \in Archived
    /\ run.pc = "end" /\ run.edition # None => Boots(run.edition)

BootInv == RunHasRow /\ CallIsNext /\ FilesAreOfEdition /\ ReadyBoots

\* A ready image has no run.
LEMMA NotReady ==
    ASSUME RunHasRow, run.pc # "idle"
    PROVE  image.status # "ready"
  BY DEF RunHasRow

LEMMA LeftAlone ==
    ASSUME BootInv, UNCHANGED << image, run, disk, call >>
    PROVE  BootInv'
  BY DEF BootInv, RunHasRow, CallIsNext, FilesAreOfEdition, ReadyBoots, Fits, Boots, Accepted, NextUrl

\* Between two runs nothing is being downloaded; only a ready image says anything.
LEMMA NoRun ==
    ASSUME run'.pc = "idle", call'.pc = "idle", image'.status # "ready"
    PROVE  BootInv'
  BY DEF BootInv, RunHasRow, CallIsNext, FilesAreOfEdition, ReadyBoots

LEMMA NoneIsNone ==
    ASSUME NetbootInv, BootInv
    PROVE  /\ image.status \in Statuses /\ run.edition \in Editions \cup {None}
           /\ run.pc \in {"idle", "lookup", "fetch", "extract", "end"}
           /\ call.name \in Names /\ disk \in [Names -> Files] /\ disk \in [DOMAIN disk -> Files]
           /\ NoCall.pc = "idle" /\ NoImage.status = "none" /\ IdleRun.pc = "idle"
  BY DEF NetbootInv, NetbootTypeOK, DownloadTypeOK, ImageRows, RunStates, Calls, NoCall, NoImage, IdleRun

LEMMA ImageRequestBoots ==
    ASSUME NetbootInv, BootInv, (\E live \in BOOLEAN : Add(live)) \/ Reprocess
    PROVE  BootInv'
  <1>1. /\ run.pc = "idle" /\ run' = run /\ call' = call
        /\ (\E e : image' = Queued(e)) \/ image' = [image EXCEPT !.status = "pending"]
    BY DEF Add, Reprocess, downloadVars
  <1>2. image'.status = "pending"
    BY <1>1 DEF Queued, NetbootInv, NetbootTypeOK, ImageRows
  <1> QED
    BY <1>1, <1>2, NoRun DEF BootInv, CallIsNext

LEMMA DeleteImageBoots ==
    ASSUME NetbootInv, BootInv, DeleteImage
    PROVE  BootInv'
  <1>1. CASE run.pc = "idle"
    <2>1. image' = NoImage /\ run' = run /\ call' = call
      BY <1>1 DEF DeleteImage
    <2> QED
      BY <1>1, <2>1, NoneIsNone, NoRun DEF BootInv, CallIsNext
  <1>2. CASE run.pc # "idle"
    <2>1. /\ image' = [image EXCEPT !.status = "deleting"] /\ run' = [run EXCEPT !.stop = TRUE]
          /\ UNCHANGED << disk, call >>
      BY <1>2 DEF DeleteImage, downloadVars
    <2>2. /\ run'.pc = run.pc /\ run'.todo = run.todo /\ run'.edition = run.edition
          /\ image'.status = "deleting" /\ image'.source = image.source
      BY <2>1 DEF NetbootInv, NetbootTypeOK, RunStates, ImageRows
    <2>3. RunHasRow' /\ ReadyBoots'
      BY <2>2 DEF RunHasRow, ReadyBoots
    <2>4. CallIsNext'
      BY <2>1, <2>2 DEF BootInv, CallIsNext, NextUrl
    <2>5. FilesAreOfEdition'
      BY <2>1, <2>2 DEF BootInv, FilesAreOfEdition, Fits, Boots, Accepted
    <2> QED
      BY <2>3, <2>4, <2>5 DEF BootInv
  <1> QED
    BY <1>1, <1>2

LEMMA BeginBoots ==
    ASSUME NetbootInv, BootInv, Begin
    PROVE  BootInv'
  <1>1. /\ run.pc = "idle" /\ call' = call /\ image' = [image EXCEPT !.status = "processing"]
        /\ run' = [IdleRun EXCEPT !.pc = "lookup"]
    BY DEF Begin
  <1>2. run'.pc = "lookup" /\ image'.status = "processing"
    BY <1>1 DEF IdleRun, NetbootInv, NetbootTypeOK, ImageRows
  <1> QED
    BY <1>1, <1>2 DEF BootInv, RunHasRow, CallIsNext, FilesAreOfEdition, ReadyBoots

\* A run that gives up has no edition, and nothing under way.
LEMMA FailsBoots ==
    ASSUME NetbootInv, BootInv, run.pc # "idle", Fails, call'.pc = "idle", image' = image
    PROVE  BootInv'
  <1>1. run'.pc = "end" /\ run'.edition = None
    BY DEF Fails, NetbootInv, NetbootTypeOK, RunStates
  <1>2. image.status # "ready"
    BY NotReady DEF BootInv
  <1> QED
    BY <1>1, <1>2 DEF BootInv, RunHasRow, CallIsNext, FilesAreOfEdition, ReadyBoots

LEMMA LookupBoots ==
    ASSUME NetbootInv, BootInv, Lookup
    PROVE  BootInv'
  <1>1. run.pc = "lookup" /\ UNCHANGED << disk, call, image >> /\ call.pc = "idle"
    BY DEF Lookup, downloadVars, BootInv, CallIsNext
  <1>2. CASE Entry = None
    BY <1>1, <1>2, FailsBoots DEF Lookup
  <1>3. CASE Entry # None
    <2> DEFINE fetched == IF Entry \notin Archived THEN BootFiles
                          ELSE IF image.source # None /\ ~disk["archive"].there
                               THEN << "archive" >> ELSE << >>
               pc == IF fetched = << >> THEN "extract" ELSE "fetch"
    <2>1. run' = [run EXCEPT !.pc = pc, !.edition = Entry, !.todo = fetched]
      BY <1>3 DEF Lookup
    <2>2. /\ Entry \notin Archived => fetched = BootFiles
          /\ Entry \in Archived => fetched \in {<< "archive" >>, << >>}
          /\ (pc = "extract" /\ fetched = << >>) \/ (pc = "fetch" /\ fetched # << >>)
      OBVIOUS
    <2>3. /\ BootFiles # << >> /\ BootFiles # << "archive" >> /\ BootFiles # << "initrd" >>
          /\ << "archive" >> # << "initrd" >>
      BY DEF BootFiles
    <2> HIDE DEF fetched, pc
    <2>4. run'.pc = pc /\ run'.edition = Entry /\ run'.todo = fetched
      BY <2>1 DEF NetbootInv, NetbootTypeOK, RunStates
    <2>5. FilesAreOfEdition'
      BY <2>2, <2>3, <2>4 DEF FilesAreOfEdition
    <2>6. RunHasRow' /\ ReadyBoots' /\ CallIsNext'
      BY <1>1, NotReady DEF BootInv, RunHasRow, ReadyBoots, CallIsNext
    <2> QED
      BY <2>5, <2>6 DEF BootInv
  <1> QED
    BY <1>2, <1>3

LEMMA DownloadBoots ==
    ASSUME NetbootInv, BootInv, Download
    PROVE  BootInv'
  <1>1. /\ run.pc = "fetch" /\ UNCHANGED << disk, run, image >>
        /\ call' = [NoCall EXCEPT !.pc = "open", !.url = NextUrl, !.name = Head(run.todo)]
    BY DEF Download, Fetch, runVars
  <1>2. call'.pc = "open" /\ call'.url = NextUrl /\ call'.name = Head(run.todo)
    BY <1>1 DEF NoCall
  <1>3. NextUrl' = NextUrl
    BY <1>1 DEF NextUrl
  <1>4. CallIsNext'
    BY <1>1, <1>2, <1>3 DEF CallIsNext
  <1>5. RunHasRow' /\ FilesAreOfEdition' /\ ReadyBoots'
    BY <1>1 DEF BootInv, RunHasRow, FilesAreOfEdition, ReadyBoots, Fits, Boots, Accepted
  <1> QED
    BY <1>4, <1>5 DEF BootInv

\* A call keeps its file and its address; only its last step puts a file in place.
LEMMA StepKinds ==
    ASSUME DownloadTypeOK, NEW stopped, DownloadStep(stopped)
    PROVE  /\ call.pc \in {"open", "read"} /\ call'.name = call.name
           /\ \/ /\ disk' = disk
                 /\ (call'.pc \in {"open", "read"} /\ call'.url = call.url)
                        \/ call'.pc \in {"failed", "cancelled"}
              \/ /\ call'.pc = "done"
                 /\ disk' = [disk EXCEPT ![call.name] =
                                [there |-> TRUE, url |-> call.url, bytes |-> part[call.name]]]
  <1> DEFINE goes == call'.pc \in {"open", "read"} /\ call'.url = call.url /\ call'.name = call.name
             ends == call'.pc \in {"failed", "cancelled"} /\ call'.name = call.name
  <1>1. ASSUME NEW outcome, Give(outcome)
        PROVE  call'.pc = outcome /\ call'.name = call.name
    BY <1>1 DEF Give, NoCall
  <1>2. ASSUME NEW size, Again(size) PROVE goes \/ ends
    <2>1. CASE LastTry
      BY <1>1, <1>2, <2>1 DEF Again
    <2>2. CASE ~LastTry
      BY <1>2, <2>2 DEF Again, DownloadTypeOK, Calls
    <2> QED
      BY <2>1, <2>2
  <1>3. ASSUME NEW start \in Starts, NEW a \in BOOLEAN, Answer(start, a)
        PROVE  call.pc = "open" /\ disk' = disk /\ (goes \/ ends)
    <2>1. call.pc = "open" /\ disk' = disk
      BY <1>3 DEF Answer
    <2>2. CASE Keeps(start) = 0 /\ start # 0
      BY <1>2, <1>3, <2>1, <2>2 DEF Answer
    <2>3. CASE ~(Keeps(start) = 0 /\ start # 0)
      BY <1>3, <2>1, <2>3 DEF Answer, DownloadTypeOK, Calls
    <2> QED
      BY <2>1, <2>2, <2>3
  <1>4. ASSUME NoAnswer \/ Interrupted
        PROVE  call.pc \in {"open", "read"} /\ disk' = disk /\ (goes \/ ends)
    BY <1>2, <1>4 DEF NoAnswer, Interrupted
  <1>5. ASSUME Refuse \/ CannotWrite
        PROVE  call.pc \in {"open", "read"} /\ disk' = disk /\ ends
    BY <1>1, <1>5 DEF Refuse, CannotWrite
  <1>6. ASSUME Chunk(stopped)
        PROVE  call.pc = "read" /\ disk' = disk /\ (goes \/ ends)
    <2>1. call.pc = "read" /\ disk' = disk
      BY <1>6 DEF Chunk
    <2>2. CASE stopped \/ call.size = MaxBytes
      BY <1>1, <1>6, <2>1, <2>2 DEF Chunk
    <2>3. CASE ~(stopped \/ call.size = MaxBytes)
      BY <1>6, <2>1, <2>3 DEF Chunk, DownloadTypeOK, Calls
    <2> QED
      BY <2>1, <2>2, <2>3
  <1>7. ASSUME EndOfReply, TooShort
        PROVE  call.pc = "read" /\ disk' = disk /\ (goes \/ ends)
    BY <1>2, <1>7 DEF EndOfReply
  <1>8. ASSUME EndOfReply, ~TooShort
        PROVE  /\ call.pc = "read" /\ call'.pc = "done" /\ call'.name = call.name
               /\ disk' = [disk EXCEPT ![call.name] =
                              [there |-> TRUE, url |-> call.url, bytes |-> part[call.name]]]
    BY <1>1, <1>8 DEF EndOfReply
  <1> QED
    BY <1>3, <1>4, <1>5, <1>6, <1>7, <1>8 DEF DownloadStep

LEMMA BytesBoot ==
    ASSUME NetbootInv, BootInv, DownloadStep(run.stop), UNCHANGED runVars
    PROVE  BootInv'
  <1>1. run' = run /\ image' = image /\ NextUrl' = NextUrl
    BY DEF runVars, NextUrl
  <1>2. DownloadTypeOK
    BY DEF NetbootInv, NetbootTypeOK
  <1>3. /\ call.pc \in {"open", "read"} /\ call'.name = call.name
        /\ \/ /\ disk' = disk
              /\ (call'.pc \in {"open", "read"} /\ call'.url = call.url)
                     \/ call'.pc \in {"failed", "cancelled"}
           \/ /\ call'.pc = "done"
              /\ disk' = [disk EXCEPT ![call.name] =
                             [there |-> TRUE, url |-> call.url, bytes |-> part[call.name]]]
    BY <1>2, StepKinds
  <1>4. run.pc = "fetch" /\ call.name = Head(run.todo) /\ call.url = NextUrl
    BY <1>3 DEF BootInv, CallIsNext
  <1>5. image.status # "ready"
    BY <1>4, NotReady DEF BootInv
  <1>6. CASE disk' = disk
    <2>1. CallIsNext'
      BY <1>1, <1>3, <1>4, <1>6, NoneIsNone DEF CallIsNext
    <2>2. FilesAreOfEdition' /\ RunHasRow' /\ ReadyBoots'
      BY <1>1, <1>6 DEF BootInv, FilesAreOfEdition, RunHasRow, ReadyBoots, Fits, Boots, Accepted
    <2> QED
      BY <2>1, <2>2 DEF BootInv
  <1>7. CASE /\ call'.pc = "done"
             /\ disk' = [disk EXCEPT ![call.name] =
                            [there |-> TRUE, url |-> call.url, bytes |-> part[call.name]]]
    <2>1. disk'[call.name].there /\ disk'[call.name].url = NextUrl
      BY <1>4, <1>7, NoneIsNone
    <2>2. CallIsNext'
      BY <1>1, <1>3, <1>4, <1>7, <2>1 DEF CallIsNext
    <2>3. run.todo = << "initrd" >> => disk'["vmlinuz"] = disk["vmlinuz"]
      BY <1>4, <1>7, NoneIsNone, Queue
    <2>4. FilesAreOfEdition'
      BY <1>1, <1>4, <2>3 DEF BootInv, FilesAreOfEdition, Fits, Accepted
    <2>5. RunHasRow' /\ ReadyBoots'
      BY <1>1, <1>5 DEF BootInv, RunHasRow, ReadyBoots
    <2> QED
      BY <2>2, <2>4, <2>5 DEF BootInv
  <1> QED
    BY <1>3, <1>6, <1>7

LEMMA FetchedBoots ==
    ASSUME NetbootInv, BootInv, Fetched
    PROVE  BootInv'
  <1>1. /\ run.pc = "fetch" /\ call.pc = "done" /\ call' = NoCall
        /\ UNCHANGED << image, disk >>
    BY DEF Fetched
  <1>2. call'.pc = "idle"
    BY <1>1, NoneIsNone
  <1>3. CASE call.name # "archive" /\ ~Accepted(call.name)
    BY <1>1, <1>2, <1>3, FailsBoots DEF Fetched
  <1>4. CASE ~(call.name # "archive" /\ ~Accepted(call.name))
    <2> DEFINE pc == IF Len(run.todo) > 1 THEN "fetch"
                     ELSE IF call.name = "archive" THEN "extract" ELSE "end"
    <2>1. run' = [run EXCEPT !.todo = Tail(run.todo), !.pc = pc]
      BY <1>4 DEF Fetched
    <2>2. /\ pc \in {"fetch", "extract", "end"}
          /\ Len(run.todo) > 1 => pc = "fetch"
          /\ Len(run.todo) = 1 => pc = IF call.name = "archive" THEN "extract" ELSE "end"
      <3>1. ~(1 > 1)
        OBVIOUS
      <3> QED
        BY <3>1
    <2> HIDE DEF pc
    <2>3. run'.pc = pc /\ run'.edition = run.edition /\ run'.todo = Tail(run.todo)
      BY <2>1 DEF NetbootInv, NetbootTypeOK, RunStates
    <2>4. call.name = Head(run.todo) /\ disk[call.name].there /\ disk[call.name].url = NextUrl
      BY <1>1 DEF BootInv, CallIsNext
    <2>5. run.todo \in {BootFiles, << "initrd" >>, << "archive" >>} /\ run.edition \in Editions
      BY <1>1 DEF NetbootInv, FetchesAreKnown
    <2>6. ASSUME run.todo # << "archive" >>
          PROVE  Fits(call.name, run.edition) /\ run.edition \notin Archived
      <3>1. call.name # "archive"
        BY <2>4, <2>5, <2>6, Queue
      <3>2. NextUrl = UrlOf[run.edition][call.name]
        BY <2>4, <3>1 DEF NextUrl
      <3> QED
        BY <1>1, <1>4, <2>4, <2>6, <3>1, <3>2 DEF Fits, BootInv, FilesAreOfEdition
    <2>7. ASSUME run.todo = BootFiles PROVE FilesAreOfEdition'
      <3>1. Tail(run.todo) = << "initrd" >> /\ call.name = "vmlinuz" /\ Len(run.todo) = 2
        BY <2>4, <2>7, Queue
      <3>2. pc = "fetch" /\ run.todo # << "archive" >> /\ << "initrd" >> # << "archive" >>
        BY <2>2, <2>7, <3>1 DEF BootFiles
      <3>3. Fits("vmlinuz", run.edition) /\ run.edition \notin Archived
        BY <2>6, <3>1, <3>2
      <3> QED
        BY <1>1, <2>3, <3>1, <3>2, <3>3 DEF FilesAreOfEdition, Fits, Accepted
    <2>8. ASSUME run.todo = << "initrd" >> PROVE FilesAreOfEdition'
      <3>1. call.name = "initrd" /\ Len(run.todo) = 1
        BY <2>4, <2>8, Queue
      <3>2. pc = "end"
        BY <2>2, <3>1
      <3>3. Fits("initrd", run.edition) /\ Fits("vmlinuz", run.edition)
        BY <1>1, <2>6, <2>8, <3>1 DEF BootInv, FilesAreOfEdition
      <3>4. Boots(run.edition)
        BY <3>3 DEF Boots, Fits
      <3> QED
        BY <1>1, <2>3, <3>2, <3>4 DEF FilesAreOfEdition, Boots, Fits, Accepted
    <2>9. ASSUME run.todo = << "archive" >> PROVE FilesAreOfEdition'
      <3>1. call.name = "archive" /\ Len(run.todo) = 1
        BY <2>4, <2>9, Queue
      <3>2. pc = "extract" /\ run.edition \in Archived
        BY <1>1, <2>2, <2>9, <3>1 DEF BootInv, FilesAreOfEdition
      <3> QED
        BY <2>3, <3>2 DEF FilesAreOfEdition
    <2>10. FilesAreOfEdition'
      BY <2>5, <2>7, <2>8, <2>9
    <2>11. RunHasRow' /\ ReadyBoots' /\ CallIsNext'
      BY <1>1, <1>2, <2>2, <2>3, NotReady, NoneIsNone
         DEF BootInv, RunHasRow, ReadyBoots, CallIsNext
    <2> QED
      BY <2>10, <2>11 DEF BootInv
  <1> QED
    BY <1>3, <1>4

LEMMA NotFetchedBoots ==
    ASSUME NetbootInv, BootInv, NotFetched
    PROVE  BootInv'
  BY NoneIsNone, FailsBoots DEF NotFetched

\* What an archive held is taken for what its edition calls for.
LEMMA ExtractBoots ==
    ASSUME NetbootInv, BootInv, Extract
    PROVE  BootInv'
  <1>1. run.pc = "extract" /\ UNCHANGED << image, call >> /\ call.pc = "idle"
    BY DEF Extract, BootInv, CallIsNext
  <1>2. CASE Fails
    BY <1>1, <1>2, FailsBoots
  <1>3. CASE /\ disk["archive"].there /\ run' = [run EXCEPT !.pc = "end"]
             /\ disk' = IF image.live THEN FromLiveIso ELSE FromArchive
    <2>1. run'.pc = "end" /\ run'.edition = run.edition
      BY <1>3 DEF NetbootInv, NetbootTypeOK, RunStates
    <2>2. disk'["vmlinuz"].there /\ disk'["initrd"].there
      BY <1>3, Constants DEF FromLiveIso, FromArchive
    <2>3. run.edition \in Archived
      BY <1>1 DEF BootInv, FilesAreOfEdition
    <2>4. FilesAreOfEdition'
      BY <2>1, <2>2, <2>3 DEF FilesAreOfEdition, Boots
    <2>5. RunHasRow' /\ ReadyBoots' /\ CallIsNext'
      BY <1>1, <2>1, NotReady DEF BootInv, RunHasRow, ReadyBoots, CallIsNext
    <2> QED
      BY <2>4, <2>5 DEF BootInv
  <1> QED
    BY <1>2, <1>3 DEF Extract

LEMMA EndBoots ==
    ASSUME NetbootInv, BootInv, End
    PROVE  BootInv'
  <1>1. run.pc = "end" /\ run' = IdleRun /\ call' = call
    BY DEF End
  <1>2. run'.pc = "idle" /\ call'.pc = "idle"
    BY <1>1, NoneIsNone DEF BootInv, CallIsNext
  <1>3. CASE run.stop \/ run.edition = None
    <2>1. image' = NoImage \/ \E a : image' = [image EXCEPT !.status = "error", !.args = a]
      BY <1>3 DEF End
    <2>2. image'.status # "ready"
      BY <2>1, NoneIsNone DEF NetbootInv, NetbootTypeOK, ImageRows
    <2> QED
      BY <1>2, <2>2, NoRun
  <1>4. CASE ~run.stop /\ run.edition # None
    <2>1. image' = [image EXCEPT !.status = "ready", !.args = run.edition] /\ disk' = disk
      BY <1>4 DEF End, Args
    <2>2. image'.status = "ready" /\ image'.args = run.edition
      BY <2>1 DEF NetbootInv, NetbootTypeOK, ImageRows
    <2>3. Boots(run.edition)
      BY <1>1, <1>4 DEF BootInv, FilesAreOfEdition
    <2>4. ReadyBoots'
      BY <1>4, <2>1, <2>2, <2>3 DEF ReadyBoots, Boots, Fits, Accepted
    <2> QED
      BY <1>2, <2>4 DEF BootInv, RunHasRow, CallIsNext, FilesAreOfEdition
  <1> QED
    BY <1>3, <1>4

LEMMA RestartBoots ==
    ASSUME NetbootInv, BootInv, Restart
    PROVE  BootInv'
  <1>1. run' = IdleRun /\ call' = NoCall
    BY DEF Restart
  <1>2. run'.pc = "idle" /\ call'.pc = "idle"
    BY <1>1, NoneIsNone
  <1>3. CASE image.status = "deleting"
    BY <1>2, <1>3, NoneIsNone, NoRun DEF Restart
  <1>4. CASE image.status # "deleting"
    <2> DEFINE st == IF image.status \in {"pending", "processing"} THEN "needs_reprocess"
                     ELSE image.status
    <2>1. image' = [image EXCEPT !.status = st] /\ disk' = disk
      BY <1>4 DEF Restart
    <2>2. st = "ready" => image.status = "ready"
      OBVIOUS
    <2> HIDE DEF st
    <2>3. image'.status = st /\ image'.args = image.args
      BY <2>1 DEF NetbootInv, NetbootTypeOK, ImageRows
    <2>4. ReadyBoots'
      BY <2>1, <2>2, <2>3 DEF BootInv, ReadyBoots, Accepted
    <2> QED
      BY <1>2, <2>4 DEF BootInv, RunHasRow, CallIsNext, FilesAreOfEdition
  <1> QED
    BY <1>3, <1>4

\* The routes of the catalog touch neither the row nor the files.
LEMMA RoutesBoot ==
    ASSUME NetbootInv, BootInv, NEW r \in Requests,
           SaveNew(r) \/ SaveEdited(r) \/ Import(r) \/ DeleteReads(r)
               \/ StoreReads(r) \/ StoreCommits(r) \/ DeleteCommits(r)
    PROVE  BootInv'
  <1>1. UNCHANGED << downloadVars, runVars >>
    BY DEF SaveNew, SaveEdited, Import, DeleteReads, StoreReads, StoreCommits, DeleteCommits, Ask
  <1> QED
    BY <1>1, LeftAlone DEF downloadVars, runVars

LEMMA BeforeBoots == NetbootInit => BootInv
  <1> SUFFICES ASSUME NetbootInit PROVE BootInv
      OBVIOUS
  <1>1. run.pc = "idle" /\ call.pc = "idle"
    BY DEF NetbootInit, DownloadInit, IdleRun, NoCall
  <1>2. image.status # "ready"
    BY DEF NetbootInit, NoImage, Queued
  <1> QED
    BY <1>1, <1>2 DEF BootInv, RunHasRow, CallIsNext, FilesAreOfEdition, ReadyBoots

LEMMA NextBoots == NetbootInv /\ BootInv /\ [Next]_vars => BootInv'
  <1> SUFFICES ASSUME NetbootInv, BootInv, [Next]_vars PROVE BootInv'
      OBVIOUS
  <1>1. ASSUME UNCHANGED netbootVars PROVE BootInv'
    BY <1>1, LeftAlone DEF netbootVars, downloadVars, runVars
  <1>2. ASSUME RunStep PROVE BootInv'
    BY <1>2, BeginBoots, LookupBoots, DownloadBoots, FetchedBoots, NotFetchedBoots,
       ExtractBoots, EndBoots, BytesBoot DEF RunStep
  <1>3. ASSUME NEW u \in Urls, Publish(u), UNCHANGED runVars PROVE BootInv'
    BY <1>3, LeftAlone DEF Publish, runVars
  <1>4. ASSUME NetbootNext PROVE BootInv'
    BY <1>2, <1>3, <1>4, RoutesBoot, ImageRequestBoots, DeleteImageBoots, RestartBoots
       DEF NetbootNext
  <1> QED
    BY <1>1, <1>4 DEF Next, vars

\* Whatever is saved, deleted, retried, cut short or restarted while a run fetches, an
\* image that is ready has a kernel and an initrd of the edition its command line is
\* made from (_process_netboot, netboot.fetch_boot_files).
THEOREM ReadyImagesBoot == Spec => []ReadyBoots
  <1>1. Init => BootInv
    BY BeforeBoots DEF Init
  <1>2. BootInv => ReadyBoots
    BY DEF BootInv
  <1> QED
    BY <1>1, <1>2, NextBoots, CatalogInvariant, PTL DEF Spec
================================================================================
