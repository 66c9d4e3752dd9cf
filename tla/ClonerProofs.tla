---------------------------- MODULE ClonerProofs ----------------------------
(***************************************************************************)
(* Proofs about Cloner, for any pages, assets, sites, workers and limits.  *)
(***************************************************************************)
EXTENDS Cloner, FiniteSetTheorems, TLAPS

-----------------------------------------------------------------------------
(* Types.                                                                  *)

(* The shape of a site. *)
LEMMA SiteShape ==
    ASSUME TypeOK
    PROVE  /\ site.links \in [Page -> SUBSET Page] /\ site.rendered \in [Page -> SUBSET Page]
           /\ site.refs \in [Page -> SUBSET Asset] /\ site.nested \in [Style -> SUBSET Asset]
  BY ClonerAssumption DEF TypeOK, SiteOK

LEMMA LinksType == ASSUME TypeOK, NEW P \in SUBSET Page PROVE LinksOf(P) \subseteq Page
  BY SiteShape DEF LinksOf, LinksIn

(* What a slot holds at each of its stages. *)
LEMMA SlotFields ==
    ASSUME TypeOK, NEW w \in Worker
    PROVE  /\ worker[w].at \in {"idle", "fetch", "collect", "nested"}
           /\ worker[w].at = "idle" => worker[w] = Idle
           /\ worker[w].at = "fetch" => worker[w] \in [at : {"fetch"}, asset : Asset]
           /\ worker[w].at = "collect" =>
                 worker[w] \in [at : {"collect"}, asset : Asset, todo : SUBSET Asset, unread : SUBSET Asset]
           /\ worker[w].at = "nested" =>
                 worker[w] \in [at : {"nested"}, asset : Asset, todo : SUBSET Asset, next : Asset]
  BY DEF TypeOK, Slot, Idle

LEMMA BecomesType ==
    ASSUME TypeOK, NEW w \in Worker, NEW job \in Slot, Becomes(w, job)
    PROVE  worker' \in [Worker -> Slot]
  BY DEF TypeOK, Becomes

LEMMA ReturnsType ==
    ASSUME NEW job, job.asset \in Asset, NEW todo \in SUBSET Asset
    PROVE  Returns(job, todo) \in [at : {"collect"}, asset : Asset, todo : SUBSET Asset, unread : SUBSET Asset]
  BY DEF Returns

LEMMA OpensType ==
    ASSUME TypeOK, Opens
    PROVE  tab' \in [at : {"none", "open", "range"}, asked : SUBSET Response, writing : SUBSET Response]
  BY DEF TypeOK, Opens

LEMMA CrawlTypes ==
    ASSUME TypeOK, Crawls
    PROVE  TypeOK'
  <1>1. CASE FirstPage
    BY <1>1, OpensType DEF FirstPage, TypeOK, loadVars
  <1>2. CASE NextLevel
    BY <1>2 DEF NextLevel, Unvisited, TypeOK, loadVars
  <1>3. CASE NextPage
    BY <1>3 DEF NextPage, Unvisited, TypeOK, loadVars
  <1>4. ASSUME NEW u \in batch, Load(u) PROVE TypeOK'
    BY <1>4, OpensType DEF Load, TypeOK, loadVars
  <1>5. CASE TakeResults
    <2>1. LinksOf(results \ pages) \subseteq Page /\ UNION {site.rendered[p] : p \in results} \subseteq Page
      BY LinksType, SiteShape DEF TypeOK
    <2>2. Followed \subseteq Page /\ New \subseteq results
      BY <2>1 DEF Followed, New
    <2> QED
      BY <1>5, <2>2 DEF TakeResults, NoTab, TypeOK, loadVars
  <1>6. CASE PackRendered
    BY <1>6 DEF PackRendered, TypeOK, crawlVars, loadVars
  <1> QED
    BY <1>1, <1>2, <1>3, <1>4, <1>5, <1>6 DEF Crawls

LEMMA CaptureTypes ==
    ASSUME TypeOK, Captures
    PROVE  TypeOK'
  <1>1. CASE CapturePage
    BY <1>1 DEF CapturePage, TypeOK, crawlVars, loadVars
  <1>2. ASSUME NEW r \in Response, BodyArrives(r) PROVE TypeOK'
    BY <1>2 DEF BodyArrives, TypeOK, crawlVars, loadVars
  <1>3. ASSUME NEW r \in Response, BodyKept(r) PROVE TypeOK'
    BY <1>3 DEF BodyKept, TypeOK, crawlVars, loadVars
  <1>4. ASSUME NEW r \in Response, LateBody(r) PROVE TypeOK'
    BY <1>4 DEF LateBody, TypeOK, crawlVars, loadVars
  <1> QED
    BY <1>1, <1>2, <1>3, <1>4 DEF Captures

LEMMA DownloadTypes ==
    ASSUME TypeOK, Downloads
    PROVE  TypeOK'
  <1>1. CASE CollectAssets
    <2>1. UNION {site.refs[p] : p \in pages} \subseteq Asset
      BY SiteShape DEF TypeOK
    <2> QED
      BY <1>1, <2>1 DEF CollectAssets, TypeOK, crawlVars
  <1>2. CASE Pack
    BY <1>2 DEF Pack, TypeOK, crawlVars, loadVars
  <1>3. ASSUME NEW w \in Worker, NEW a \in waiting, StartAsset(w, a) PROVE TypeOK'
    <2>1. [at |-> "fetch", asset |-> a] \in Slot
      BY DEF TypeOK, Slot
    <2> QED
      BY <1>3, <2>1, BecomesType DEF StartAsset, TypeOK, crawlVars
  <1>4. ASSUME NEW w \in Worker, NEW n \in 0..MaxBody, AssetArrives(w, n) PROVE TypeOK'
    <2>1. worker[w].asset \in Asset
      BY <1>4, SlotFields DEF AssetArrives, Job
    <2>2. [at |-> "collect", asset |-> worker[w].asset, todo |-> {},
           unread |-> IF worker[w].asset \in Style THEN site.nested[worker[w].asset] ELSE {}] \in Slot
      BY <2>1, SiteShape DEF Slot
    <2>3. Idle \in Slot
      BY DEF Slot
    <2>4. bytes' \in Nat
      BY <1>4, ClonerAssumption DEF AssetArrives, TypeOK
    <2>5. worker' \in [Worker -> Slot]
      BY <1>4, <2>2, <2>3, BecomesType DEF AssetArrives
    <2> QED
      BY <1>4, <2>1, <2>4, <2>5 DEF AssetArrives, TypeOK, crawlVars
  <1>5. ASSUME NEW w \in Worker, NEW n \in 0..MaxBody, NestedArrives(w, n) PROVE TypeOK'
    <2>1. worker[w] \in [at : {"nested"}, asset : Asset, todo : SUBSET Asset, next : Asset]
      BY <1>5, SlotFields DEF NestedArrives, Job
    <2>2. Returns(worker[w], worker[w].todo) \in Slot
      BY <2>1, ReturnsType DEF Slot
    <2>3. bytes' \in Nat
      BY <1>5, ClonerAssumption DEF NestedArrives, TypeOK
    <2>4. files' \in Seq(File)
      BY <1>5, <2>1 DEF NestedArrives, TypeOK, File
    <2>5. worker' \in [Worker -> Slot]
      BY <1>5, <2>2, BecomesType DEF NestedArrives
    <2> QED
      BY <1>5, <2>3, <2>4, <2>5 DEF NestedArrives, TypeOK, crawlVars
  <1>6. ASSUME NEW w \in Worker, NEW n \in Asset, CollectNested(w, n) PROVE TypeOK'
    <2>1. worker[w] \in [at : {"collect"}, asset : Asset, todo : SUBSET Asset, unread : SUBSET Asset]
      BY <1>6, SlotFields DEF CollectNested, Job
    <2>2. [worker[w] EXCEPT !.unread = @ \ {n}, !.todo = IF n \in extra THEN @ ELSE @ \cup {n}] \in Slot
      BY <2>1 DEF Slot
    <2>3. worker' \in [Worker -> Slot]
      BY <1>6, <2>2, BecomesType DEF CollectNested
    <2> QED
      BY <1>6, <2>3 DEF CollectNested, TypeOK, crawlVars
  <1>7. ASSUME NEW w \in Worker, NEW n \in Asset, StartNested(w, n) PROVE TypeOK'
    <2>1. worker[w] \in [at : {"collect"}, asset : Asset, todo : SUBSET Asset, unread : SUBSET Asset]
      BY <1>7, SlotFields DEF StartNested, Collected, Job
    <2>2. /\ [worker[w] EXCEPT !.todo = {}] \in Slot
          /\ [at |-> "nested", asset |-> worker[w].asset, todo |-> worker[w].todo \ {n}, next |-> n] \in Slot
      BY <2>1 DEF Slot
    <2>3. worker' \in [Worker -> Slot]
      BY <1>7, <2>2, BecomesType DEF StartNested
    <2> QED
      BY <1>7, <2>1, <2>3 DEF StartNested, TypeOK, crawlVars
  <1>8. ASSUME NEW w \in Worker, AssetFails(w) PROVE TypeOK'
    <2>1. worker[w].asset \in Asset /\ Idle \in Slot
      BY <1>8, SlotFields DEF AssetFails, Job, Slot
    <2>2. worker' \in [Worker -> Slot]
      BY <1>8, <2>1, BecomesType DEF AssetFails, Released
    <2> QED
      BY <1>8, <2>1, <2>2 DEF AssetFails, TypeOK, crawlVars
  <1>9. ASSUME NEW w \in Worker, NestedFails(w) PROVE TypeOK'
    <2>1. worker[w] \in [at : {"nested"}, asset : Asset, todo : SUBSET Asset, next : Asset]
      BY <1>9, SlotFields DEF NestedFails, Job
    <2>2. Returns(worker[w], AfterFailure(worker[w])) \in Slot
      BY <2>1, ReturnsType DEF Slot, AfterFailure
    <2>3. worker' \in [Worker -> Slot]
      BY <1>9, <2>2, BecomesType DEF NestedFails
    <2> QED
      BY <1>9, <2>1, <2>3 DEF NestedFails, TypeOK, crawlVars
  <1>10. ASSUME NEW w \in Worker, KeepAsset(w) PROVE TypeOK'
    <2>1. worker[w].asset \in Asset /\ Idle \in Slot
      BY <1>10, SlotFields DEF KeepAsset, Collected, Job, Slot
    <2>2. worker' \in [Worker -> Slot]
      BY <1>10, <2>1, BecomesType DEF KeepAsset
    <2>3. (worker[w].asset \in Style) \in BOOLEAN
      OBVIOUS
    <2>4. files' \in Seq(File)
      BY <1>10, <2>1, <2>3 DEF KeepAsset, TypeOK, File
    <2> QED
      BY <1>10, <2>2, <2>4 DEF KeepAsset, TypeOK, crawlVars
  <1> QED
    BY <1>1, <1>2, <1>3, <1>4, <1>5, <1>6, <1>7, <1>8, <1>9, <1>10 DEF Downloads

LEMMA TypeStart == Init => TypeOK
  <1> SUFFICES ASSUME Init PROVE TypeOK
    OBVIOUS
  <1>1. worker \in [Worker -> Slot] /\ files \in Seq(File)
    BY DEF Init, Slot
  <1> QED
    BY <1>1 DEF Init, TypeOK, NoTab

LEMMA TypeStep == TypeOK /\ [Next]_vars => TypeOK'
  <1>1. TypeOK /\ UNCHANGED vars => TypeOK'
    BY DEF TypeOK, vars, crawlVars, loadVars
  <1> QED
    BY <1>1, CrawlTypes, CaptureTypes, DownloadTypes DEF Next

(* Every variable keeps its type, in both modes and for any site. *)
THEOREM CloneTypes == Spec => []TypeOK
  BY TypeStart, TypeStep, PTL DEF Spec

-----------------------------------------------------------------------------
(* The limits.                                                             *)

(* The workers whose answer has yet to be added to the total. *)
Fetching == {w \in Worker : worker[w].at \in {"fetch", "nested"}}

(* Each of them may add a body to a total that was below the limit when it  *)
(* began, and so may every other worker that began since.                   *)
Bounded ==
    /\ count <= MaxAssets
    /\ bytes + Cardinality(Fetching) * MaxBody < MaxBytes + Cardinality(Worker) * MaxBody

LEMMA SomeWorkers ==
    ASSUME NEW W \in SUBSET Worker
    PROVE  /\ IsFiniteSet(W) /\ Cardinality(W) \in Nat /\ Cardinality(Worker) \in Nat
           /\ Cardinality(W) <= Cardinality(Worker)
  BY ClonerAssumption, FS_Subset, FS_CardinalityType

LEMMA Product ==
    ASSUME NEW m \in Nat, NEW n \in Nat, NEW k \in Nat, m <= n
    PROVE  m * k \in Nat /\ n * k \in Nat /\ m * k <= n * k
  OBVIOUS

(* Once a worker has found room, any number of them may be loading. *)
LEMMA RoomBounds ==
    ASSUME TypeOK, bytes < MaxBytes, bytes' = bytes, count' <= MaxAssets
    PROVE  Bounded'
  <1> DEFINE F == Fetching'
  <1>1. F \in SUBSET Worker
    BY DEF Fetching
  <1>2. Cardinality(F) \in Nat /\ Cardinality(Worker) \in Nat /\ Cardinality(F) <= Cardinality(Worker)
    BY <1>1, SomeWorkers
  <1>3. /\ Cardinality(F) * MaxBody \in Nat /\ Cardinality(Worker) * MaxBody \in Nat
        /\ Cardinality(F) * MaxBody <= Cardinality(Worker) * MaxBody
    BY <1>2, Product, ClonerAssumption
  <1>4. bytes' + Cardinality(F) * MaxBody < MaxBytes + Cardinality(Worker) * MaxBody
    BY <1>3, ClonerAssumption DEF TypeOK
  <1> QED
    BY <1>4 DEF Bounded

(* An answer takes its worker out of those that load. *)
LEMMA ArrivalBounds ==
    ASSUME TypeOK, Bounded, NEW w \in Fetching, NEW n \in 0..MaxBody, Fetching' = Fetching \ {w},
           count' = count, bytes' = bytes + n
    PROVE  Bounded'
  <1>1. Cardinality(Fetching) \in Nat /\ Cardinality(Worker) \in Nat
    BY SomeWorkers DEF Fetching
  <1>2. IsFiniteSet(Fetching)
    BY SomeWorkers DEF Fetching
  <1>3. Cardinality(Fetching') = Cardinality(Fetching) - 1
    BY <1>2, FS_RemoveElement
  <1>4. Cardinality(Fetching') \in Nat
    BY <1>2, <1>3, FS_RemoveElement, FS_CardinalityType
  <1>5. ASSUME NEW m \in Nat PROVE (m + 1) * MaxBody = m * MaxBody + MaxBody /\ m * MaxBody \in Nat
    BY ClonerAssumption
  <1>6. Cardinality(Fetching) * MaxBody = Cardinality(Fetching') * MaxBody + MaxBody
    BY <1>1, <1>3, <1>4, <1>5
  <1>7. Cardinality(Fetching') * MaxBody \in Nat /\ Cardinality(Worker) * MaxBody \in Nat
    BY <1>1, <1>4, <1>5, Product, ClonerAssumption
  <1>8. bytes' + Cardinality(Fetching') * MaxBody < MaxBytes + Cardinality(Worker) * MaxBody
    BY <1>6, <1>7, ClonerAssumption DEF Bounded, TypeOK
  <1> QED
    BY <1>8 DEF Bounded

(* A failing request adds nothing. *)
LEMMA FailureBounds ==
    ASSUME TypeOK, Bounded, Fetching' \subseteq Fetching, UNCHANGED <<count, bytes>>
    PROVE  Bounded'
  <1>1. Cardinality(Fetching') <= Cardinality(Fetching)
    BY SomeWorkers, FS_Subset DEF Fetching
  <1>2. Cardinality(Fetching) \in Nat /\ Cardinality(Fetching') \in Nat /\ Cardinality(Worker) \in Nat
    BY SomeWorkers DEF Fetching
  <1>3. /\ Cardinality(Fetching) * MaxBody \in Nat /\ Cardinality(Fetching') * MaxBody \in Nat
        /\ Cardinality(Fetching') * MaxBody <= Cardinality(Fetching) * MaxBody
        /\ Cardinality(Worker) * MaxBody \in Nat
    BY <1>1, <1>2, Product, ClonerAssumption
  <1>4. bytes' + Cardinality(Fetching') * MaxBody < MaxBytes + Cardinality(Worker) * MaxBody
    BY <1>3, ClonerAssumption DEF Bounded, TypeOK
  <1> QED
    BY <1>4 DEF Bounded

LEMMA BudgetStart == Init => Bounded
  <1> SUFFICES ASSUME Init PROVE Bounded
    OBVIOUS
  <1>1. Fetching = {} /\ Cardinality(Fetching) = 0
    BY FS_EmptySet DEF Init, Fetching, Idle
  <1>2. Cardinality(Worker) * MaxBody \in Nat /\ 0 * MaxBody = 0
    BY SomeWorkers, Product, ClonerAssumption
  <1> QED
    BY <1>1, <1>2, ClonerAssumption DEF Init, Bounded

LEMMA BudgetDownloads ==
    ASSUME TypeOK, Bounded, Downloads
    PROVE  Bounded'
  <1>1. CASE CollectAssets \/ Pack
    BY <1>1, FailureBounds DEF CollectAssets, Pack, loadVars, Fetching
  <1>2. ASSUME NEW w \in Worker, NEW a \in waiting, StartAsset(w, a) PROVE Bounded'
    <2>1. CASE Full
      BY <1>2, <2>1, FailureBounds DEF StartAsset, Fetching
    <2>2. CASE ~Full
      BY <1>2, <2>2, RoomBounds, ClonerAssumption DEF StartAsset, Full, TypeOK
    <2> QED
      BY <2>1, <2>2
  <1>3. ASSUME NEW w \in Worker, NEW n \in 0..MaxBody, AssetArrives(w, n) PROVE Bounded'
    <2>1. w \in Fetching /\ count' = count /\ bytes' = bytes + n
      BY <1>3 DEF AssetArrives, Job, Fetching
    <2>2. Fetching' = Fetching \ {w}
      BY <1>3 DEF AssetArrives, Becomes, Fetching, Idle, TypeOK
    <2> QED
      BY <2>1, <2>2, ArrivalBounds
  <1>4. ASSUME NEW w \in Worker, NEW n \in 0..MaxBody, NestedArrives(w, n) PROVE Bounded'
    <2>1. w \in Fetching /\ count' = count /\ bytes' = bytes + n
      BY <1>4 DEF NestedArrives, Job, Fetching
    <2>2. Fetching' = Fetching \ {w}
      BY <1>4 DEF NestedArrives, Becomes, Returns, Fetching, TypeOK
    <2> QED
      BY <2>1, <2>2, ArrivalBounds
  <1>5. ASSUME NEW w \in Worker, NEW n \in Asset, CollectNested(w, n) PROVE Bounded'
    <2>1. worker[w] \in [at : {"collect"}, asset : Asset, todo : SUBSET Asset, unread : SUBSET Asset]
      BY <1>5, SlotFields DEF CollectNested, Job
    <2>2. Fetching' \subseteq Fetching
      BY <1>5, <2>1 DEF CollectNested, Becomes, Fetching, TypeOK
    <2> QED
      BY <1>5, <2>2, FailureBounds DEF CollectNested
  <1>6. ASSUME NEW w \in Worker, NEW n \in Asset, StartNested(w, n) PROVE Bounded'
    <2>1. CASE Full
      <3>1. worker[w] \in [at : {"collect"}, asset : Asset, todo : SUBSET Asset, unread : SUBSET Asset]
        BY <1>6, SlotFields DEF StartNested, Collected, Job
      <3>2. Fetching' \subseteq Fetching
        BY <1>6, <2>1, <3>1 DEF StartNested, Becomes, Fetching, TypeOK
      <3> QED
        BY <1>6, <2>1, <3>2, FailureBounds DEF StartNested
    <2>2. CASE ~Full
      BY <1>6, <2>2, RoomBounds, ClonerAssumption DEF StartNested, Full, TypeOK
    <2> QED
      BY <2>1, <2>2
  <1>7. ASSUME NEW w \in Worker, AssetFails(w) \/ NestedFails(w) \/ KeepAsset(w) PROVE Bounded'
    <2>1. Fetching' \subseteq Fetching
      BY <1>7 DEF AssetFails, NestedFails, KeepAsset, Becomes, Released, Returns, Idle, Fetching, TypeOK
    <2> QED
      BY <1>7, <2>1, FailureBounds DEF AssetFails, NestedFails, KeepAsset
  <1> QED
    BY <1>1, <1>2, <1>3, <1>4, <1>5, <1>6, <1>7 DEF Downloads

LEMMA BudgetStep == TypeOK /\ Bounded /\ [Next]_vars => Bounded'
  <1> SUFFICES ASSUME TypeOK, Bounded, [Next]_vars PROVE Bounded'
    OBVIOUS
  <1>1. CASE UNCHANGED loadVars
    BY <1>1 DEF loadVars, Bounded, Fetching
  <1>2. CASE Crawls \/ Captures
    BY <1>1, <1>2 DEF Crawls, Captures, FirstPage, NextLevel, NextPage, Load, TakeResults, PackRendered,
       BodyArrives, BodyKept, CapturePage, LateBody
  <1>3. CASE Downloads
    BY <1>3, BudgetDownloads
  <1> QED
    BY <1>1, <1>2, <1>3 DEF Next, vars

LEMMA BudgetFollows == TypeOK /\ Bounded => BudgetKept
  <1> SUFFICES ASSUME TypeOK, Bounded PROVE BudgetKept
    OBVIOUS
  <1>1. Cardinality(Fetching) * MaxBody \in Nat /\ Cardinality(Worker) * MaxBody \in Nat
    BY SomeWorkers, Product, ClonerAssumption DEF Fetching
  <1> QED
    BY <1>1, ClonerAssumption DEF Bounded, BudgetKept, TypeOK

(* The downloader exceeds its total by less than one body per worker. *)
THEOREM BudgetHolds == Spec => []BudgetKept
  BY CloneTypes, BudgetStart, BudgetStep, BudgetFollows, PTL DEF Spec

-----------------------------------------------------------------------------
(* The crawl.                                                              *)

Stopped == Unvisited = {} \/ Cardinality(pages) >= MaxPages

(* The pages whose links the crawl has seen. *)
Seen == pages \cup (visited \ (missed \cup batch \cup results))

(* What was taken up is in the clone, on its way or could not be loaded;    *)
(* what the seen pages link to was taken up, or waits, as long as no level  *)
(* was cut.  Before the first page is taken, it is all there is.            *)
CrawlOK ==
    /\ IsFiniteSet(pages) /\ IsFiniteSet(results)
    /\ visited \subseteq InClone \cup results \cup batch \cup missed
    /\ ~cut => LinksOf(Seen) \subseteq frontier \cup visited
    /\ phase = "load" /\ pages = {} => batch = {} /\ results # {} /\ served \subseteq results
    /\ phase \in {"crawl", "assets", "done"} => batch = {} /\ results = {} /\ pages # {}
    /\ phase = "first" => pages = {} /\ results = {} /\ visited = {} /\ batch = {} /\ served = {}
    /\ pages # {} => served \subseteq pages
    /\ phase \in {"assets", "done"} => Stopped

LEMMA CrawlStart == Init => CrawlOK
  BY FS_EmptySet DEF Init, CrawlOK, LinksOf, Seen

LEMMA CrawlKept ==
    ASSUME CrawlOK, UNCHANGED <<site, render, phase, crawlVars>>
    PROVE  CrawlOK'
  BY DEF CrawlOK, Stopped, Unvisited, LinksOf, LinksIn, Seen, InClone, crawlVars

(* More pages in the clone, and no other links in the pages. *)
LEMMA CloneGrows ==
    ASSUME UNCHANGED <<site, render, served>>, pages \subseteq pages'
    PROVE  InClone \subseteq InClone' /\ \A P : LinksOf(P)' = LinksOf(P')
  BY DEF InClone, LinksOf, LinksIn

LEMMA CrawlStep == TypeOK /\ CrawlOK /\ [Next]_vars => CrawlOK'
  <1> SUFFICES ASSUME TypeOK, CrawlOK, [Next]_vars PROVE CrawlOK'
    OBVIOUS
  <1>s. ASSUME UNCHANGED <<site, render, served, pages>>
        PROVE  InClone' = InClone /\ \A p : LinksIn(p)' = LinksIn(p')
    BY <1>s DEF InClone, LinksIn
  <1>1. CASE FirstPage
    <2>1. CASE phase' = "refused" /\ UNCHANGED <<served, results, visited>>
      BY <1>1, <2>1 DEF FirstPage, CrawlOK, LinksOf, Seen
    <2>2. ASSUME NEW p \in Page, results' = {p}, visited' = {p}, phase' = "load", served' \in {{}, {p}}
          PROVE  CrawlOK'
      <3>1. IsFiniteSet(results')
        BY <2>2, FS_Singleton
      <3>2. pages' = {} /\ batch' = {} /\ IsFiniteSet(pages')
        BY <1>1 DEF FirstPage, CrawlOK
      <3>3. Seen' = {}
        BY <2>2, <3>2 DEF Seen
      <3> QED
        BY <2>2, <3>1, <3>2, <3>3 DEF CrawlOK, LinksOf
    <2> QED
      BY <1>1, <2>1, <2>2 DEF FirstPage
  <1>2. CASE NextLevel
    <2>1. PICK b \in SUBSET Unvisited :
              batch' = b /\ visited' = visited \cup b /\ cut' = (cut \/ b # Unvisited)
      BY <1>2 DEF NextLevel
    <2>2. /\ phase = "crawl" /\ phase' = "load" /\ frontier' = {}
          /\ UNCHANGED <<site, render, served, pages, results, missed>>
      BY <1>2 DEF NextLevel
    <2>3. Seen' \subseteq Seen /\ InClone' = InClone
      BY <2>1, <2>2, <1>s DEF Seen, CrawlOK
    <2>4. LinksOf(Seen)' \subseteq LinksOf(Seen)
      BY <2>2, <2>3, <1>s DEF LinksOf
    <2>5. ~cut' => LinksOf(Seen)' \subseteq frontier' \cup visited'
      BY <2>1, <2>2, <2>4 DEF CrawlOK, Unvisited
    <2> QED
      BY <2>1, <2>2, <2>3, <2>5 DEF CrawlOK
  <1>3. CASE NextPage
    <2>1. PICK u \in Unvisited :
              batch' = {u} /\ visited' = visited \cup {u} /\ frontier' = frontier \ {u}
      BY <1>3 DEF NextPage
    <2>2. phase = "crawl" /\ phase' = "load" /\ UNCHANGED <<site, render, served, pages, results, missed, cut>>
      BY <1>3 DEF NextPage
    <2>3. Seen' \subseteq Seen /\ InClone' = InClone
      BY <2>1, <2>2, <1>s DEF Seen, CrawlOK
    <2>4. LinksOf(Seen)' \subseteq LinksOf(Seen)
      BY <2>2, <2>3, <1>s DEF LinksOf
    <2> QED
      BY <2>1, <2>2, <2>3, <2>4 DEF CrawlOK
  <1>4. ASSUME NEW u \in batch, Load(u) PROVE CrawlOK'
    <2>1. /\ phase = "load" /\ batch' = batch \ {u}
          /\ UNCHANGED <<site, render, served, phase, pages, visited, frontier, cut>>
      BY <1>4 DEF Load
    <2>2. /\ IsFiniteSet(results') /\ results \subseteq results'
          /\ missed \subseteq missed' /\ u \in results' \cup missed'
      <3>1. CASE results' = results /\ missed' = missed \cup {u}
        BY <3>1 DEF CrawlOK
      <3>2. ASSUME NEW g \in Page, results' = results \cup {g}, missed' = missed \cup ({u} \ {g})
            PROVE  <2>2!1
        BY <3>2, FS_AddElement DEF CrawlOK
      <3> QED
        BY <1>4, <3>1, <3>2, FS_AddElement DEF Load, CrawlOK
    <2>3. Seen' \subseteq Seen /\ InClone' = InClone
      BY <2>1, <2>2, <1>s DEF Seen
    <2>4. LinksOf(Seen)' \subseteq LinksOf(Seen)
      BY <2>1, <2>3, <1>s DEF LinksOf
    <2>5. pages # {}
      BY <2>1 DEF CrawlOK
    <2> QED
      BY <2>1, <2>2, <2>3, <2>4, <2>5 DEF CrawlOK
  <1>5. CASE TakeResults
    <2>1. /\ phase = "load" /\ phase' = "crawl" /\ batch = {} /\ results' = {}
          /\ pages' = pages \cup New /\ frontier' = frontier \cup Followed
          /\ UNCHANGED <<site, render, served, visited, batch, missed, cut>>
      BY <1>5 DEF TakeResults
    <2>2. New \subseteq results /\ IsFiniteSet(New)
      BY FS_Subset DEF New, CrawlOK
    <2>3. IsFiniteSet(pages') /\ IsFiniteSet(results')
      BY <2>1, <2>2, FS_Union, FS_EmptySet DEF CrawlOK
    <2>4. InClone \subseteq InClone' /\ results \subseteq InClone'
      <3>1. ASSUME NEW p \in results PROVE p \in InClone'
        <4>1. CASE p \in pages'
          BY <4>1 DEF InClone
        <4>2. CASE p \notin pages'
          <5>1. p \in Page /\ render /\ \E q \in pages : site.file[q] = site.file[p]
            BY <2>1, <4>2 DEF New, TypeOK
          <5> QED
            BY <2>1, <5>1 DEF InClone
        <4> QED
          BY <4>1, <4>2
      <3> QED
        BY <2>1, <3>1, CloneGrows
    <2>5. pages' # {} /\ served \subseteq pages'
      <3>1. CASE pages = {}
        <4>1. New = results
          BY <3>1 DEF New
        <4>2. results # {}
          BY <2>1, <3>1 DEF CrawlOK
        <4> QED
          BY <2>1, <3>1, <4>1, <4>2 DEF CrawlOK
      <3>2. CASE pages # {}
        BY <2>1, <3>2 DEF CrawlOK
      <3> QED
        BY <3>1, <3>2
    <2>6. ASSUME NEW p \in Seen' PROVE LinksIn(p) \subseteq LinksOf(Seen) \cup Followed
      <3>1. p \in Seen \/ p \in results
        BY <2>1, <2>2 DEF Seen
      <3>2. CASE p \in Seen
        BY <3>2 DEF LinksOf
      <3>3. CASE p \notin Seen
        <4>1. p \in results /\ p \notin pages
          BY <3>1, <3>3 DEF Seen
        <4>2. CASE render /\ pages # {}
          <5>1. p \notin served
            BY <4>1, <4>2 DEF CrawlOK
          <5>2. LinksIn(p) = site.rendered[p]
            BY <4>2, <5>1 DEF LinksIn
          <5> QED
            BY <4>1, <4>2, <5>2 DEF Followed
        <4>3. CASE ~(render /\ pages # {})
          <5>1. Followed = LinksOf(results \ pages)
            BY <4>3 DEF Followed
          <5> QED
            BY <4>1, <5>1 DEF LinksOf
        <4> QED
          BY <4>2, <4>3
      <3> QED
        BY <3>2, <3>3
    <2>7. ~cut' => LinksOf(Seen)' \subseteq frontier' \cup visited'
      <3> SUFFICES ASSUME ~cut', NEW p \in Seen' PROVE LinksIn(p)' \subseteq frontier' \cup visited'
        BY DEF LinksOf
      <3>1. LinksIn(p)' = LinksIn(p)
        BY <2>1 DEF LinksIn
      <3> QED
        BY <2>1, <2>6, <3>1 DEF CrawlOK
    <2>8. visited' \subseteq InClone' \cup missed'
      BY <2>1, <2>4 DEF CrawlOK
    <2> QED
      BY <2>1, <2>3, <2>5, <2>7, <2>8 DEF CrawlOK
  <1>6. ASSUME UNCHANGED <<site, render, crawlVars>>,
               \/ phase' \in {phase, "crashed"}
               \/ phase \in {"crawl", "assets"} /\ phase' \in {"assets", "done"} /\ Stopped'
        PROVE  CrawlOK'
    <2>1. InClone' = InClone /\ Seen' = Seen /\ LinksOf(Seen)' = LinksOf(Seen) /\ Stopped' = Stopped
      BY <1>6, <1>s DEF LinksOf, Seen, Stopped, Unvisited, crawlVars
    <2> QED
      BY <1>6, <2>1 DEF CrawlOK, crawlVars
  <1>7. CASE PackRendered \/ CollectAssets \/ Pack
    <2>1. UNCHANGED <<site, render, crawlVars>> /\ phase \in {"crawl", "assets"} /\ phase' \in {"assets", "done"}
      BY <1>7 DEF PackRendered, CollectAssets, Pack, Crawled
    <2>2. Stopped
      BY <1>7 DEF PackRendered, CollectAssets, Pack, Crawled, Stopped, CrawlOK
    <2>3. Stopped'
      BY <2>1, <2>2 DEF Stopped, Unvisited, crawlVars
    <2> QED
      BY <1>6, <2>1, <2>3
  <1>8. CASE Captures
    <2>1. UNCHANGED <<site, render, crawlVars>> /\ phase' \in {phase, "crashed"}
      BY <1>8 DEF Captures, BodyArrives, BodyKept, CapturePage, LateBody
    <2>2. \/ phase' \in {phase, "crashed"}
          \/ phase \in {"crawl", "assets"} /\ phase' \in {"assets", "done"} /\ Stopped'
      BY <2>1
    <2> QED
      BY <1>6, <2>1, <2>2
  <1>9. CASE Downloads
    BY <1>7, <1>9, CrawlKept DEF Downloads, StartAsset, AssetArrives, NestedArrives, CollectNested,
       StartNested, AssetFails, NestedFails, KeepAsset
  <1>10. CASE UNCHANGED vars
    BY <1>10, CrawlKept DEF vars
  <1> QED
    BY <1>1, <1>2, <1>3, <1>4, <1>5, <1>7, <1>8, <1>9, <1>10 DEF Next, Crawls

LEMMA CrawlFollows == CrawlOK => CrawlCovers
  <1> SUFFICES ASSUME CrawlOK, phase \in {"assets", "done"}, ~cut, Cardinality(pages) < MaxPages
               PROVE  LinksOf(Loaded) \subseteq InClone \cup missed
    BY DEF CrawlCovers
  <1>1. Cardinality(pages) \in Nat
    BY FS_CardinalityType DEF CrawlOK
  <1>2. Unvisited = {}
    BY <1>1, ClonerAssumption DEF CrawlOK, Stopped
  <1>3. Loaded = Seen
    BY DEF CrawlOK, Loaded, Seen
  <1> QED
    BY <1>2, <1>3 DEF CrawlOK, Unvisited

(* The crawl leaves out nothing that a page links to which it has loaded. *)
THEOREM CrawlHolds == Spec => []CrawlCovers
  BY CloneTypes, CrawlStart, CrawlStep, CrawlFollows, PTL DEF Spec

-----------------------------------------------------------------------------
(* What is packed.                                                         *)

(* Every name of a file is in the ZIP, under the first file that has it. *)
NamesKept == \A i \in DOMAIN files : files[i].asset \in InZip

InHand == {worker[w].asset : w \in {v \in Worker : worker[v].at # "idle"}}
Nested == {worker[w].next : w \in {v \in Worker : worker[v].at = "nested"}}

(* What a worker's stylesheet refers to is in its lists, brought in or failed. *)
SlotOK(w) ==
    /\ worker[w].at = "collect" /\ worker[w].asset \in Style =>
          site.nested[worker[w].asset] \subseteq worker[w].unread \cup worker[w].todo \cup extra \cup failed
    /\ worker[w].at = "nested" /\ worker[w].asset \in Style =>
          site.nested[worker[w].asset] \subseteq worker[w].todo \cup extra \cup failed

SlotsOK == \A w \in Worker : SlotOK(w)

(* What stylesheets brought in is in the ZIP, failed or under way. *)
BroughtIn == extra \subseteq InZip \cup failed \cup Nested

StylesFollowed == \A s \in Styled : site.nested[s] \subseteq extra \cup failed

(* What pages refer to waits, is in a worker's hands, in the ZIP or failed. *)
RefsFollowed ==
    phase \in {"assets", "done"} /\ ~render =>
        UNION {site.refs[p] : p \in pages} \subseteq InZip \cup failed \cup waiting \cup InHand

Finished == phase = "done" /\ ~render => waiting = {} /\ \A w \in Worker : worker[w] = Idle

PackOK == NamesKept /\ SlotsOK /\ BroughtIn /\ StylesFollowed /\ RefsFollowed /\ Finished

LEMMA PackStart == Init => PackOK
  <1> SUFFICES ASSUME Init PROVE PackOK
    OBVIOUS
  <1>1. DOMAIN files = {} /\ \A w \in Worker : worker[w].at = "idle"
    BY DEF Init, Idle
  <1>2. NamesKept /\ SlotsOK /\ StylesFollowed
    BY <1>1 DEF NamesKept, SlotsOK, SlotOK, StylesFollowed, Styled
  <1> QED
    BY <1>2 DEF Init, PackOK, BroughtIn, RefsFollowed, Finished

LEMMA PackFollows == PackOK => AssetsKept
  <1> SUFFICES ASSUME PackOK, phase = "done", ~render
               PROVE  UNION ({site.refs[p] : p \in pages} \cup {site.nested[s] : s \in Styled})
                          \subseteq InZip \cup failed
    BY DEF AssetsKept
  <1>1. waiting = {} /\ InHand = {} /\ Nested = {}
    BY DEF PackOK, Finished, InHand, Nested, Idle
  <1>2. UNION {site.refs[p] : p \in pages} \subseteq InZip \cup failed
    BY <1>1 DEF PackOK, RefsFollowed
  <1>3. \A s \in Styled : site.nested[s] \subseteq InZip \cup failed
    BY <1>1 DEF PackOK, BroughtIn, StylesFollowed
  <1> QED
    BY <1>2, <1>3

(* A file that comes is packed unless its name is, and takes nothing away. *)
LEMMA FileComes ==
    ASSUME TypeOK, NamesKept, NEW f \in File, files' = Append(files, f)
    PROVE  /\ NamesKept' /\ InZip' = InZip \cup {f.asset}
           /\ Styled' \subseteq Styled \cup IF f.rewritten THEN {f.asset} ELSE {}
  <1> DEFINE n == Len(files) + 1
  <1>1. /\ files \in Seq(File) /\ Len(files) \in Nat /\ DOMAIN files = 1..Len(files)
        /\ DOMAIN files' = 1..n /\ files'[n] = f /\ \A i \in 1..Len(files) : files'[i] = files[i]
    BY DEF TypeOK
  <1>2. \A i \in 1..Len(files) : i \in Packed' <=> i \in Packed
    BY <1>1 DEF Packed
  <1>3. n \in Packed' <=> \A j \in 1..Len(files) : files[j].asset # f.asset
    BY <1>1 DEF Packed
  <1>4. Packed \subseteq 1..Len(files) /\ Packed' \subseteq 1..n
    BY <1>1 DEF Packed
  <1>5. InZip \subseteq InZip'
    BY <1>1, <1>2, <1>4 DEF InZip
  <1>6. f.asset \in InZip'
    <2>1. CASE \A j \in 1..Len(files) : files[j].asset # f.asset
      BY <1>1, <1>3, <2>1 DEF InZip
    <2>2. ASSUME NEW j \in 1..Len(files), files[j].asset = f.asset PROVE f.asset \in InZip'
      BY <1>1, <1>5, <2>2 DEF NamesKept
    <2> QED
      BY <2>1, <2>2
  <1>7. InZip' \subseteq InZip \cup {f.asset}
    BY <1>1, <1>2, <1>4 DEF InZip
  <1>8. NamesKept'
    BY <1>1, <1>5, <1>6 DEF NamesKept
  <1>9. Styled' \subseteq Styled \cup IF f.rewritten THEN {f.asset} ELSE {}
    <2> SUFFICES ASSUME NEW s \in Style, NEW i \in 1..n, files'[i] = [asset |-> s, rewritten |-> TRUE],
                        s \notin Styled
                 PROVE  f.rewritten /\ f.asset = s
      BY <1>1 DEF Styled
    <2>1. i = n
      <3>1. SUFFICES ASSUME i # n PROVE FALSE
        OBVIOUS
      <3>2. i \in 1..Len(files)
        BY <1>1, <3>1
      <3>3. files[i] = [asset |-> s, rewritten |-> TRUE] /\ i \in DOMAIN files
        BY <1>1, <3>2
      <3> QED
        BY <3>3 DEF Styled
    <2>2. f = [asset |-> s, rewritten |-> TRUE]
      BY <1>1, <2>1
    <2> QED
      BY <2>2
  <1> QED
    BY <1>5, <1>6, <1>7, <1>8, <1>9

LEMMA NothingComes ==
    ASSUME NamesKept, files' = files
    PROVE  NamesKept' /\ InZip' = InZip /\ Styled' = Styled
  BY DEF NamesKept, InZip, Packed, Styled

(* What a slot needs to hand on when it takes job up. *)
LEMMA Moves ==
    ASSUME TypeOK, PackOK, NEW w \in Worker, NEW job \in Slot, Becomes(w, job),
           phase = "assets", UNCHANGED <<site, render, phase, pages>>,
           NamesKept', InZip \subseteq InZip', failed \subseteq failed', extra \subseteq extra',
           \A s \in Styled' \ Styled : site.nested[s] \subseteq extra' \cup failed',
           SlotOK(w)',
           extra' \subseteq extra \cup InZip' \cup failed' \cup IF job.at = "nested" THEN {job.next} ELSE {},
           worker[w].at = "nested" => worker[w].next \in InZip' \cup failed',
           worker[w].at # "idle" =>
               worker[w].asset \in InZip' \cup failed' \cup IF job.at # "idle" THEN {job.asset} ELSE {},
           waiting \subseteq waiting' \cup failed' \cup IF job.at # "idle" THEN {job.asset} ELSE {}
    PROVE  PackOK'
  <1>1. worker'[w] = job /\ \A v \in Worker : v # w => worker'[v] = worker[v]
    BY DEF Becomes, TypeOK
  <1>2. SlotsOK'
    <2> SUFFICES ASSUME NEW v \in Worker, v # w PROVE SlotOK(v)'
      BY DEF SlotsOK
    <2>1. SlotOK(v)
      BY DEF PackOK, SlotsOK
    <2> QED
      BY <1>1, <2>1 DEF SlotOK
  <1>3. Nested \subseteq Nested' \cup InZip' \cup failed'
    BY <1>1 DEF Nested
  <1>4. job.at = "nested" => job.next \in Nested'
    BY <1>1 DEF Nested
  <1>5. BroughtIn'
    BY <1>3, <1>4 DEF PackOK, BroughtIn
  <1>6. StylesFollowed'
    BY DEF PackOK, StylesFollowed
  <1>7. InHand \subseteq InHand' \cup InZip' \cup failed'
    BY <1>1 DEF InHand
  <1>8. job.at # "idle" => job.asset \in InHand'
    BY <1>1 DEF InHand
  <1>9. RefsFollowed'
    BY <1>7, <1>8 DEF PackOK, RefsFollowed
  <1> QED
    BY <1>2, <1>5, <1>6, <1>9 DEF PackOK, Finished

LEMMA PackDownloads ==
    ASSUME TypeOK, PackOK, Downloads
    PROVE  PackOK'
  <1>0. NamesKept /\ SlotsOK
    BY DEF PackOK
  <1>1. CASE CollectAssets
    <2>1. UNCHANGED <<site, worker, extra, files, failed>> /\ phase' = "assets"
      BY <1>1 DEF CollectAssets
    <2>2. RefsFollowed'
      BY <1>1 DEF CollectAssets, RefsFollowed, crawlVars
    <2> QED
      BY <1>0, <2>1, <2>2, NothingComes
         DEF PackOK, SlotsOK, SlotOK, BroughtIn, Nested, StylesFollowed, Finished
  <1>2. CASE Pack
    BY <1>0, <1>2, NothingComes DEF Pack, crawlVars, loadVars, PackOK, SlotsOK, SlotOK, BroughtIn, Nested,
       StylesFollowed, RefsFollowed, InHand, Finished
  <1>3. ASSUME NEW w \in Worker, NEW a \in waiting, StartAsset(w, a) PROVE PackOK'
    <2>1. /\ phase = "assets" /\ worker[w] = Idle /\ waiting' = waiting \ {a}
          /\ UNCHANGED <<site, render, phase, pages, extra, files>>
      BY <1>3 DEF StartAsset, crawlVars
    <2>2. worker[w].at = "idle"
      BY <2>1 DEF Idle
    <2>3. CASE Full
      <3>1. failed' = failed \cup {a} /\ worker' = worker
        BY <1>3, <2>3 DEF StartAsset
      <3>2. Becomes(w, Idle) /\ Idle \in Slot /\ Idle.at = "idle"
        BY <2>1, <3>1 DEF Becomes, TypeOK, Slot, Idle
      <3>3. SlotOK(w)'
        BY <2>1, <2>2, <3>1 DEF SlotOK
      <3> QED
        BY <1>0, <2>1, <2>2, <3>1, <3>2, <3>3, NothingComes, Moves
    <2>4. CASE ~Full
      <3> DEFINE job == [at |-> "fetch", asset |-> a]
      <3>1. Becomes(w, job) /\ failed' = failed
        BY <1>3, <2>4 DEF StartAsset
      <3>2. job \in Slot /\ job.at = "fetch" /\ job.asset = a
        BY DEF Slot, TypeOK
      <3>3. SlotOK(w)'
        BY <3>1, <3>2 DEF SlotOK, Becomes, TypeOK
      <3> HIDE DEF job
      <3> QED
        BY <1>0, <2>1, <2>2, <3>1, <3>2, <3>3, NothingComes, Moves
    <2> QED
      BY <2>3, <2>4
  <1>4. ASSUME NEW w \in Worker, NEW n \in 0..MaxBody, AssetArrives(w, n) PROVE PackOK'
    <2> DEFINE a == worker[w].asset
               job == [at |-> "collect", asset |-> a, todo |-> {},
                       unread |-> IF a \in Style THEN site.nested[a] ELSE {}]
    <2>1. /\ phase = "assets" /\ worker[w].at = "fetch"
          /\ UNCHANGED <<site, render, phase, pages, waiting, extra, files>>
      BY <1>4 DEF AssetArrives, Job, crawlVars
    <2>2. a \in Asset
      BY <2>1, SlotFields
    <2>3. CASE bytes' > MaxBytes
      <3>1. Becomes(w, Idle) /\ failed' = failed \cup {a}
        BY <1>4, <2>3 DEF AssetArrives
      <3>2. Idle \in Slot /\ Idle.at = "idle"
        BY DEF Slot, Idle
      <3>3. SlotOK(w)'
        BY <3>1, <3>2 DEF SlotOK, Becomes, TypeOK
      <3> QED
        BY <1>0, <2>1, <3>1, <3>2, <3>3, NothingComes, Moves
    <2>4. CASE ~(bytes' > MaxBytes)
      <3>1. Becomes(w, job) /\ failed' = failed
        BY <1>4, <2>4 DEF AssetArrives
      <3>2. /\ job \in Slot /\ job.at = "collect" /\ job.asset = a
            /\ a \in Style => job.unread = site.nested[a]
        BY <2>2, SiteShape DEF Slot
      <3>3. SlotOK(w)'
        <4>1. worker'[w] = job
          BY <3>1 DEF Becomes, TypeOK
        <4> QED
          BY <2>1, <3>2, <4>1 DEF SlotOK
      <3> HIDE DEF job
      <3> QED
        BY <1>0, <2>1, <3>1, <3>2, <3>3, NothingComes, Moves
    <2> QED
      BY <2>3, <2>4
  <1>5. ASSUME NEW w \in Worker, NEW n \in 0..MaxBody, NestedArrives(w, n) PROVE PackOK'
    <2> DEFINE job == Returns(worker[w], worker[w].todo)
               f == [asset |-> worker[w].next, rewritten |-> FALSE]
    <2>1. /\ phase = "assets" /\ worker[w].at = "nested" /\ Becomes(w, job) /\ files' = Append(files, f)
          /\ UNCHANGED <<site, render, phase, pages, waiting, extra, failed>>
      BY <1>5 DEF NestedArrives, Job, crawlVars
    <2>2. worker[w] \in [at : {"nested"}, asset : Asset, todo : SUBSET Asset, next : Asset]
      BY <2>1, SlotFields
    <2>3. /\ job \in Slot /\ job.at = "collect" /\ job.asset = worker[w].asset
          /\ job.todo = worker[w].todo
      BY <2>2 DEF Slot, Returns
    <2>4. f \in File /\ f.asset = worker[w].next /\ f.rewritten = FALSE
      BY <2>2 DEF File
    <2>5. worker'[w] = job
      BY <2>1 DEF Becomes, TypeOK
    <2>6. SlotOK(w)'
      BY <1>0, <2>1, <2>3, <2>5 DEF SlotsOK, SlotOK
    <2> HIDE DEF job, f
    <2>7. NamesKept' /\ InZip' = InZip \cup {worker[w].next} /\ Styled' \subseteq Styled
      BY <1>0, <2>1, <2>4, FileComes
    <2> QED
      BY <2>1, <2>3, <2>6, <2>7, Moves
  <1>6. ASSUME NEW w \in Worker, NEW n \in Asset, CollectNested(w, n) PROVE PackOK'
    <2> DEFINE job == [worker[w] EXCEPT !.unread = @ \ {n}, !.todo = IF n \in extra THEN @ ELSE @ \cup {n}]
    <2>1. /\ phase = "assets" /\ worker[w].at = "collect" /\ Becomes(w, job)
          /\ UNCHANGED <<site, render, phase, pages, waiting, extra, files, failed>>
      BY <1>6 DEF CollectNested, Job, crawlVars
    <2>2. worker[w] \in [at : {"collect"}, asset : Asset, todo : SUBSET Asset, unread : SUBSET Asset]
      BY <2>1, SlotFields
    <2>3. /\ job \in Slot /\ job.at = "collect" /\ job.asset = worker[w].asset
          /\ worker[w].unread \cup worker[w].todo \subseteq job.unread \cup job.todo \cup extra
      BY <2>2 DEF Slot
    <2>4. worker'[w] = job
      BY <2>1 DEF Becomes, TypeOK
    <2>5. SlotOK(w)'
      BY <1>0, <2>1, <2>3, <2>4 DEF SlotsOK, SlotOK
    <2> HIDE DEF job
    <2> QED
      BY <1>0, <2>1, <2>3, <2>5, NothingComes, Moves
  <1>7. ASSUME NEW w \in Worker, NEW n \in Asset, StartNested(w, n) PROVE PackOK'
    <2>1. /\ phase = "assets" /\ worker[w].at = "collect" /\ worker[w].unread = {}
          /\ UNCHANGED <<site, render, phase, pages, waiting, files>>
      BY <1>7 DEF StartNested, Collected, Job, crawlVars
    <2>2. worker[w] \in [at : {"collect"}, asset : Asset, todo : SUBSET Asset, unread : SUBSET Asset]
      BY <2>1, SlotFields
    <2>3. CASE Full
      <3> DEFINE job == [worker[w] EXCEPT !.todo = {}]
      <3>1. Becomes(w, job) /\ failed' = failed \cup worker[w].todo /\ extra' = extra
        BY <1>7, <2>3 DEF StartNested
      <3>2. job \in Slot /\ job.at = "collect" /\ job.asset = worker[w].asset
        BY <2>2 DEF Slot
      <3>3. worker'[w] = job
        BY <3>1 DEF Becomes, TypeOK
      <3>4. SlotOK(w)'
        BY <1>0, <2>1, <3>1, <3>2, <3>3 DEF SlotsOK, SlotOK
      <3> HIDE DEF job
      <3> QED
        BY <1>0, <2>1, <3>1, <3>2, <3>4, NothingComes, Moves
    <2>4. CASE ~Full
      <3> DEFINE job == [at |-> "nested", asset |-> worker[w].asset, todo |-> worker[w].todo \ {n}, next |-> n]
      <3>1. Becomes(w, job) /\ failed' = failed /\ extra' = extra \cup {n}
        BY <1>7, <2>4 DEF StartNested
      <3>2. /\ job \in Slot /\ job.at = "nested" /\ job.asset = worker[w].asset
            /\ job.todo = worker[w].todo \ {n} /\ job.next = n
        BY <2>2 DEF Slot
      <3>3. worker'[w] = job
        BY <3>1 DEF Becomes, TypeOK
      <3>4. SlotOK(w)'
        BY <1>0, <2>1, <3>1, <3>2, <3>3 DEF SlotsOK, SlotOK
      <3> HIDE DEF job
      <3> QED
        BY <1>0, <2>1, <3>1, <3>2, <3>4, NothingComes, Moves
    <2> QED
      BY <2>3, <2>4
  <1>8. ASSUME NEW w \in Worker, AssetFails(w) PROVE PackOK'
    <2>1. /\ phase = "assets" /\ worker[w].at = "fetch" /\ Becomes(w, Idle)
          /\ failed' = failed \cup {worker[w].asset}
          /\ UNCHANGED <<site, render, phase, pages, waiting, extra, files>>
      BY <1>8 DEF AssetFails, Job, Released, crawlVars
    <2>2. Idle \in Slot /\ Idle.at = "idle"
      BY DEF Slot, Idle
    <2>3. SlotOK(w)'
      BY <2>1, <2>2 DEF SlotOK, Becomes, TypeOK
    <2> QED
      BY <1>0, <2>1, <2>2, <2>3, NothingComes, Moves
  <1>9. ASSUME NEW w \in Worker, NestedFails(w) PROVE PackOK'
    <2> DEFINE job == Returns(worker[w], worker[w].todo)
    <2>1. /\ phase = "assets" /\ worker[w].at = "nested" /\ Becomes(w, job)
          /\ failed' = failed \cup {worker[w].next}
          /\ UNCHANGED <<site, render, phase, pages, waiting, extra, files>>
      BY <1>9 DEF NestedFails, AfterFailure, Job, crawlVars
    <2>2. worker[w] \in [at : {"nested"}, asset : Asset, todo : SUBSET Asset, next : Asset]
      BY <2>1, SlotFields
    <2>3. /\ job \in Slot /\ job.at = "collect" /\ job.asset = worker[w].asset
          /\ job.todo = worker[w].todo
      BY <2>2 DEF Slot, Returns
    <2>4. worker'[w] = job
      BY <2>1 DEF Becomes, TypeOK
    <2>5. SlotOK(w)'
      BY <1>0, <2>1, <2>3, <2>4 DEF SlotsOK, SlotOK
    <2> HIDE DEF job
    <2> QED
      BY <1>0, <2>1, <2>3, <2>5, NothingComes, Moves
  <1>10. ASSUME NEW w \in Worker, KeepAsset(w) PROVE PackOK'
    <2> DEFINE a == worker[w].asset
               f == [asset |-> a, rewritten |-> a \in Style]
    <2>1. /\ phase = "assets" /\ worker[w].at = "collect" /\ worker[w].unread = {} /\ worker[w].todo = {}
          /\ Becomes(w, Idle) /\ files' = Append(files, f)
          /\ UNCHANGED <<site, render, phase, pages, waiting, extra, failed>>
      BY <1>10 DEF KeepAsset, Collected, Job, crawlVars
    <2>2. a \in Asset
      BY <2>1, SlotFields
    <2>3. (a \in Style) \in BOOLEAN
      OBVIOUS
    <2>4. f \in File /\ f.asset = a /\ (f.rewritten <=> a \in Style)
      BY <2>2, <2>3 DEF File
    <2>5. Idle \in Slot /\ Idle.at = "idle"
      BY DEF Slot, Idle
    <2>6. SlotOK(w)'
      BY <2>1, <2>5 DEF SlotOK, Becomes, TypeOK
    <2>7. a \in Style => site.nested[a] \subseteq extra \cup failed
      BY <1>0, <2>1 DEF SlotsOK, SlotOK
    <2> HIDE DEF f
    <2>8. NamesKept' /\ InZip' = InZip \cup {a} /\ Styled' \subseteq Styled \cup IF a \in Style THEN {a} ELSE {}
      BY <1>0, <2>1, <2>4, FileComes
    <2> QED
      BY <2>1, <2>5, <2>6, <2>7, <2>8, Moves
  <1> QED
    BY <1>1, <1>2, <1>3, <1>4, <1>5, <1>6, <1>7, <1>8, <1>9, <1>10 DEF Downloads

LEMMA PackStep == TypeOK /\ PackOK /\ [Next]_vars => PackOK'
  <1> SUFFICES ASSUME TypeOK, PackOK, [Next]_vars PROVE PackOK'
    OBVIOUS
  <1>1. ASSUME UNCHANGED <<site, loadVars>>, RefsFollowed', Finished' PROVE PackOK'
    <2>1. NamesKept' /\ InZip' = InZip /\ Styled' = Styled
      BY <1>1, NothingComes DEF PackOK, loadVars
    <2> QED
      BY <1>1, <2>1 DEF PackOK, SlotsOK, SlotOK, BroughtIn, Nested, StylesFollowed, loadVars
  <1>2. CASE Crawls
    <2>1. UNCHANGED <<site, render, loadVars>>
      BY <1>2 DEF Crawls, FirstPage, NextLevel, NextPage, Load, TakeResults, PackRendered
    <2>2. phase' \in {"assets", "done"} => render
      BY <1>2 DEF Crawls, FirstPage, NextLevel, NextPage, Load, TakeResults, PackRendered
    <2> QED
      BY <1>1, <2>1, <2>2 DEF RefsFollowed, Finished
  <1>3. CASE Captures
    <2>1. UNCHANGED <<site, render, pages, loadVars>> /\ phase' \in {phase, "crashed"}
      BY <1>3 DEF Captures, BodyArrives, BodyKept, CapturePage, LateBody, crawlVars
    <2>2. InZip' = InZip
      BY <2>1, NothingComes DEF PackOK, loadVars
    <2> QED
      BY <1>1, <2>1, <2>2 DEF PackOK, RefsFollowed, InHand, Finished, loadVars
  <1>4. CASE Downloads
    BY <1>4, PackDownloads
  <1>5. CASE UNCHANGED vars
    <2>1. InZip' = InZip
      BY <1>5, NothingComes DEF PackOK, vars, loadVars
    <2> QED
      BY <1>1, <1>5, <2>1 DEF PackOK, RefsFollowed, InHand, Finished, vars, crawlVars, loadVars
  <1> QED
    BY <1>2, <1>3, <1>4, <1>5 DEF Next

(* The ZIP has what the clone needs, or it failed. *)
THEOREM AssetsHold == Spec => []AssetsKept
  BY CloneTypes, PackStart, PackStep, PackFollows, PTL DEF Spec

-----------------------------------------------------------------------------
(* Stylesheets.  In general one can be packed as it was (StylesRewritten    *)
(* fails in a run).  The only cause is that another stylesheet imports it.  *)

PageStyles(s) == Style \cap UNION {s.refs[p] : p \in Page}
Imported(s) == UNION {s.nested[t] : t \in Style}

(* What workers bring in for a stylesheet is something a stylesheet refers to. *)
NestedImported ==
    \A w \in Worker :
        /\ worker[w].at = "collect" => worker[w].todo \cup worker[w].unread \subseteq Imported(site)
        /\ worker[w].at = "nested" => worker[w].todo \cup {worker[w].next} \subseteq Imported(site)

StylesInOrder ==
    \A i \in DOMAIN files : files[i].asset \in PageStyles(site) => files[i].rewritten

LEMMA SlotImported ==
    ASSUME TypeOK, NestedImported, NEW w \in Worker, NEW job \in Slot, Becomes(w, job),
           site' = site,
           job.at = "collect" => job.todo \cup job.unread \subseteq Imported(site),
           job.at = "nested" => job.todo \cup {job.next} \subseteq Imported(site)
    PROVE  NestedImported'
  <1>1. worker'[w] = job /\ \A v \in Worker : v # w => worker'[v] = worker[v]
    BY DEF Becomes, TypeOK
  <1>2. Imported(site)' = Imported(site)
    BY DEF Imported
  <1> QED
    BY <1>1, <1>2 DEF NestedImported

LEMMA FileInOrder ==
    ASSUME TypeOK, StylesInOrder, NEW f \in File, files' = Append(files, f), site' = site,
           f.asset \in PageStyles(site) => f.rewritten
    PROVE  StylesInOrder'
  <1>1. /\ DOMAIN files' = DOMAIN files \cup {Len(files) + 1}
        /\ files'[Len(files) + 1] = f /\ \A i \in DOMAIN files : files'[i] = files[i]
    BY DEF TypeOK
  <1>2. PageStyles(site)' = PageStyles(site)
    BY DEF PageStyles
  <1> QED
    BY <1>1, <1>2 DEF StylesInOrder

LEMMA OrderStep ==
    ASSUME TypeOK, NestedImported, StylesInOrder, PageStyles(site) \cap Imported(site) = {},
           [Next]_vars
    PROVE  NestedImported' /\ StylesInOrder'
  <1> DEFINE Goal == NestedImported' /\ StylesInOrder'
  <1>1. ASSUME UNCHANGED <<site, worker, files>> PROVE Goal
    BY <1>1 DEF NestedImported, StylesInOrder, Imported, PageStyles
  <1>2. CASE Crawls \/ Captures \/ CollectAssets \/ Pack \/ UNCHANGED vars
    <2>1. UNCHANGED <<site, worker, files>>
      BY <1>2 DEF Crawls, FirstPage, NextLevel, NextPage, Load, TakeResults, PackRendered,
                  Captures, BodyArrives, BodyKept, CapturePage, LateBody, CollectAssets, Pack,
                  crawlVars, loadVars, vars
    <2> QED
      BY <1>1, <2>1
  <1>3. ASSUME files' = files, site' = site PROVE StylesInOrder'
    BY <1>3 DEF StylesInOrder, PageStyles
  <1>4. ASSUME NEW w \in Worker, NEW a \in waiting, StartAsset(w, a) PROVE Goal
    <2>1. UNCHANGED <<site, files>>
      BY <1>4 DEF StartAsset
    <2>2. [at |-> "fetch", asset |-> a] \in Slot
      BY DEF TypeOK, Slot
    <2>3. NestedImported'
      BY <1>1, <1>4, <2>1, <2>2, SlotImported DEF StartAsset
    <2> QED
      BY <1>3, <2>1, <2>3
  <1>5. ASSUME NEW w \in Worker, NEW n \in 0..MaxBody, AssetArrives(w, n) PROVE Goal
    <2> DEFINE a == worker[w].asset
               job == [at |-> "collect", asset |-> a, todo |-> {},
                       unread |-> IF a \in Style THEN site.nested[a] ELSE {}]
    <2>1. UNCHANGED <<site, files>> /\ (Becomes(w, Idle) \/ Becomes(w, job))
      BY <1>5 DEF AssetArrives
    <2>2. a \in Asset
      BY <1>5, SlotFields DEF AssetArrives, Job
    <2>3. job \in Slot /\ Idle \in Slot /\ Idle.at = "idle"
      BY <2>2, SiteShape DEF Slot, Idle
    <2>4. job.at = "collect" /\ job.todo \cup job.unread \subseteq Imported(site)
      BY DEF Imported
    <2> HIDE DEF job
    <2>5. NestedImported'
      BY <2>1, <2>3, <2>4, SlotImported
    <2> QED
      BY <1>3, <2>1, <2>5
  <1>6. ASSUME NEW w \in Worker, NEW n \in 0..MaxBody, NestedArrives(w, n) PROVE Goal
    <2> DEFINE job == Returns(worker[w], worker[w].todo)
               f == [asset |-> worker[w].next, rewritten |-> FALSE]
    <2>1. worker[w].at = "nested" /\ Becomes(w, job) /\ files' = Append(files, f) /\ site' = site
      BY <1>6 DEF NestedArrives, Job
    <2>2. worker[w] \in [at : {"nested"}, asset : Asset, todo : SUBSET Asset, next : Asset]
      BY <2>1, SlotFields
    <2>3. worker[w].todo \cup {worker[w].next} \subseteq Imported(site)
      BY <2>1 DEF NestedImported
    <2>4. /\ job \in Slot /\ job.at = "collect" /\ job.todo = worker[w].todo /\ job.unread = {}
          /\ f \in File /\ f.asset = worker[w].next
      BY <2>2 DEF Slot, Returns, File
    <2> HIDE DEF job, f
    <2>5. NestedImported'
      BY <2>1, <2>3, <2>4, SlotImported
    <2>6. StylesInOrder'
      BY <2>1, <2>3, <2>4, FileInOrder
    <2> QED
      BY <2>5, <2>6
  <1>7. ASSUME NEW w \in Worker, NEW n \in Asset, CollectNested(w, n) PROVE Goal
    <2> DEFINE job == [worker[w] EXCEPT !.unread = @ \ {n}, !.todo = IF n \in extra THEN @ ELSE @ \cup {n}]
    <2>1. /\ worker[w].at = "collect" /\ n \in worker[w].unread /\ Becomes(w, job)
          /\ UNCHANGED <<site, files>>
      BY <1>7 DEF CollectNested, Job
    <2>2. worker[w] \in [at : {"collect"}, asset : Asset, todo : SUBSET Asset, unread : SUBSET Asset]
      BY <2>1, SlotFields
    <2>3. /\ job \in Slot /\ job.at = "collect"
          /\ job.todo \cup job.unread \subseteq worker[w].todo \cup worker[w].unread
      BY <2>1, <2>2 DEF Slot
    <2> HIDE DEF job
    <2>4. NestedImported'
      BY <2>1, <2>3, SlotImported DEF NestedImported
    <2> QED
      BY <1>3, <2>1, <2>4
  <1>8. ASSUME NEW w \in Worker, NEW n \in Asset, StartNested(w, n) PROVE Goal
    <2> DEFINE none == [worker[w] EXCEPT !.todo = {}]
               next == [at |-> "nested", asset |-> worker[w].asset, todo |-> worker[w].todo \ {n}, next |-> n]
    <2>1. /\ worker[w].at = "collect" /\ worker[w].unread = {} /\ n \in worker[w].todo
          /\ (Becomes(w, none) \/ Becomes(w, next)) /\ UNCHANGED <<site, files>>
      BY <1>8 DEF StartNested, Collected, Job
    <2>2. worker[w] \in [at : {"collect"}, asset : Asset, todo : SUBSET Asset, unread : SUBSET Asset]
      BY <2>1, SlotFields
    <2>3. /\ none \in Slot /\ none.at = "collect" /\ none.todo \cup none.unread = {}
          /\ next \in Slot /\ next.at = "nested" /\ next.todo \cup {next.next} = worker[w].todo
      BY <2>1, <2>2 DEF Slot
    <2> HIDE DEF none, next
    <2>4. worker[w].todo \subseteq Imported(site)
      BY <2>1 DEF NestedImported
    <2>5. NestedImported'
      BY <2>1, <2>3, <2>4, SlotImported
    <2> QED
      BY <1>3, <2>1, <2>5
  <1>9. ASSUME NEW w \in Worker, AssetFails(w) PROVE Goal
    <2>1. Becomes(w, Idle) /\ UNCHANGED <<site, files>> /\ Idle \in Slot /\ Idle.at = "idle"
      BY <1>9 DEF AssetFails, Released, Slot, Idle
    <2>2. NestedImported'
      BY <2>1, SlotImported
    <2> QED
      BY <1>3, <2>1, <2>2
  <1>10. ASSUME NEW w \in Worker, NestedFails(w) PROVE Goal
    <2> DEFINE job == Returns(worker[w], worker[w].todo)
    <2>1. worker[w].at = "nested" /\ Becomes(w, job) /\ UNCHANGED <<site, files>>
      BY <1>10 DEF NestedFails, AfterFailure, Job
    <2>2. worker[w] \in [at : {"nested"}, asset : Asset, todo : SUBSET Asset, next : Asset]
      BY <2>1, SlotFields
    <2>3. job \in Slot /\ job.at = "collect" /\ job.todo = worker[w].todo /\ job.unread = {}
      BY <2>2 DEF Slot, Returns
    <2> HIDE DEF job
    <2>4. NestedImported'
      BY <2>1, <2>3, SlotImported DEF NestedImported
    <2> QED
      BY <1>3, <2>1, <2>4
  <1>11. ASSUME NEW w \in Worker, KeepAsset(w) PROVE Goal
    <2> DEFINE f == [asset |-> worker[w].asset, rewritten |-> worker[w].asset \in Style]
    <2>1. /\ worker[w].at = "collect" /\ Becomes(w, Idle) /\ files' = Append(files, f)
          /\ site' = site /\ Idle \in Slot /\ Idle.at = "idle"
      BY <1>11 DEF KeepAsset, Collected, Job, Slot, Idle
    <2>2. worker[w].asset \in Asset
      BY <2>1, SlotFields
    <2>3. (worker[w].asset \in Style) \in BOOLEAN
      OBVIOUS
    <2>4. f \in File
      BY <2>2, <2>3 DEF File
    <2>5. f.asset \in PageStyles(site) => f.rewritten
      BY DEF PageStyles
    <2> HIDE DEF f
    <2>6. NestedImported' /\ StylesInOrder'
      BY <2>1, <2>4, <2>5, SlotImported, FileInOrder
    <2> QED
      BY <2>6
  <1> QED
    BY <1>2, <1>4, <1>5, <1>6, <1>7, <1>8, <1>9, <1>10, <1>11 DEF Next, Downloads

(* On a site where no stylesheet imports one that a page uses, the clone is *)
(* as the package promises: every stylesheet of a page is packed as it was  *)
(* rewritten (fetchAsset, fetchNestedCSS, buildZip).                        *)
THEOREM StylesHoldWithoutImports ==
    ASSUME \A s \in Site : PageStyles(s) \cap Imported(s) = {}
    PROVE  Spec => []StylesRewritten
  <1>1. Init => NestedImported /\ StylesInOrder
    <2> SUFFICES ASSUME Init PROVE NestedImported /\ StylesInOrder
      OBVIOUS
    <2>1. DOMAIN files = {} /\ \A w \in Worker : worker[w].at = "idle"
      BY DEF Init, Idle
    <2> QED
      BY <2>1 DEF NestedImported, StylesInOrder
  <1>2. TypeOK /\ NestedImported /\ StylesInOrder /\ [Next]_vars => NestedImported' /\ StylesInOrder'
    <2>1. TypeOK => PageStyles(site) \cap Imported(site) = {}
      BY DEF TypeOK
    <2> QED
      BY <2>1, OrderStep
  <1>3. TypeOK /\ StylesInOrder => StylesRewritten
    <2> SUFFICES ASSUME TypeOK, StylesInOrder, NEW i \in Packed,
                        files[i].asset \in Style \cap UNION {site.refs[p] : p \in pages}
                 PROVE  files[i].rewritten
      BY DEF StylesRewritten
    <2>1. files[i].asset \in PageStyles(site) /\ i \in DOMAIN files
      BY DEF PageStyles, Packed, TypeOK
    <2> QED
      BY <2>1 DEF StylesInOrder
  <1> QED
    BY <1>1, <1>2, <1>3, CloneTypes, PTL DEF Spec

=============================================================================
