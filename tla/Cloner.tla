------------------------------- MODULE Cloner -------------------------------
(***************************************************************************)
(* The cloner of sites (clone/clone.go, clone/render.go, api/handlers/     *)
(* clone.go): it crawls the pages of one host, downloads what they refer   *)
(* to with a pool of workers, and packs all of it into a ZIP; or it        *)
(* renders page after page in a browser and packs what the browser loaded. *)
(*                                                                         *)
(* A page is a URL of the host without its fragment, an asset any other    *)
(* URL.  Links and references form a site; what makes it interesting is    *)
(* that an asset may be both a page's and a stylesheet's, that scripts     *)
(* change the links of a page, and that pages may share a file.  The order *)
(* in which links appear, the names of the other files and the rewritten   *)
(* text are left out, and so are the assets of a rendered page.            *)
(***************************************************************************)
EXTENDS Naturals, Sequences, FiniteSets

CONSTANTS
    Page, Asset,
    Style,      \* the assets whose names end in .css
    Site,       \* the sites there are
    Worker,     \* the slots of the downloader (maxConcurrency)
    MaxPages, MaxAssets, MaxBytes,
    MaxBody,    \* the longest body of a response
    Response    \* what a browser's tab may load

(* A page links to others in the HTML the server sends and in what its     *)
(* scripts make of that; mirrorPagePath gives it a file, named after a page *)
(* of those that share it.                                                 *)
SiteOK(s) ==
    /\ s.links \in [Page -> SUBSET Page] /\ s.rendered \in [Page -> SUBSET Page]
    /\ s.file \in [Page -> Page]
    /\ s.refs \in [Page -> SUBSET Asset] /\ s.nested \in [Style -> SUBSET Asset]

ASSUME ClonerAssumption ==
    /\ MaxPages \in Nat \ {0} /\ MaxAssets \in Nat \ {0} /\ MaxBytes \in Nat \ {0}
    /\ MaxBody \in Nat /\ IsFiniteSet(Worker) /\ Worker # {}
    /\ Style \subseteq Asset
    /\ \A s \in Site : SiteOK(s)

VARIABLES
    site,      \* the site that is cloned
    render,    \* the mode that was asked for
    served,    \* the first page of a rendering crawl, if the clone keeps it
               \* as the server sent it
    phase,     \* what Clone is at
    pages,     \* pages cloned so far
    visited,   \* keys that were put into a batch, and the first page's
    frontier,  \* links to be followed
    batch,     \* pages that are being loaded
    results,   \* what loading them gave: pages, by final URL
    missed,    \* history: pages that could not be loaded, or led elsewhere
    cut,       \* history: a batch was cut short by the limit
    tab,       \* the browser's tab: the bodies asked for, and those that a
               \* goroutine has and will put into the map of the page
    waiting,   \* assets without a worker
    worker,    \* per slot: what it does
    extra,     \* assets that stylesheets brought in (extraLocal)
    count, bytes,
    files,     \* downloaded files, in the order they came
    failed     \* history: assets that failed, or were too much

crawlVars == <<served, pages, visited, frontier, batch, results, missed, cut>>
loadVars == <<waiting, worker, extra, count, bytes, files, failed>>
vars == <<site, render, phase, crawlVars, tab, loadVars>>

Idle == [at |-> "idle"]

(* A slot is idle, loads an asset, looks through what it has loaded, or     *)
(* loads what that refers to.                                              *)
Slot ==
    {Idle} \cup [at : {"fetch"}, asset : Asset]
    \cup [at : {"collect"}, asset : Asset, todo : SUBSET Asset, unread : SUBSET Asset]
    \cup [at : {"nested"}, asset : Asset, todo : SUBSET Asset, next : Asset]

File == [asset : Asset, rewritten : BOOLEAN]

NoTab == [at |-> "none", asked |-> {}, writing |-> {}]

Init ==
    /\ site \in Site /\ render \in BOOLEAN /\ served = {} /\ phase = "first"
    /\ pages = {} /\ visited = {} /\ frontier = {} /\ batch = {} /\ results = {}
    /\ missed = {} /\ cut = FALSE /\ tab = NoTab
    /\ waiting = {} /\ worker = [w \in Worker |-> Idle] /\ extra = {}
    /\ count = 0 /\ bytes = 0 /\ files = <<>> /\ failed = {}

-----------------------------------------------------------------------------
(* The crawl.                                                              *)

(* Where the crawl takes the links of a page from. *)
LinksIn(p) == IF render /\ p \notin served THEN site.rendered[p] ELSE site.links[p]

LinksOf(loaded) == UNION {LinksIn(p) : p \in loaded}

(* A rendered page leaves a tab whose bodies are being fetched. *)
Opens ==
    IF render THEN \E asked \in SUBSET Response : tab' = [at |-> "open", asked |-> asked, writing |-> {}]
    ELSE UNCHANGED tab

(* The first page gives the host; without it, or if the plan has no        *)
(* cloner, there is no clone.  The rendering crawl keeps what the server   *)
(* sent if its body came in time, and takes the links from what it keeps.  *)
FirstPage ==
    /\ phase = "first"
    /\ \/ \E p \in Page :
             /\ results' = {p} /\ visited' = {p} /\ phase' = "load" /\ Opens
             /\ served' \in {{}, {p}} /\ (~render => served' = {})
       \/ phase' = "refused" /\ UNCHANGED <<served, results, visited, tab>>
    /\ UNCHANGED <<site, render, pages, frontier, batch, missed, cut, loadVars>>

Unvisited == frontier \ visited

(* A level of the crawl: all that is left, or as much of it as the limit   *)
(* lets through, and the rest is forgotten.                                *)
NextLevel ==
    /\ phase = "crawl" /\ ~render /\ Unvisited # {} /\ Cardinality(pages) < MaxPages
    /\ \E b \in SUBSET Unvisited :
          /\ \/ b = Unvisited /\ Cardinality(pages) + Cardinality(b) <= MaxPages
             \/ Cardinality(pages) + Cardinality(b) = MaxPages
          /\ batch' = b /\ visited' = visited \cup b
          /\ cut' = (cut \/ b # Unvisited)
    /\ frontier' = {} /\ phase' = "load"
    /\ UNCHANGED <<site, render, served, pages, results, missed, tab, loadVars>>

(* The rendering crawl takes one link at a time. *)
NextPage ==
    /\ phase = "crawl" /\ render /\ Unvisited # {} /\ Cardinality(pages) < MaxPages
    /\ \E u \in Unvisited :
          /\ batch' = {u} /\ visited' = visited \cup {u} /\ frontier' = frontier \ {u}
    /\ phase' = "load"
    /\ UNCHANGED <<site, render, served, pages, results, missed, cut, tab, loadVars>>

(* loadPage, capturePage: a page of the host, another that it redirects to, *)
(* or nothing to keep, which the deadline makes of every request after it.  *)
Load(u) ==
    /\ phase = "load" /\ u \in batch /\ batch' = batch \ {u}
    /\ \/ \E g \in Page :
             results' = results \cup {g} /\ missed' = missed \cup ({u} \ {g}) /\ Opens
       \/ missed' = missed \cup {u} /\ UNCHANGED <<results, tab>>
    /\ UNCHANGED <<site, render, served, phase, pages, visited, frontier, cut, loadVars>>

BodyArrives(r) ==
    /\ tab.at = "open" /\ r \in tab.asked
    /\ tab' = [tab EXCEPT !.asked = @ \ {r}, !.writing = @ \cup {r}]
    /\ UNCHANGED <<site, render, phase, crawlVars, loadVars>>

BodyKept(r) ==
    /\ tab.at = "open" /\ r \in tab.writing /\ tab' = [tab EXCEPT !.writing = @ \ {r}]
    /\ UNCHANGED <<site, render, phase, crawlVars, loadVars>>

(* waitWG returns when all bodies are there or after six seconds, the tab  *)
(* is cancelled, and process ranges over the map itself.                   *)
CapturePage ==
    /\ tab.at = "open" /\ tab' = [tab EXCEPT !.at = "range", !.asked = {}]
    /\ UNCHANGED <<site, render, phase, crawlVars, loadVars>>

(* A write into a map that is ranged over, which the runtime may notice    *)
(* and then ends the program.                                              *)
LateBody(r) ==
    /\ tab.at = "range" /\ r \in tab.writing /\ tab' = [tab EXCEPT !.writing = @ \ {r}]
    /\ phase' \in {phase, "crashed"}
    /\ UNCHANGED <<site, render, crawlVars, loadVars>>

(* Pages that come into the clone: those not in it, and in the rendering   *)
(* crawl none whose file is taken.                                         *)
New == IF render THEN {p \in results : \A q \in pages : site.file[q] # site.file[p]}
                 ELSE results \ pages

(* A faulty crawl that follows only the links of the pages it asked for. *)
FollowedAsked == LinksOf((results \cap visited) \ pages)

(* After its first page the rendering crawl follows the links of the       *)
(* rendered page, whatever it keeps of it, and even if it keeps nothing.   *)
Followed ==
    IF render /\ pages # {} THEN UNION {site.rendered[p] : p \in results}
                            ELSE LinksOf(results \ pages)

(* After wg.Wait; process. *)
TakeResults ==
    /\ phase = "load" /\ batch = {} /\ tab.at # "open" /\ tab' = NoTab
    /\ pages' = pages \cup New /\ results' = {}
    /\ frontier' = frontier \cup Followed
    /\ phase' = "crawl"
    /\ UNCHANGED <<site, render, served, visited, batch, missed, cut, loadVars>>

Crawled == phase = "crawl" /\ (Unvisited = {} \/ Cardinality(pages) >= MaxPages)

(* The rendered pages and what came with them are packed as they are. *)
PackRendered ==
    /\ Crawled /\ render /\ phase' = "done"
    /\ UNCHANGED <<site, render, crawlVars, tab, loadVars>>

-----------------------------------------------------------------------------
(* The downloads.                                                          *)

CollectAssets ==
    /\ Crawled /\ ~render /\ phase' = "assets"
    /\ waiting' = UNION {site.refs[p] : p \in pages}
    /\ UNCHANGED <<site, render, crawlVars, tab, worker, extra, count, bytes, files, failed>>

Becomes(w, job) == worker' = [worker EXCEPT ![w] = job]

(* A faulty limit that is noticed one file too late. *)
FullLate == count > MaxAssets \/ bytes >= MaxBytes

Full == count >= MaxAssets \/ bytes >= MaxBytes

(* A faulty worker that does not give its slot back when a request fails. *)
ReleasedNever == [at |-> "stuck"]

Released == Idle

(* A goroutine gets a slot and counts its asset, or finds that it is full. *)
StartAsset(w, a) ==
    /\ phase = "assets" /\ worker[w] = Idle /\ a \in waiting /\ waiting' = waiting \ {a}
    /\ IF Full
       THEN failed' = failed \cup {a} /\ UNCHANGED <<worker, count>>
       ELSE /\ Becomes(w, [at |-> "fetch", asset |-> a]) /\ count' = count + 1
            /\ UNCHANGED failed
    /\ UNCHANGED <<site, render, phase, crawlVars, tab, extra, bytes, files>>

Job(w, at) == phase = "assets" /\ worker[w].at = at

(* The answer; a file that takes the total over the limit is dropped, but  *)
(* stays in the total.                                                     *)
AssetArrives(w, n) ==
    LET a == worker[w].asset IN
    /\ Job(w, "fetch") /\ bytes' = bytes + n
    /\ IF bytes' > MaxBytes
       THEN Becomes(w, Idle) /\ failed' = failed \cup {a}
       ELSE /\ Becomes(w, [at |-> "collect", asset |-> a, todo |-> {},
                           unread |-> IF a \in Style THEN site.nested[a] ELSE {}])
            /\ UNCHANGED failed
    /\ UNCHANGED <<site, render, phase, crawlVars, tab, waiting, extra, count, files>>

AssetFails(w) ==
    /\ Job(w, "fetch") /\ Becomes(w, Released) /\ failed' = failed \cup {worker[w].asset}
    /\ UNCHANGED <<site, render, phase, crawlVars, tab, waiting, extra, count, bytes, files>>

(* One reference of a stylesheet: kept unless another stylesheet has       *)
(* brought it in.                                                          *)
CollectNested(w, n) ==
    LET job == worker[w] IN
    /\ Job(w, "collect") /\ n \in job.unread
    /\ Becomes(w, [job EXCEPT !.unread = @ \ {n}, !.todo = IF n \in extra THEN @ ELSE @ \cup {n}])
    /\ UNCHANGED <<site, render, phase, crawlVars, tab, waiting, extra, count, bytes, files, failed>>

Collected(w) == Job(w, "collect") /\ worker[w].unread = {}

(* The next of them is counted, or the rest given up. *)
StartNested(w, n) ==
    LET job == worker[w] IN
    /\ Collected(w) /\ n \in job.todo
    /\ IF Full
       THEN /\ Becomes(w, [job EXCEPT !.todo = {}]) /\ failed' = failed \cup job.todo
            /\ UNCHANGED <<count, extra>>
       ELSE /\ Becomes(w, [at |-> "nested", asset |-> job.asset, todo |-> job.todo \ {n}, next |-> n])
            /\ count' = count + 1 /\ extra' = extra \cup {n} /\ UNCHANGED failed
    /\ UNCHANGED <<site, render, phase, crawlVars, tab, waiting, bytes, files>>

Returns(job, todo) == [at |-> "collect", asset |-> job.asset, todo |-> todo, unread |-> {}]

(* A nested file is kept even over the limit, and never rewritten. *)
NestedArrives(w, n) ==
    LET job == worker[w] IN
    /\ Job(w, "nested") /\ bytes' = bytes + n /\ Becomes(w, Returns(job, job.todo))
    /\ files' = Append(files, [asset |-> job.next, rewritten |-> FALSE])
    /\ UNCHANGED <<site, render, phase, crawlVars, tab, waiting, extra, count, failed>>

(* A faulty loop that returns where it should continue. *)
AfterFailureNothing(job) == {}

AfterFailure(job) == job.todo

NestedFails(w) ==
    LET job == worker[w] IN
    /\ Job(w, "nested") /\ Becomes(w, Returns(job, AfterFailure(job)))
    /\ failed' = failed \cup {job.next}
    /\ UNCHANGED <<site, render, phase, crawlVars, tab, waiting, extra, count, bytes, files>>

(* The file itself comes last; a stylesheet's references are rewritten. *)
KeepAsset(w) ==
    LET a == worker[w].asset IN
    /\ Collected(w) /\ worker[w].todo = {} /\ Becomes(w, Idle)
    /\ files' = Append(files, [asset |-> a, rewritten |-> a \in Style])
    /\ UNCHANGED <<site, render, phase, crawlVars, tab, waiting, extra, count, bytes, failed>>

Pack ==
    /\ phase = "assets" /\ waiting = {} /\ \A w \in Worker : worker[w] = Idle
    /\ phase' = "done"
    /\ UNCHANGED <<site, render, crawlVars, tab, loadVars>>

Crawls == FirstPage \/ NextLevel \/ NextPage \/ (\E u \in batch : Load(u)) \/ TakeResults \/ PackRendered

Captures ==
    /\ phase # "crashed"
    /\ (\E r \in Response : BodyArrives(r) \/ BodyKept(r) \/ LateBody(r)) \/ CapturePage

Downloads ==
    \/ CollectAssets \/ Pack
    \/ \E w \in Worker :
          \/ \E a \in waiting : StartAsset(w, a)
          \/ \E n \in 0..MaxBody : AssetArrives(w, n) \/ NestedArrives(w, n)
          \/ \E n \in Asset : CollectNested(w, n) \/ StartNested(w, n)
          \/ AssetFails(w) \/ NestedFails(w) \/ KeepAsset(w)

Next == Crawls \/ Captures \/ Downloads

(* The request runs on its own, and its deadline ends every wait. *)
Spec == Init /\ [][Next]_vars /\ WF_vars(Next)

-----------------------------------------------------------------------------
(* Properties.                                                             *)

(* The type of the state, which the proofs rely on. *)
TypeOK ==
    /\ site \in Site /\ render \in BOOLEAN /\ cut \in BOOLEAN
    /\ phase \in {"first", "load", "crawl", "assets", "done", "refused", "crashed"}
    /\ served \cup pages \cup visited \cup frontier \cup batch \cup results \cup missed \subseteq Page
    /\ tab \in [at : {"none", "open", "range"}, asked : SUBSET Response, writing : SUBSET Response]
    /\ waiting \cup extra \cup failed \subseteq Asset
    /\ worker \in [Worker -> Slot] /\ count \in Nat /\ bytes \in Nat
    /\ files \in Seq(File)

(* The limits of the downloader hold although its workers check them       *)
(* before they know how long a body is: the number of downloads exactly,   *)
(* the bytes but for one body per worker (fetchAsset, fetchNestedCSS).     *)
BudgetKept ==
    /\ count <= MaxAssets
    /\ bytes < MaxBytes + Cardinality(Worker) * MaxBody

(* Pages that were loaded, kept or not, and pages that can be opened in the *)
(* clone: in a rendered one, those that share a file are one.               *)
Loaded == pages \cup (visited \ missed)
InClone == pages \cup {q \in Page : render /\ \E p \in pages : site.file[p] = site.file[q]}

(* The crawl covers the site: where a page that was loaded links to, as far *)
(* as the crawl looks (LinksIn), is in the clone, or could not be loaded or *)
(* led to another page, unless the limit of pages was reached or cut a      *)
(* level short (Clone, cloneRendered).                                      *)
CrawlCovers ==
    phase \in {"assets", "done"} /\ ~cut /\ Cardinality(pages) < MaxPages =>
        LinksOf(Loaded) \subseteq InClone \cup missed

(* buildZip: of the files with one name, the first. *)
Packed == {i \in DOMAIN files : \A j \in 1..(i - 1) : files[j].asset # files[i].asset}

InZip == {files[i].asset : i \in Packed}
Styled == {s \in Style : \E i \in DOMAIN files : files[i] = [asset |-> s, rewritten |-> TRUE]}

(* The clone has what it needs: an asset of a cloned page, or of one of    *)
(* its stylesheets, is in the ZIP unless it failed to load or a limit was  *)
(* reached, although the workers share the list of what stylesheets have   *)
(* brought in without holding its lock (fetchNestedCSS).                   *)
AssetsKept ==
    phase = "done" /\ ~render =>
        UNION ({site.refs[p] : p \in pages} \cup {site.nested[s] : s \in Styled})
            \subseteq InZip \cup failed

(* A clone always ends, even if every request fails (Clone's deadline).    *)
CloneEnds == <>(phase \in {"refused", "done", "crashed"})

(* A stylesheet of a page is packed as it was rewritten: "reescreve os     *)
(* links internos e referências para caminhos locais" (package clone).     *)
StylesRewritten ==
    phase = "done" /\ ~render =>
        \A i \in Packed :
            files[i].asset \in Style \cap UNION {site.refs[p] : p \in pages} => files[i].rewritten
===============================================================================
