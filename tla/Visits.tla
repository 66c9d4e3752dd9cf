------------------------------- MODULE Visits -------------------------------
(***************************************************************************)
(* What becomes of a visit (shield/service.go, fingerprint.go, webhook.go, *)
(* proxy.go and the public handlers of api/handlers/shield.go and          *)
(* shield_campaigns.go): it is decided, and goroutines that outlive the    *)
(* request write the decision into two tables, publish it to the live      *)
(* feed of the dashboard and tell the project's hooks.                     *)
(*                                                                         *)
(* A visit is one page or link that is opened.  The request that opens it, *)
(* or the question its tracker asks, is checked, and its page may send a   *)
(* fingerprint, which is judged by itself.                                 *)
(*                                                                         *)
(* How a visit is judged is left open.  A record keeps the visit, the      *)
(* verdict and where it was passed; of a hook, the events it listens to,   *)
(* none when it is disabled.  An INSERT may fail, and the process may exit *)
(* at any time, with all its goroutines.                                   *)
(***************************************************************************)
EXTENDS Naturals, FiniteSets

CONSTANTS
    Visitor,  \* one visit each
    Hook      \* ids of rows of shield_webhooks

ASSUME VisitsAssumption == IsFiniteSet(Visitor) /\ IsFiniteSet(Hook)

Event == {"visit", "bot_detected"}
Verdict == {"money", "blocked", "redirected"}
Record == [visit : Visitor, verdict : Verdict, at : {"filter", "check", "fingerprint"}]

(* Goroutines: an insertLog that has or has not inserted yet, insertVisit, *)
(* storeFingerprint, FireWebhooks, dispatch to a hook.                     *)
Task == [does : {"log", "publish", "visit", "print", "fire"}, record : Record]
        \cup [does : {"dispatch"}, record : Record, hook : Hook]

VARIABLES
    config,  \* shield_configs: enabled, and whether a refusal has an address
    hooks,   \* shield_webhooks: the events of each
    pc,      \* per visit: how far its request is, and what it holds
    print,   \* per visit: how far the fingerprint of its page is
    tasks,   \* goroutines
    logs,    \* shield_logs
    visits,  \* shield_visits
    prints,  \* shield_fingerprints
    feed,    \* of a dashboard: whether it listens, and what it has been shown
    told,    \* <<hook, record>> that were sent
    decided, \* history: what was decided, to be recorded
    cleared, \* history: records that ClearLogs deleted
    lost     \* history: records an INSERT of which failed or never ran

visitVars == <<config, hooks, pc, print, tasks, logs, visits, prints, feed, told, decided, cleared, lost>>
Stored == <<logs, visits, prints, feed, told, cleared, lost>>
Settings == <<config, hooks>>

Config == [enabled : BOOLEAN, address : BOOLEAN]

(* How far a request is: the tracker's page is loaded and has not asked,   *)
(* Check has read the configuration, the smart redirect has answered with  *)
(* its page or sent the visitor away, or any other request is over.        *)
Stage ==
    [at : {"new", "loaded", "page", "away", "over"}]
    \cup [at : {"check"}, skip : BOOLEAN, config : Config]

(* Of a fingerprint: ProcessFingerprint has read the configuration.        *)
Sending == [at : {"unsent", "over"}] \cup [at : {"read"}, config : Config]

Closed == [open |-> FALSE, shown |-> {}]

VisitsInit ==
    /\ config \in Config /\ hooks = [h \in Hook |-> {}]
    /\ pc = [v \in Visitor |-> [at |-> "new"]]
    /\ print = [v \in Visitor |-> [at |-> "unsent"]]
    /\ tasks = {} /\ logs = {} /\ visits = {} /\ prints = {} /\ feed = Closed /\ told = {}
    /\ decided = {} /\ cleared = {} /\ lost = {}

Is(v, where) == pc[v].at = where
Goes(v, to) == pc' = [pc EXCEPT ![v] = to]
Sends(v, to) == print' = [print EXCEPT ![v] = to]

-----------------------------------------------------------------------------
(* Entries.                                                                *)

EventOf(record) == IF record.verdict = "money" THEN "visit" ELSE "bot_detected"

(* The goroutines that record a decision.  LogFiltered and an accepted     *)
(* fingerprint tell no hook.                                               *)
Fires(record) ==
    \/ record.at = "check"
    \/ record.at = "fingerprint" /\ record.verdict # "money"

(* A faulty LogFiltered that writes no row of shield_visits. *)
RecordsUnfiltered(record) ==
    {[does |-> d, record |-> record] :
        d \in {"log"} \cup (IF record.at = "filter" THEN {} ELSE {"visit"})
                     \cup (IF Fires(record) THEN {"fire"} ELSE {})}

Records(record) ==
    {[does |-> d, record |-> record] :
        d \in {"log", "visit"} \cup (IF Fires(record) THEN {"fire"} ELSE {})}

Decides(record, more) ==
    /\ decided' = decided \cup {record}
    /\ tasks' = tasks \cup Records(record) \cup more

(* SlugCloak: a campaign under review, or a click id, origin or key that   *)
(* is missing; LogFiltered always has an address.                          *)
SlugFiltered(v) ==
    /\ Is(v, "new") /\ Goes(v, [at |-> "over"])
    /\ Decides([visit |-> v, verdict |-> "redirected", at |-> "filter"], {})
    /\ UNCHANGED <<Settings, print, Stored>>

(* What GetConfig returns: when it fails it is as if the shield were off.  *)
ConfigRead == {config, [enabled |-> FALSE, address |-> FALSE]}

(* Check reads the configuration first. *)
Check(v, skip) ==
    /\ \E c \in ConfigRead : Goes(v, [at |-> "check", skip |-> skip, config |-> c])
    /\ UNCHANGED <<Settings, print, tasks, decided, Stored>>

Refusal(c) == IF c.address THEN "redirected" ELSE "blocked"

(* A faulty Check that records although its caller asked it not to. *)
UnskippedEven(call) == TRUE

Unskipped(call) == ~call.skip

(* The rest of Check, after the lookup of the address; the visitor of the  *)
(* smart redirect is then sent away or gets its page.                      *)
CheckDecides(v) ==
    LET call == pc[v]
        Answer(to) == Goes(v, [at |-> IF call.skip THEN to ELSE "over"])
        Judged(verdict) == [visit |-> v, verdict |-> verdict, at |-> "check"]
    IN  /\ Is(v, "check")
        /\ \/ /\ call.config.enabled /\ Answer("away")
              /\ Decides(Judged(Refusal(call.config)), {})
           \/ /\ call.config.enabled /\ Unskipped(call) /\ Answer("page")
              /\ Decides(Judged("money"), {})
           \/ /\ ~call.config.enabled \/ ~Unskipped(call)
              /\ Answer("page") /\ UNCHANGED <<tasks, decided>>
        /\ UNCHANGED <<Settings, print, Stored>>

(* The public link of a campaign. *)
SlugCloak(v) == SlugFiltered(v) \/ (Is(v, "new") /\ Check(v, FALSE))

(* A page of a campaign's own domain is checked; its static files are not. *)
DomainProxyMiddleware(v) ==
    \/ Is(v, "new") /\ Check(v, FALSE)
    \/ /\ Is(v, "new") /\ Goes(v, [at |-> "over"])
       /\ UNCHANGED <<Settings, print, tasks, decided, Stored>>

(* A page with the tracker: it asks, and sends a fingerprint beside it.    *)
LoadPage(v) ==
    /\ Is(v, "new") /\ Goes(v, [at |-> "loaded"])
    /\ UNCHANGED <<Settings, print, tasks, decided, Stored>>

(* The tracker's question; its hints only sway the verdict. *)
CheckOfTracker(v) == Is(v, "loaded") /\ Check(v, FALSE)

(* Who passes the smart redirect gets a page that takes a fingerprint, so  *)
(* Check is asked not to record.                                           *)
SmartRedirectAdvanced(v) == Is(v, "new") /\ Check(v, TRUE)

(* A page sends its fingerprint: that of the smart redirect, one with the  *)
(* tracker, whatever has become of its question, or one that carries       *)
(* shield-fp.js.  (The script that the proxy and the iframe mode put into  *)
(* a page sends the project's id for a key, which APIKey refuses.)         *)
HasPage(v) == \/ pc[v].at \in {"loaded", "page", "over"}
              \/ Is(v, "check") /\ ~pc[v].skip

Fingerprint(v) ==
    /\ print[v].at = "unsent" /\ HasPage(v)
    /\ \E c \in ConfigRead : Sends(v, [at |-> "read", config |-> c])
    /\ UNCHANGED <<Settings, pc, tasks, decided, Stored>>

(* How the signals of the page and of the request sway it is left open. *)
Judgements(c) == {"money", Refusal(c)}

ProcessFingerprint(v) ==
    LET c == print[v].config IN
    /\ print[v].at = "read" /\ Sends(v, [at |-> "over"])
    /\ IF c.enabled
       THEN \E verdict \in Judgements(c) :
               LET record == [visit |-> v, verdict |-> verdict, at |-> "fingerprint"]
               IN  Decides(record, {[does |-> "print", record |-> record]})
       ELSE UNCHANGED <<tasks, decided>>
    /\ UNCHANGED <<Settings, pc, Stored>>

-----------------------------------------------------------------------------
(* Goroutines.                                                             *)

Losing(t) == lost' = lost \cup {t.record}

InsertLog(t) ==
    /\ t.does = "log"
    /\ \/ /\ logs' = logs \cup {t.record} /\ UNCHANGED lost
          /\ tasks' = (tasks \ {t}) \cup {[t EXCEPT !.does = "publish"]}
       \/ tasks' = tasks \ {t} /\ Losing(t) /\ UNCHANGED logs
    /\ UNCHANGED <<Settings, pc, print, decided, visits, prints, feed, told, cleared>>

(* Redis hands it to who is subscribed; its error is dropped. *)
Publish(t) ==
    /\ t.does = "publish" /\ tasks' = tasks \ {t}
    /\ feed' \in {feed, IF feed.open THEN [feed EXCEPT !.shown = @ \cup {t.record}] ELSE feed}
    /\ UNCHANGED <<Settings, pc, print, decided, logs, visits, prints, told, cleared, lost>>

InsertVisit(t) ==
    /\ t.does = "visit" /\ tasks' = tasks \ {t}
    /\ \/ visits' = visits \cup {t.record} /\ UNCHANGED lost
       \/ Losing(t) /\ UNCHANGED visits
    /\ UNCHANGED <<Settings, pc, print, decided, logs, prints, feed, told, cleared>>

(* With the context of a request that has ended, which may be anything. *)
StoreFingerprint(t) ==
    /\ t.does = "print" /\ tasks' = tasks \ {t}
    /\ prints' \in {prints, prints \cup {t.record}}
    /\ UNCHANGED <<Settings, pc, print, decided, logs, visits, feed, told, cleared, lost>>

(* ListWebhooks may fail. *)
FireWebhooks(t) ==
    /\ t.does = "fire"
    /\ \E to \in {{}, {h \in Hook : EventOf(t.record) \in hooks[h]}} :
          tasks' = (tasks \ {t}) \cup {[does |-> "dispatch", record |-> t.record, hook |-> h] : h \in to}
    /\ UNCHANGED <<Settings, pc, print, decided, Stored>>

(* Within ten seconds, once; a failure is not tried again. *)
Dispatch(t) ==
    /\ t.does = "dispatch" /\ tasks' = tasks \ {t}
    /\ told' \in {told, told \cup {<<t.hook, t.record>>}}
    /\ UNCHANGED <<Settings, pc, print, decided, logs, visits, prints, feed, cleared, lost>>

Run(t) ==
    /\ t \in tasks
    /\ \/ InsertLog(t) \/ Publish(t) \/ InsertVisit(t) \/ StoreFingerprint(t)
       \/ FireWebhooks(t) \/ Dispatch(t)

Exit ==
    /\ tasks' = {} /\ feed' = Closed
    /\ lost' = lost \cup {t.record : t \in {u \in tasks : u.does \in {"log", "visit"}}}
    /\ pc' = [v \in Visitor |-> IF ~Is(v, "check") THEN pc[v]
                                ELSE [at |-> IF pc[v].skip THEN "away" ELSE "over"]]
    /\ print' = [v \in Visitor |-> IF print[v].at = "read" THEN [at |-> "over"] ELSE print[v]]
    /\ UNCHANGED <<Settings, logs, visits, prints, told, decided, cleared>>

-----------------------------------------------------------------------------
(* The dashboard.                                                          *)

UpsertConfig ==
    /\ config' \in Config
    /\ UNCHANGED <<hooks, pc, print, tasks, decided, Stored>>

(* A new hook that names no event listens to bot_detected. *)
CreateWebhook(h) ==
    /\ hooks[h] = {}
    /\ \E events \in SUBSET Event :
          hooks' = [hooks EXCEPT ![h] = IF events = {} THEN {"bot_detected"} ELSE events]
    /\ UNCHANGED <<config, pc, print, tasks, decided, Stored>>

DeleteWebhook(h) ==
    /\ hooks[h] # {} /\ hooks' = [hooks EXCEPT ![h] = {}]
    /\ UNCHANGED <<config, pc, print, tasks, decided, Stored>>

ClearLogs ==
    /\ logs' = {} /\ cleared' = cleared \cup logs
    /\ UNCHANGED <<Settings, pc, print, tasks, decided, visits, prints, feed, told, lost>>

StreamLogs ==
    /\ feed' = IF feed.open THEN Closed ELSE [open |-> TRUE, shown |-> {}]
    /\ UNCHANGED <<Settings, pc, print, tasks, decided, logs, visits, prints, told, cleared, lost>>

VisitsNext ==
    \/ \E v \in Visitor :
          \/ SlugCloak(v) \/ DomainProxyMiddleware(v) \/ LoadPage(v) \/ CheckOfTracker(v)
          \/ SmartRedirectAdvanced(v) \/ CheckDecides(v) \/ Fingerprint(v) \/ ProcessFingerprint(v)
    \/ \E t \in tasks : Run(t)
    \/ Exit \/ UpsertConfig \/ (\E h \in Hook : CreateWebhook(h) \/ DeleteWebhook(h)) \/ ClearLogs \/ StreamLogs

(* The scheduler runs every goroutine, and each of their calls ends. *)
VisitsFairness == \A v \in Visitor : WF_visitVars(\E t \in tasks : t.record.visit = v /\ Run(t))

VisitsSpec == VisitsInit /\ [][VisitsNext]_visitVars /\ VisitsFairness

-----------------------------------------------------------------------------
(* Properties.                                                             *)

(* The type of the state, which the proofs rely on. *)
VisitsTypeOK ==
    /\ config \in Config /\ hooks \in [Hook -> SUBSET Event]
    /\ pc \in [Visitor -> Stage] /\ print \in [Visitor -> Sending]
    /\ tasks \subseteq Task
    /\ logs \cup cleared \cup visits \cup prints \cup feed.shown \cup decided \cup lost \subseteq Record
    /\ feed \in [open : BOOLEAN, shown : SUBSET Record]
    /\ told \subseteq Hook \X Record

(* A decision has one story: the log, shield_visits, the fingerprint, the  *)
(* live feed and the hooks tell the same of it, whatever the settings      *)
(* become meanwhile.  A visitor of the smart redirect is decided about     *)
(* once, although it passes Check and ProcessFingerprint (SkipVisit of     *)
(* CheckRequest is there to avoid counting it twice).  Of a page with the  *)
(* tracker there are two decisions, which may differ.                      *)
OneStory ==
    LET heard == logs \cup cleared \cup visits \cup prints \cup feed.shown \cup {x[2] : x \in told} IN
    \A r, s \in heard :
        r.visit = s.visit /\ (r.at = s.at \/ pc[r.visit].at \in {"page", "away"}) => r = s

(* Every decision of an enabled shield ends up in the log and in           *)
(* shield_visits, whatever its entry point, unless an INSERT failed or the *)
(* process exited before (block, LogFiltered, Check, ProcessFingerprint).  *)
DecisionRecorded ==
    []<>(\A r \in decided : r \in lost \/ (r \in visits /\ r \in logs \cup cleared))
=============================================================================
