---------------------------- MODULE TriggerRules ----------------------------
(***************************************************************************)
(* The trigger rules of one project: the dashboard's edits                 *)
(* (rules/service.go, api/handlers/rules.go), GET /v1/rules, and the rules *)
(* engine of public/tracker.js, whose pages share a cached list in the     *)
(* browser.                                                                *)
(*                                                                         *)
(* An SQL statement, the arrival of an answer and the loading of a page    *)
(* are one step each.  Of a rule's columns the flag and the event name     *)
(* stand for all that Update writes; types, selectors and sort order are   *)
(* left out, and so is the firing of a rule, whose conversion Tracking     *)
(* models.                                                                 *)
(***************************************************************************)
EXTENDS Naturals

CONSTANTS
    Rule,      \* ids of rules
    Event,     \* event names
    Editor,    \* connections that serve PUT /v1/dashboard/rules/:id
    Page,      \* tabs of one browser
    ListTTL    \* CACHE_TTL, five minutes, in ticks

ASSUME TriggerRulesAssumption == ListTTL \in Nat \ {0}

Column == {"enabled", "event"}
RuleRow == [enabled : BOOLEAN, event : Event]

(* The body of PUT: at least one field, with its value. *)
Patch == [enabled : BOOLEAN] \cup [event : Event] \cup RuleRow

VARIABLES
    rules,   \* the rows of trigger_rules
    ruleIds, \* ids ever given to a rule
    editor,  \* per connection: [pc, rule, patch, row] of an update and, as
             \* history, its late columns: others gave them a value meanwhile
    given,   \* history: the value last asked for, per rule and column
    undone,  \* history: the columns of a rule that a late update wrote since
    saved,   \* localStorage: [list, age] and how long ago it was saved
    page,    \* per tab: [pc] and the list its engine has applied
    fetch    \* per tab: its GET /v1/rules: [pc] and the answer's list

ruleVars == <<rules, ruleIds, editor, given, undone, saved, page, fetch>>
browser == <<saved, page, fetch>>

Stored == DOMAIN rules
Remove(f, r) == [x \in DOMAIN f \ {r} |-> f[x]]
Put(f, r, v) == [x \in DOMAIN f \cup {r} |-> IF x = r THEN v ELSE f[x]]

(* A list and, as history, how many ticks ago it was read from Postgres.    *)
VeryOld == ListTTL + 2
Empty == [rules |-> {}, age |-> 0]

RulesInit ==
    /\ rules = <<>> /\ ruleIds = {}
    /\ given = <<>> /\ undone = <<>>
    /\ editor = [e \in Editor |-> [pc |-> "idle"]]
    /\ saved = [list |-> Empty, since |-> 0]
    /\ page = [g \in Page |-> [pc |-> "closed"]]
    /\ fetch = [g \in Page |-> [pc |-> "none"]]

-----------------------------------------------------------------------------
(* The dashboard.                                                          *)

(* What is asked for is kept as history.  Somebody writes row to a rule and *)
(* asked for its columns named: the columns in late are undone by this, and *)
(* the updates in ed that have read the rule are late for the named ones.   *)
Asked(r, named, row, late, ed) ==
    /\ given' = Put(given, r, [f \in Column |-> IF f \in named THEN row[f] ELSE given[r][f]])
    /\ undone' = [undone EXCEPT ![r] = (@ \cup late) \ named]
    /\ editor' = [e \in Editor |->
                     IF ed[e].pc = "write" /\ ed[e].rule = r THEN [ed[e] EXCEPT !.late = @ \cup named]
                     ELSE ed[e]]

(* Create: the row is enabled. *)
Create(r, name) ==
    LET row == [enabled |-> TRUE, event |-> name]
    IN  /\ r \notin ruleIds /\ ruleIds' = ruleIds \cup {r}
        /\ rules' = Put(rules, r, row)
        /\ given' = Put(given, r, row) /\ undone' = Put(undone, r, {})
        /\ UNCHANGED <<editor, browser>>

Finished(e) == [editor EXCEPT ![e] = [pc |-> "idle"]]

(* get *)
UpdateRead(e, r, patch) ==
    /\ editor[e].pc = "idle" /\ r \in Stored
    /\ editor' = [editor EXCEPT ![e] =
                    [pc |-> "write", rule |-> r, patch |-> patch, row |-> rules[r], late |-> {}]]
    /\ UNCHANGED <<rules, ruleIds, given, undone, browser>>

(* A faulty patch in which an absent flag means false. *)
PatchedFlat(row, patch) ==
    [f \in DOMAIN row |->
        IF f \in DOMAIN patch THEN patch[f] ELSE IF f = "enabled" THEN FALSE ELSE row[f]]

Patched(row, patch) == [f \in DOMAIN row |-> IF f \in DOMAIN patch THEN patch[f] ELSE row[f]]

(* A faulty update that inserts a rule that is gone. *)
UpsertRow(r, row) == Put(rules, r, row)

(* UPDATE ... WHERE id: a rule that is gone is not written.                *)
UpdateRow(r, row) == IF r \in Stored THEN Put(rules, r, row) ELSE rules

(* Update writes all the columns it has read, changed by the patch; or the  *)
(* statement fails, or there is no row any more.                            *)
UpdateWrite(e) ==
    LET r == editor[e].rule
        row == Patched(editor[e].row, editor[e].patch)
    IN  /\ editor[e].pc = "write"
        /\ rules' = UpdateRow(r, row)
        /\ IF r \in Stored
           THEN Asked(r, DOMAIN editor[e].patch, row, editor[e].late, Finished(e))
           ELSE editor' = Finished(e) /\ UNCHANGED <<given, undone>>
        /\ UNCHANGED <<ruleIds, browser>>

UpdateFails(e) ==
    /\ editor[e].pc = "write" /\ editor' = Finished(e)
    /\ UNCHANGED <<rules, ruleIds, given, undone, browser>>

ToggleEnabled(r, b) ==
    LET row == [rules[r] EXCEPT !.enabled = b]
    IN  /\ r \in Stored /\ rules' = Put(rules, r, row)
        /\ Asked(r, {"enabled"}, row, {}, editor)
        /\ UNCHANGED <<ruleIds, browser>>

Delete(r) ==
    /\ r \in Stored
    /\ rules' = Remove(rules, r)
    /\ given' = Remove(given, r) /\ undone' = Remove(undone, r)
    /\ UNCHANGED <<ruleIds, editor, browser>>

-----------------------------------------------------------------------------
(* The rules engine.                                                        *)

(* A faulty load that takes a list of any age. *)
CachedAny == saved.list.rules # {}

(* loadCached, and loadRules' own condition that the list is not empty. *)
Cached == saved.list.rules # {} /\ saved.since <= ListTTL

(* loadRules, when a page loads or navigates: a cached list is applied at   *)
(* once and refreshed behind.  A tab has one fetch at a time; several of a  *)
(* single tab would share the cache as those of several tabs do.            *)
LoadRules(g) ==
    /\ page[g].pc # "waiting" /\ fetch[g].pc = "none"
    /\ page' = [page EXCEPT ![g] = IF Cached THEN [pc |-> "applied", list |-> saved.list]
                                             ELSE [pc |-> "waiting"]]
    /\ fetch' = [fetch EXCEPT ![g] = [pc |-> "sent"]]
    /\ UNCHANGED <<rules, ruleIds, editor, given, undone, saved>>

(* List, with onlyEnabled. *)
EnabledRules ==
    [rules |-> {[rule |-> r, event |-> rules[r].event] : r \in {x \in Stored : rules[x].enabled}},
     age |-> 0]

(* Public; the answer goes back to the page. *)
List(g) ==
    /\ fetch[g].pc = "sent"
    /\ fetch' = [fetch EXCEPT ![g] = [pc |-> "answer", list |-> EnabledRules]]
    /\ UNCHANGED <<rules, ruleIds, editor, given, undone, saved, page>>

(* saveCache, and apply unless a cached list was; an error or the four      *)
(* seconds' timeout counts as an empty list.                                *)
Receive(g, list) ==
    /\ saved' = [list |-> list, since |-> 0]
    /\ page' = [page EXCEPT ![g] = IF @.pc = "waiting" THEN [pc |-> "applied", list |-> list]
                                                       ELSE @]
    /\ fetch' = [fetch EXCEPT ![g] = [pc |-> "none"]]
    /\ UNCHANGED <<rules, ruleIds, editor, given, undone>>

FetchEnds(g) ==
    \/ fetch[g].pc = "answer" /\ Receive(g, fetch[g].list)
    \/ fetch[g].pc \in {"sent", "answer"} /\ Receive(g, Empty)

(* The visitor leaves; what was on the way is not received. *)
ClosePage(g) ==
    /\ page[g].pc # "closed"
    /\ page' = [page EXCEPT ![g] = [pc |-> "closed"]]
    /\ fetch' = [fetch EXCEPT ![g] = [pc |-> "none"]]
    /\ UNCHANGED <<rules, ruleIds, editor, given, undone, saved>>

-----------------------------------------------------------------------------
(* Ticks are long: a fetch ends, after four seconds at most, in the tick it *)
(* was sent in or the next one.  The age of a list that is applied stays    *)
(* what it was when the page applied it.                                    *)
Later(n) == IF n < VeryOld THEN n + 1 ELSE n

Answers == {g \in Page : fetch[g].pc = "answer"}

RulesTick ==
    /\ \A g \in Answers : fetch[g].list.age = 0
    /\ saved' = IF saved.list = Empty THEN saved
                ELSE [list |-> [saved.list EXCEPT !.age = Later(@)], since |-> Later(saved.since)]
    /\ fetch' = [g \in Page |-> IF g \in Answers THEN [fetch[g] EXCEPT !.list.age = 1] ELSE fetch[g]]
    /\ UNCHANGED <<rules, ruleIds, editor, given, undone, page>>

EditRule ==
    \/ \E r \in Rule, name \in Event : Create(r, name)
    \/ \E r \in Rule, b \in BOOLEAN : ToggleEnabled(r, b)
    \/ \E r \in Rule : Delete(r)
    \/ \E e \in Editor, r \in Rule, p \in Patch : UpdateRead(e, r, p)
    \/ \E e \in Editor : UpdateWrite(e) \/ UpdateFails(e)

PageStep(g) == LoadRules(g) \/ List(g) \/ FetchEnds(g) \/ ClosePage(g)

RulesNext == EditRule \/ (\E g \in Page : PageStep(g)) \/ RulesTick

RulesSpec == RulesInit /\ [][RulesNext]_ruleVars

-----------------------------------------------------------------------------
Listed == [rules : SUBSET [rule : Rule, event : Event], age : 0 .. VeryOld]

(* The types; and a page that waits for its rules has a fetch to wait for.  *)
RulesTypeOK ==
    /\ Stored \subseteq ruleIds /\ ruleIds \subseteq Rule /\ rules \in [Stored -> RuleRow]
    /\ given \in [Stored -> RuleRow] /\ undone \in [Stored -> SUBSET Column]
    /\ editor \in [Editor -> [pc : {"idle"}]
                     \cup [pc : {"write"}, rule : ruleIds, patch : Patch, row : RuleRow,
                           late : SUBSET Column]]
    /\ saved \in [list : Listed, since : 0 .. VeryOld]
    /\ page \in [Page -> [pc : {"closed", "waiting"}] \cup [pc : {"applied"}, list : Listed]]
    /\ fetch \in [Page -> [pc : {"none", "sent"}] \cup [pc : {"answer"}, list : Listed]]
    /\ \A g \in Page : page[g].pc = "waiting" => fetch[g].pc # "none"

(* A page that loads never applies rules that left Postgres longer ago than *)
(* the five minutes of the browser's cache and the tick of the answer, even *)
(* when its tabs refresh the cache in any order (loadCached, saveCache).    *)
AppliedRulesRecent ==
    \A g \in Page : page[g].pc = "applied" => page[g].list.age <= ListTTL + 1

(* What somebody asked of a column of a rule stands, whatever updates of    *)
(* other columns are made later, until the column is asked for again: only  *)
(* an update that read the rule before can undo it, by writing after it     *)
(* (Update writes back every column).                                       *)
AskedForStands ==
    \A r \in Stored : \A f \in Column : rules[r][f] = given[r][f] \/ f \in undone[r]

(* The comment of Update calls it a patch: it changes the columns of its    *)
(* body and no other (rules/service.go line 125).  It also puts back what   *)
(* others have changed since it read the rule.                              *)
UpdateIsPatch ==
    [][\A e \in Editor :
         LET r == editor[e].rule
         IN  editor[e].pc = "write" /\ editor'[e].pc = "idle" /\ r \in Stored =>
             \A f \in Column \ DOMAIN editor[e].patch : rules'[r][f] = rules[r][f]]_ruleVars

(* A deleted rule stays deleted, also when an update that read it before    *)
(* writes after the deletion (UPDATE ... WHERE).                            *)
DeletedStaysDeleted == [][\A r \in ruleIds \ Stored : r \notin DOMAIN rules']_ruleVars
==============================================================================
