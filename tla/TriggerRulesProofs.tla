-------------------------- MODULE TriggerRulesProofs --------------------------
(***************************************************************************)
(* Proofs about TriggerRules, for any rules, event names, connections and   *)
(* tabs and any time to live of the browser's cache.                       *)
(***************************************************************************)
EXTENDS TriggerRules, TLAPS

(* The parts of the type invariant, by the component they speak of. *)
RulesOK ==
    /\ Stored \subseteq ruleIds /\ ruleIds \subseteq Rule /\ rules \in [Stored -> RuleRow]
    /\ given \in [Stored -> RuleRow] /\ undone \in [Stored -> SUBSET Column]

Writing ==
    [pc : {"write"}, rule : ruleIds, patch : Patch, row : RuleRow, late : SUBSET Column]

EditorsOK == editor \in [Editor -> [pc : {"idle"}] \cup Writing]

PageState == [pc : {"closed", "waiting"}] \cup [pc : {"applied"}, list : Listed]

FetchState == [pc : {"none", "sent"}] \cup [pc : {"answer"}, list : Listed]

BrowserOK ==
    /\ saved \in [list : Listed, since : 0 .. VeryOld]
    /\ page \in [Page -> PageState]
    /\ fetch \in [Page -> FetchState]
    /\ \A g \in Page : page[g].pc = "waiting" => fetch[g].pc # "none"

(* A saved list left Postgres at most a tick before it was saved, and so    *)
(* did an answer that is on its way.                                        *)
SavedFresh ==
    /\ saved.list.age <= saved.since + 1
    /\ \A g \in Page : fetch[g].pc = "answer" => fetch[g].list.age <= 1

(* The row an update has read holds what was asked for of the rule, except  *)
(* in the columns it is late for: why its writing the row back undoes only  *)
(* those.                                                                   *)
RowsAsked ==
    \A e \in Editor :
        LET r == editor[e].rule
        IN  editor[e].pc = "write" /\ r \in Stored =>
            \A f \in Column \ editor[e].late : editor[e].row[f] = given[r][f] \/ f \in undone[r]

EditsOK == RulesOK /\ EditorsOK /\ RowsAsked /\ AskedForStands

IInv == EditsOK /\ BrowserOK /\ SavedFresh /\ AppliedRulesRecent

LEMMA ListFacts ==
    /\ Empty \in Listed /\ Empty.age = 0
    /\ 0 \in 0 .. VeryOld /\ 1 \in 0 .. VeryOld
    /\ \A n \in 0 .. VeryOld : Later(n) \in 0 .. VeryOld
    /\ \A m, n \in 0 .. VeryOld : m <= n + 1 => Later(m) <= Later(n) + 1
  BY TriggerRulesAssumption DEF Empty, Listed, VeryOld, Later

LEMMA Start == RulesInit => IInv
  <1> SUFFICES ASSUME RulesInit PROVE IInv
    OBVIOUS
  <1>1. EditsOK
    BY DEF RulesInit, EditsOK, RulesOK, EditorsOK, RowsAsked, AskedForStands, Stored
  <1>2. BrowserOK
    BY ListFacts DEF RulesInit, BrowserOK, PageState, FetchState
  <1>3. SavedFresh /\ AppliedRulesRecent
    BY ListFacts DEF RulesInit, SavedFresh, AppliedRulesRecent
  <1> QED
    BY <1>1, <1>2, <1>3 DEF IInv

-----------------------------------------------------------------------------
(* Edits.                                                                  *)

(* A patched row has the columns of a row, and those the patch does not     *)
(* name as they were.                                                       *)
LEMMA PatchedFacts ==
    ASSUME NEW row \in RuleRow, NEW patch \in Patch
    PROVE  /\ Patched(row, patch) \in RuleRow
           /\ \A f \in Column \ DOMAIN patch : Patched(row, patch)[f] = row[f]
           /\ DOMAIN patch \subseteq Column
  <1>1. DOMAIN row = {"enabled", "event"}
    BY DEF RuleRow
  <1>2. /\ "enabled" \in DOMAIN patch => patch["enabled"] \in BOOLEAN
        /\ "event" \in DOMAIN patch => patch["event"] \in Event
    <2>1. CASE patch \in [enabled : BOOLEAN]
      BY <2>1
    <2>2. CASE patch \in [event : Event]
      BY <2>2
    <2>3. CASE patch \in RuleRow
      BY <2>3 DEF RuleRow
    <2> QED
      BY <2>1, <2>2, <2>3 DEF Patch
  <1>3. row["enabled"] \in BOOLEAN /\ row["event"] \in Event
    BY DEF RuleRow
  <1> DEFINE new == Patched(row, patch)
  <1>4. /\ new = [f \in {"enabled", "event"} |-> new[f]]
        /\ new["enabled"] \in BOOLEAN /\ new["event"] \in Event
    BY <1>1, <1>2, <1>3 DEF Patched
  <1>5. \A f \in Column \ DOMAIN patch : new[f] = row[f]
    BY <1>1 DEF Patched, Column
  <1> HIDE DEF new
  <1>6. new \in RuleRow
    BY <1>4 DEF RuleRow
  <1>7. DOMAIN patch \subseteq Column
    BY DEF Patch, RuleRow, Column
  <1> QED
    BY <1>5, <1>6, <1>7 DEF new

(* Writing row to a stored rule, asking for its columns named: outside of   *)
(* these and of late the row holds what was asked for before.               *)
LEMMA WriteRow ==
    ASSUME EditsOK, NEW r \in Stored, NEW named \in SUBSET Column, NEW late \in SUBSET Column,
           NEW row \in RuleRow, NEW ed, rules' = Put(rules, r, row), Asked(r, named, row, late, ed),
           UNCHANGED ruleIds,
           \A e \in Editor : ed[e] = editor[e] \/ ed[e] = [pc |-> "idle"],
           \A f \in Column \ (named \cup late) : row[f] = given[r][f] \/ f \in undone[r]
    PROVE  EditsOK'
  <1> DEFINE new == [f \in Column |-> IF f \in named THEN row[f] ELSE given[r][f]]
  <1>1. new \in RuleRow
    <2>1. new = [enabled |-> new["enabled"], event |-> new["event"]]
      BY DEF Column
    <2>2. new["enabled"] \in BOOLEAN /\ new["event"] \in Event
      BY DEF EditsOK, RulesOK, RuleRow, Column
    <2> HIDE DEF new
    <2> QED
      BY <2>1, <2>2 DEF RuleRow
  <1>2. \A f \in Column : new[f] = IF f \in named THEN row[f] ELSE given[r][f]
    OBVIOUS
  <1>3. given' = Put(given, r, new) /\ undone' = [undone EXCEPT ![r] = (@ \cup late) \ named]
    BY DEF Asked
  <1> HIDE DEF new
  <1>4. /\ Stored' = Stored /\ rules' \in [Stored -> RuleRow] /\ rules'[r] = row
        /\ given' \in [Stored -> RuleRow] /\ given'[r] = new
        /\ \A s \in Stored \ {r} : rules'[s] = rules[s] /\ given'[s] = given[s]
    BY <1>1, <1>3 DEF EditsOK, RulesOK, Stored, Put
  <1>5. /\ undone' \in [Stored -> SUBSET Column] /\ undone'[r] = (undone[r] \cup late) \ named
        /\ \A s \in Stored \ {r} : undone'[s] = undone[s]
    BY <1>3 DEF EditsOK, RulesOK
  <1>6. RulesOK'
    BY <1>4, <1>5 DEF EditsOK, RulesOK
  <1>7. ASSUME NEW e \in Editor
        PROVE  \/ editor'[e] = [pc |-> "idle"]
               \/ editor'[e] = editor[e] /\ ~(editor[e].pc = "write" /\ editor[e].rule = r)
               \/ /\ editor[e] \in Writing /\ editor[e].rule = r
                  /\ editor'[e] = [editor[e] EXCEPT !.late = @ \cup named]
    BY DEF Asked, EditsOK, EditorsOK, Writing
  <1>8. EditorsOK'
    <2>1. Writing' = Writing
      BY DEF Writing
    <2>2. ASSUME NEW e \in Editor PROVE editor'[e] \in [pc : {"idle"}] \cup Writing
      <3>1. editor[e] \in [pc : {"idle"}] \cup Writing
        BY DEF EditsOK, EditorsOK
      <3>2. ASSUME editor[e] \in Writing
            PROVE  [editor[e] EXCEPT !.late = @ \cup named] \in Writing
        <4>1. PICK rr \in ruleIds, p \in Patch, w \in RuleRow, l \in SUBSET Column :
                 editor[e] = [pc |-> "write", rule |-> rr, patch |-> p, row |-> w, late |-> l]
          BY <3>2 DEF Writing
        <4>2. [editor[e] EXCEPT !.late = @ \cup named]
                = [pc |-> "write", rule |-> rr, patch |-> p, row |-> w, late |-> l \cup named]
          BY <4>1
        <4> QED
          BY <4>2 DEF Writing
      <3> QED
        BY <1>7, <3>1, <3>2
    <2>3. editor' = [e \in Editor |-> editor'[e]]
      BY DEF Asked
    <2> QED
      BY <2>1, <2>2, <2>3 DEF EditorsOK
  <1>9. AskedForStands'
    BY <1>2, <1>4, <1>5 DEF EditsOK, AskedForStands
  <1>10. RowsAsked'
    <2> SUFFICES ASSUME NEW e \in Editor, editor'[e].pc = "write", editor'[e].rule \in Stored',
                        NEW f \in Column \ editor'[e].late
                 PROVE  \/ editor'[e].row[f] = given'[editor'[e].rule][f]
                        \/ f \in undone'[editor'[e].rule]
      BY DEF RowsAsked
    <2>1. CASE editor'[e] = editor[e] /\ ~(editor[e].pc = "write" /\ editor[e].rule = r)
      BY <1>4, <1>5, <2>1 DEF EditsOK, RowsAsked
    <2>2. CASE /\ editor[e] \in Writing /\ editor[e].rule = r
               /\ editor'[e] = [editor[e] EXCEPT !.late = @ \cup named]
      <3>1. /\ editor'[e].rule = r /\ editor'[e].row = editor[e].row
            /\ f \notin editor[e].late /\ f \notin named
        BY <2>2 DEF Writing
      <3>2. editor[e].row[f] = given[r][f] \/ f \in undone[r]
        BY <2>2, <3>1 DEF EditsOK, RowsAsked, Writing
      <3> QED
        BY <1>2, <1>4, <1>5, <3>1, <3>2
    <2> QED
      BY <1>7, <2>1, <2>2
  <1> QED
    BY <1>6, <1>8, <1>9, <1>10 DEF EditsOK

LEMMA EditStep == IInv /\ EditRule => EditsOK' /\ UNCHANGED browser
  <1> SUFFICES ASSUME IInv, EditRule PROVE EditsOK' /\ UNCHANGED browser
    OBVIOUS
  <1> DEFINE Goal == EditsOK' /\ UNCHANGED browser
  <1>1. ASSUME NEW r \in Rule, NEW name \in Event, Create(r, name) PROVE Goal
    <2> DEFINE row == [enabled |-> TRUE, event |-> name]
    <2>1. row \in RuleRow
      BY DEF RuleRow
    <2> HIDE DEF row
    <2>2. /\ r \notin ruleIds /\ ruleIds' = ruleIds \cup {r} /\ UNCHANGED <<editor, browser>>
          /\ rules' = Put(rules, r, row) /\ given' = Put(given, r, row) /\ undone' = Put(undone, r, {})
      BY <1>1 DEF Create, row
    <2>3. /\ Stored' = Stored \cup {r} /\ r \notin Stored
          /\ rules' \in [Stored' -> RuleRow] /\ rules'[r] = row
          /\ given' \in [Stored' -> RuleRow] /\ given'[r] = row
          /\ undone' \in [Stored' -> SUBSET Column]
          /\ \A s \in Stored : rules'[s] = rules[s] /\ given'[s] = given[s] /\ undone'[s] = undone[s]
      BY <2>1, <2>2 DEF IInv, EditsOK, RulesOK, Stored, Put
    <2>4. RulesOK'
      BY <2>2, <2>3 DEF IInv, EditsOK, RulesOK
    <2>5. EditorsOK'
      BY <2>2 DEF IInv, EditsOK, EditorsOK, Writing
    <2>6. AskedForStands'
      BY <2>3 DEF IInv, EditsOK, AskedForStands
    <2>7. RowsAsked'
      <3>1. \A e \in Editor : editor[e].pc = "write" => editor[e].rule # r
        BY <2>2 DEF IInv, EditsOK, EditorsOK, Writing
      <3> QED
        BY <2>2, <2>3, <3>1 DEF IInv, EditsOK, RowsAsked
    <2> QED
      BY <2>2, <2>4, <2>5, <2>6, <2>7 DEF EditsOK
  <1>2. ASSUME NEW r \in Rule, NEW b \in BOOLEAN, ToggleEnabled(r, b) PROVE Goal
    <2> DEFINE row == [rules[r] EXCEPT !.enabled = b]
    <2>1. /\ r \in Stored /\ rules' = Put(rules, r, row) /\ UNCHANGED <<ruleIds, browser>>
          /\ Asked(r, {"enabled"}, row, {}, editor)
      BY <1>2 DEF ToggleEnabled
    <2>2. row \in RuleRow /\ row["event"] = rules[r]["event"]
      BY <2>1 DEF IInv, EditsOK, RulesOK, RuleRow
    <2> HIDE DEF row
    <2>3. \A f \in Column \ ({"enabled"} \cup {}) : row[f] = given[r][f] \/ f \in undone[r]
      BY <2>1, <2>2 DEF IInv, EditsOK, AskedForStands, Column
    <2>4. {"enabled"} \in SUBSET Column /\ {} \in SUBSET Column
      BY DEF Column
    <2>5. EditsOK'
      BY <2>1, <2>2, <2>3, <2>4, WriteRow DEF IInv
    <2> QED
      BY <2>1, <2>5
  <1>3. ASSUME NEW r \in Rule, Delete(r) PROVE Goal
    <2>1. /\ rules' = Remove(rules, r) /\ given' = Remove(given, r) /\ undone' = Remove(undone, r)
          /\ UNCHANGED <<ruleIds, editor, browser>>
      BY <1>3 DEF Delete
    <2>2. /\ Stored' = Stored \ {r} /\ rules' \in [Stored' -> RuleRow]
          /\ given' \in [Stored' -> RuleRow] /\ undone' \in [Stored' -> SUBSET Column]
          /\ \A s \in Stored' : rules'[s] = rules[s] /\ given'[s] = given[s] /\ undone'[s] = undone[s]
      BY <2>1 DEF IInv, EditsOK, RulesOK, Remove, Stored
    <2>3. RulesOK' /\ EditorsOK'
      BY <2>1, <2>2 DEF IInv, EditsOK, RulesOK, EditorsOK, Writing
    <2>4. AskedForStands' /\ RowsAsked'
      BY <2>1, <2>2 DEF IInv, EditsOK, AskedForStands, RowsAsked
    <2> QED
      BY <2>1, <2>3, <2>4 DEF EditsOK
  <1>4. ASSUME NEW e \in Editor, NEW r \in Rule, NEW p \in Patch, UpdateRead(e, r, p) PROVE Goal
    <2> DEFINE w == [pc |-> "write", rule |-> r, patch |-> p, row |-> rules[r], late |-> {}]
    <2>1. r \in Stored /\ w \in Writing
      BY <1>4 DEF UpdateRead, IInv, EditsOK, RulesOK, Writing
    <2>2. w.rule = r /\ w.row = rules[r] /\ w.late = {}
      OBVIOUS
    <2>3. editor' = [editor EXCEPT ![e] = w] /\ UNCHANGED <<rules, ruleIds, given, undone, browser>>
      BY <1>4 DEF UpdateRead
    <2> HIDE DEF w
    <2>4. /\ editor' \in [Editor -> [pc : {"idle"}] \cup Writing] /\ editor'[e] = w
          /\ \A d \in Editor \ {e} : editor'[d] = editor[d]
      BY <2>1, <2>3 DEF IInv, EditsOK, EditorsOK
    <2>5. RulesOK' /\ EditorsOK' /\ AskedForStands'
      BY <2>3, <2>4 DEF IInv, EditsOK, RulesOK, EditorsOK, Writing, AskedForStands, Stored
    <2>6. RowsAsked'
      <3>1. \A f \in Column : w.row[f] = given[r][f] \/ f \in undone[r]
        BY <2>1, <2>2 DEF IInv, EditsOK, AskedForStands
      <3> QED
        BY <2>1, <2>2, <2>3, <2>4, <3>1 DEF IInv, EditsOK, RowsAsked, Stored
    <2> QED
      BY <2>3, <2>5, <2>6 DEF EditsOK
  <1>5. ASSUME NEW e \in Editor, editor' = Finished(e), UNCHANGED <<rules, ruleIds, given, undone, browser>>
        PROVE  Goal
    <2>1. /\ editor' \in [Editor -> [pc : {"idle"}] \cup Writing] /\ editor'[e].pc = "idle"
          /\ \A d \in Editor \ {e} : editor'[d] = editor[d]
      BY <1>5 DEF IInv, EditsOK, EditorsOK, Finished
    <2>2. RulesOK' /\ EditorsOK' /\ AskedForStands'
      BY <1>5, <2>1 DEF IInv, EditsOK, RulesOK, EditorsOK, Writing, AskedForStands, Stored
    <2>3. RowsAsked'
      BY <1>5, <2>1 DEF IInv, EditsOK, RowsAsked, Stored
    <2> QED
      BY <1>5, <2>2, <2>3 DEF EditsOK
  <1>6. ASSUME NEW e \in Editor, UpdateWrite(e) PROVE Goal
    <2> DEFINE r == editor[e].rule
               row == Patched(editor[e].row, editor[e].patch)
               named == DOMAIN editor[e].patch
               late == editor[e].late
    <2>1. editor[e].pc = "write" /\ editor[e] \in Writing
      BY <1>6 DEF UpdateWrite, IInv, EditsOK, EditorsOK
    <2>2. /\ row \in RuleRow /\ named \in SUBSET Column /\ late \in SUBSET Column
          /\ \A f \in Column \ named : row[f] = editor[e].row[f]
      BY <2>1, PatchedFacts DEF Writing
    <2>3. /\ UNCHANGED <<ruleIds, browser>> /\ rules' = UpdateRow(r, row)
          /\ IF r \in Stored THEN Asked(r, named, row, late, Finished(e))
                              ELSE editor' = Finished(e) /\ UNCHANGED <<given, undone>>
      BY <1>6 DEF UpdateWrite
    <2>4. \A d \in Editor : Finished(e)[d] = editor[d] \/ Finished(e)[d] = [pc |-> "idle"]
      BY DEF Finished, IInv, EditsOK, EditorsOK
    <2>5. r \in Stored => \A f \in Column \ late : editor[e].row[f] = given[r][f] \/ f \in undone[r]
      BY <2>1 DEF IInv, EditsOK, RowsAsked
    <2> HIDE DEF r, row, named, late
    <2>6. CASE r \in Stored
      <3>1. rules' = Put(rules, r, row) /\ Asked(r, named, row, late, Finished(e))
        BY <2>3, <2>6 DEF UpdateRow
      <3>2. \A f \in Column \ (named \cup late) : row[f] = given[r][f] \/ f \in undone[r]
        BY <2>2, <2>5, <2>6
      <3>3. EditsOK'
        BY <2>2, <2>3, <2>4, <2>6, <3>1, <3>2, WriteRow DEF IInv
      <3> QED
        BY <2>3, <3>3
    <2>7. CASE r \notin Stored
      BY <1>5, <2>3, <2>7 DEF UpdateRow
    <2> QED
      BY <2>6, <2>7
  <1>7. ASSUME NEW e \in Editor, UpdateFails(e) PROVE Goal
    BY <1>5, <1>7 DEF UpdateFails
  <1> QED
    BY <1>1, <1>2, <1>3, <1>4, <1>6, <1>7 DEF EditRule

-----------------------------------------------------------------------------
(* The browser.                                                            *)

dashboard == <<rules, ruleIds, editor, given, undone>>

LEMMA EditsKept == EditsOK /\ UNCHANGED dashboard => EditsOK'
  BY DEF dashboard, EditsOK, RulesOK, EditorsOK, Writing, RowsAsked, AskedForStands, Stored

LEMMA ReceiveStep ==
    ASSUME IInv, NEW g \in Page, NEW list \in Listed, list.age <= 1, Receive(g, list)
    PROVE  BrowserOK' /\ SavedFresh' /\ AppliedRulesRecent'
  <1> USE TriggerRulesAssumption
  <1>1. saved' = [list |-> list, since |-> 0]
    BY DEF Receive
  <1>2. saved' \in [list : Listed, since : 0 .. VeryOld] /\ saved'.list.age <= saved'.since + 1
    BY <1>1, ListFacts
  <1>3. /\ \A h \in Page \ {g} : page'[h] = page[h] /\ fetch'[h] = fetch[h]
        /\ fetch' \in [Page -> FetchState] /\ fetch'[g].pc = "none"
    BY DEF Receive, IInv, BrowserOK, FetchState
  <1>4. /\ page' \in [Page -> PageState] /\ page'[g].pc # "waiting"
        /\ page'[g] = page[g] \/ (page'[g].pc = "applied" /\ page'[g].list = list)
    <2>1. CASE page[g].pc = "waiting"
      <3>1. page' = [page EXCEPT ![g] = [pc |-> "applied", list |-> list]]
        BY <2>1 DEF Receive, IInv, BrowserOK
      <3> QED
        BY <3>1 DEF IInv, BrowserOK, PageState
    <2>2. CASE page[g].pc # "waiting"
      <3>1. page' = page
        BY <2>2 DEF Receive, IInv, BrowserOK
      <3> QED
        BY <2>2, <3>1 DEF IInv, BrowserOK
    <2> QED
      BY <2>1, <2>2
  <1>5. BrowserOK'
    BY <1>2, <1>3, <1>4 DEF IInv, BrowserOK
  <1>6. SavedFresh'
    BY <1>2, <1>3 DEF IInv, SavedFresh
  <1>7. AppliedRulesRecent'
    <2>1. list.age <= ListTTL + 1
      BY DEF Listed
    <2> QED
      BY <1>3, <1>4, <2>1 DEF IInv, AppliedRulesRecent
  <1> QED
    BY <1>5, <1>6, <1>7

LEMMA PageSteps ==
    ASSUME IInv, NEW g \in Page, PageStep(g)
    PROVE  BrowserOK' /\ SavedFresh' /\ AppliedRulesRecent' /\ UNCHANGED dashboard
  <1> USE TriggerRulesAssumption
  <1> DEFINE Goal == /\ BrowserOK' /\ SavedFresh' /\ AppliedRulesRecent'
                     /\ UNCHANGED dashboard
  <1>1. ASSUME LoadRules(g) PROVE Goal
    <2>1. /\ UNCHANGED dashboard /\ UNCHANGED saved
          /\ fetch' = [fetch EXCEPT ![g] = [pc |-> "sent"]]
      BY <1>1 DEF LoadRules, dashboard
    <2>2. /\ fetch' \in [Page -> FetchState] /\ fetch'[g].pc = "sent"
          /\ \A h \in Page \ {g} : fetch'[h] = fetch[h]
      BY <2>1 DEF IInv, BrowserOK, FetchState
    <2>3. /\ page' \in [Page -> PageState] /\ \A h \in Page \ {g} : page'[h] = page[h]
          /\ \/ page'[g].pc = "waiting"
             \/ Cached /\ page'[g].pc = "applied" /\ page'[g].list = saved.list
      <3>1. CASE Cached
        BY <1>1, <3>1 DEF LoadRules, IInv, BrowserOK, PageState
      <3>2. CASE ~Cached
        BY <1>1, <3>2 DEF LoadRules, IInv, BrowserOK, PageState
      <3> QED
        BY <3>1, <3>2
    <2>4. Cached => saved.list.age <= ListTTL + 1
      <3>1. saved.list.age \in 0 .. VeryOld /\ saved.since \in 0 .. VeryOld
        BY DEF IInv, BrowserOK, Listed
      <3> QED
        BY <3>1 DEF Cached, IInv, SavedFresh, VeryOld
    <2>5. BrowserOK' /\ SavedFresh'
      BY <2>1, <2>2, <2>3 DEF IInv, BrowserOK, SavedFresh
    <2>6. AppliedRulesRecent'
      BY <2>3, <2>4 DEF IInv, AppliedRulesRecent
    <2> QED
      BY <2>1, <2>5, <2>6
  <1>2. ASSUME List(g) PROVE Goal
    <2>1. /\ UNCHANGED dashboard /\ UNCHANGED <<saved, page>>
          /\ fetch' = [fetch EXCEPT ![g] = [pc |-> "answer", list |-> EnabledRules]]
      BY <1>2 DEF List, dashboard
    <2>2. EnabledRules \in Listed /\ EnabledRules.age = 0
      <3>1. \A r \in Stored : [rule |-> r, event |-> rules[r].event] \in [rule : Rule, event : Event]
        BY DEF IInv, EditsOK, RulesOK, RuleRow
      <3> QED
        BY <3>1, ListFacts DEF EnabledRules, Listed
    <2>3. /\ fetch' \in [Page -> FetchState] /\ \A h \in Page \ {g} : fetch'[h] = fetch[h]
          /\ fetch'[g].pc = "answer" /\ fetch'[g].list.age <= 1
      BY <2>1, <2>2 DEF IInv, BrowserOK, FetchState
    <2>4. BrowserOK'
      BY <2>1, <2>3 DEF IInv, BrowserOK
    <2>5. SavedFresh' /\ AppliedRulesRecent'
      BY <2>1, <2>3 DEF IInv, SavedFresh, AppliedRulesRecent
    <2> QED
      BY <2>1, <2>4, <2>5
  <1>3. ASSUME FetchEnds(g) PROVE Goal
    <2>1. CASE fetch[g].pc = "answer" /\ Receive(g, fetch[g].list)
      <3>1. fetch[g].list \in Listed /\ fetch[g].list.age <= 1
        BY <2>1 DEF IInv, BrowserOK, FetchState, SavedFresh
      <3> QED
        BY <2>1, <3>1, ReceiveStep DEF Receive, dashboard
    <2>2. CASE Receive(g, Empty)
      <3>1. Empty \in Listed /\ Empty.age <= 1
        BY ListFacts
      <3>2. BrowserOK' /\ SavedFresh' /\ AppliedRulesRecent'
        BY <2>2, <3>1, ReceiveStep
      <3> QED
        BY <2>2, <3>2 DEF Receive, dashboard
    <2> QED
      BY <1>3, <2>1, <2>2 DEF FetchEnds
  <1>4. ASSUME ClosePage(g) PROVE Goal
    <2>1. /\ page' \in [Page -> PageState] /\ page'[g].pc = "closed"
          /\ fetch' \in [Page -> FetchState] /\ fetch'[g].pc = "none"
          /\ \A h \in Page \ {g} : page'[h] = page[h] /\ fetch'[h] = fetch[h]
      BY <1>4 DEF ClosePage, IInv, BrowserOK, PageState, FetchState
    <2> QED
      BY <1>4, <2>1 DEF ClosePage, dashboard, IInv, BrowserOK, SavedFresh, AppliedRulesRecent
  <1> QED
    BY <1>1, <1>2, <1>3, <1>4 DEF PageStep

LEMMA TickStep ==
    ASSUME IInv, RulesTick
    PROVE  BrowserOK' /\ SavedFresh' /\ AppliedRulesRecent' /\ UNCHANGED dashboard
  <1>1. UNCHANGED dashboard /\ UNCHANGED page
    BY DEF RulesTick, dashboard
  <1>2. saved' \in [list : Listed, since : 0 .. VeryOld] /\ saved'.list.age <= saved'.since + 1
    <2>1. CASE saved.list = Empty
      BY <2>1 DEF RulesTick, IInv, BrowserOK, SavedFresh
    <2>2. CASE saved.list # Empty
      <3>1. PICK rs \in SUBSET [rule : Rule, event : Event], m \in 0 .. VeryOld, n \in 0 .. VeryOld :
               saved = [list |-> [rules |-> rs, age |-> m], since |-> n]
        BY DEF IInv, BrowserOK, Listed
      <3>2. saved' = [list |-> [rules |-> rs, age |-> Later(m)], since |-> Later(n)]
        BY <2>2, <3>1 DEF RulesTick
      <3>3. m <= n + 1
        BY <3>1 DEF IInv, SavedFresh
      <3>4. Later(m) \in 0 .. VeryOld /\ Later(n) \in 0 .. VeryOld /\ Later(m) <= Later(n) + 1
        BY <3>1, <3>3, ListFacts
      <3> QED
        BY <3>2, <3>4 DEF Listed
    <2> QED
      BY <2>1, <2>2
  <1>3. ASSUME NEW g \in Page
        PROVE  /\ fetch'[g] \in FetchState /\ fetch'[g].pc = fetch[g].pc
               /\ fetch'[g].pc = "answer" => fetch'[g].list.age <= 1
    <2>1. CASE g \in Answers
      <3>1. PICK list \in Listed : fetch[g] = [pc |-> "answer", list |-> list]
        BY <2>1 DEF Answers, IInv, BrowserOK, FetchState
      <3>2. fetch'[g] = [fetch[g] EXCEPT !.list.age = 1]
        BY <2>1 DEF RulesTick
      <3>3. fetch'[g].list = [list EXCEPT !.age = 1]
        BY <3>1, <3>2
      <3>4. fetch'[g] = [pc |-> "answer", list |-> fetch'[g].list]
        BY <3>1, <3>2
      <3>5. [list EXCEPT !.age = 1] \in Listed /\ [list EXCEPT !.age = 1].age = 1
        BY ListFacts DEF Listed
      <3> QED
        BY <3>1, <3>3, <3>4, <3>5 DEF FetchState
    <2>2. CASE g \notin Answers
      BY <2>2 DEF RulesTick, Answers, IInv, BrowserOK
    <2> QED
      BY <2>1, <2>2
  <1>4. fetch' \in [Page -> FetchState]
    <2>1. fetch' = [g \in Page |-> fetch'[g]]
      BY DEF RulesTick
    <2> QED
      BY <1>3, <2>1
  <1> QED
    BY <1>1, <1>2, <1>3, <1>4 DEF IInv, BrowserOK, SavedFresh, AppliedRulesRecent

LEMMA Step == IInv /\ [RulesNext]_ruleVars => IInv'
  <1> SUFFICES ASSUME IInv, [RulesNext]_ruleVars PROVE IInv'
    OBVIOUS
  <1>1. ASSUME EditRule PROVE IInv'
    BY <1>1, EditStep DEF browser, IInv, BrowserOK, SavedFresh, AppliedRulesRecent
  <1>2. ASSUME NEW g \in Page, PageStep(g) PROVE IInv'
    BY <1>2, PageSteps, EditsKept DEF IInv
  <1>3. ASSUME RulesTick PROVE IInv'
    BY <1>3, TickStep, EditsKept DEF IInv
  <1>4. ASSUME UNCHANGED ruleVars PROVE IInv'
    <2>1. UNCHANGED dashboard
      BY <1>4 DEF ruleVars, dashboard
    <2> QED
      BY <1>4, <2>1, EditsKept DEF ruleVars, IInv, BrowserOK, SavedFresh, AppliedRulesRecent
  <1> QED
    BY <1>1, <1>2, <1>3, <1>4 DEF RulesNext

-----------------------------------------------------------------------------
(* The results.                                                            *)

(* The inductive invariant holds in every reachable state. *)
THEOREM RulesInvariance == RulesSpec => []IInv
  <1> QED
    BY Start, Step, PTL DEF RulesSpec

(* Every variable keeps its type; a page that waits has a fetch to wait for *)
(* (loadRules).                                                             *)
THEOREM RulesTypes == RulesSpec => []RulesTypeOK
  <1>1. IInv => RulesTypeOK
    BY DEF IInv, EditsOK, RulesOK, EditorsOK, Writing, BrowserOK, PageState, FetchState, RulesTypeOK
  <1> QED
    BY <1>1, RulesInvariance, PTL

(* No page applies rules older than the browser's cache and the tick of the *)
(* answer allow, in whatever order tabs refresh it (loadCached, saveCache). *)
THEOREM AppliedRecent == RulesSpec => []AppliedRulesRecent
  <1>1. IInv => AppliedRulesRecent
    BY DEF IInv
  <1> QED
    BY <1>1, RulesInvariance, PTL

(* A deleted rule never comes back (Delete, and the WHERE of Update). *)
THEOREM DeletedForGood == RulesSpec => DeletedStaysDeleted
  <1>1. IInv /\ [RulesNext]_ruleVars => \A r \in ruleIds \ Stored : r \notin DOMAIN rules'
    <2> SUFFICES ASSUME IInv, [RulesNext]_ruleVars, NEW r \in ruleIds \ Stored PROVE r \notin DOMAIN rules'
      OBVIOUS
    <2>1. CASE UNCHANGED rules
      BY <2>1 DEF Stored
    <2>2. ASSUME NEW s \in Rule, NEW name \in Event, Create(s, name) PROVE r \notin DOMAIN rules'
      BY <2>2 DEF Create, Put, Stored
    <2>3. ASSUME NEW s \in Rule, (\E b \in BOOLEAN : ToggleEnabled(s, b)) \/ Delete(s)
          PROVE  r \notin DOMAIN rules'
      BY <2>3 DEF ToggleEnabled, Put, Delete, Remove, Stored
    <2>4. ASSUME NEW e \in Editor, UpdateWrite(e) PROVE r \notin DOMAIN rules'
      BY <2>4 DEF UpdateWrite, UpdateRow, Put, Stored
    <2>5. UNCHANGED rules \/ EditRule
      BY PageSteps, TickStep DEF RulesNext, ruleVars, dashboard
    <2>6. ASSUME NEW e \in Editor, UpdateFails(e) \/ \E s \in Rule, p \in Patch : UpdateRead(e, s, p)
          PROVE  UNCHANGED rules
      BY <2>6 DEF UpdateRead, UpdateFails
    <2> QED
      BY <2>1, <2>2, <2>3, <2>4, <2>5, <2>6 DEF EditRule
  <1> QED
    BY <1>1, RulesInvariance, PTL DEF RulesSpec, DeletedStaysDeleted

(* What was asked of a column stands until it is asked for again, unless an *)
(* update that had read the rule before writes after it (Update).           *)
THEOREM AskedStands == RulesSpec => []AskedForStands
  <1>1. IInv => AskedForStands
    BY DEF IInv, EditsOK
  <1> QED
    BY <1>1, RulesInvariance, PTL
=============================================================================
