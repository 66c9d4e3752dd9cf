---------------------------- MODULE MCDashboard ----------------------------
(***************************************************************************)
(* Instances of Accounts, Projects and TriggerRules for TLC.  They share   *)
(* no variable; one run explores them, each in behaviours of its own.      *)
(* The rules have two kinds of them: in "edits" updates interleave with    *)
(* the other edits while no page is open, in "pages" tabs load rules that  *)
(* are created, switched and deleted.  A page writes nothing an edit       *)
(* reads, and the age of a list does not depend on what its rules say.     *)
(***************************************************************************)
EXTENDS Accounts, Projects, TriggerRules, TLC

VARIABLE part  \* what moves

MCInit ==
    /\ part \in {"accounts", "projects", "edits", "pages"}
    /\ Init /\ ProjectsInit /\ RulesInit

PageAndEdit ==
    \/ \E g \in Page : PageStep(g)
    \/ RulesTick
    \/ \E r \in Rule :
          \/ \E name \in Event : Create(r, name)
          \/ \E b \in BOOLEAN : ToggleEnabled(r, b)
          \/ Delete(r)

MCNext ==
    /\ \/ part = "accounts" /\ Next /\ UNCHANGED <<projectVars, ruleVars>>
       \/ part = "projects" /\ ProjectsNext /\ UNCHANGED <<vars, ruleVars>>
       \/ part = "edits" /\ (EditRule \/ RulesTick) /\ UNCHANGED <<vars, projectVars>>
       \/ part = "pages" /\ PageAndEdit /\ UNCHANGED <<vars, projectVars>>
    /\ UNCHANGED part

MCSpec == MCInit /\ [][MCNext]_<<vars, projectVars, ruleVars, part>>

Symmetry == Permutations(Account) \cup Permutations(Request)
=============================================================================
