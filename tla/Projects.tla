------------------------------ MODULE Projects ------------------------------
(***************************************************************************)
(* The projects of an account (auth/service.go, api/handlers/projects.go)  *)
(* and the lookup that every request of a tracker begins with: the API key *)
(* is resolved to a row of projects through a Redis cache                  *)
(* (api/middleware/auth.go), and the row decides whether the origin of the *)
(* request is welcome (api/middleware/domain_check.go).                    *)
(*                                                                         *)
(* The dashboard's handlers write Postgres only: nothing removes or        *)
(* replaces a cached row but its expiry.  A Redis command and an SQL       *)
(* statement are one step each.  Who owns a project, its name and the log  *)
(* of violations are left out.                                             *)
(***************************************************************************)
EXTENDS Naturals

CONSTANTS
    Project,    \* ids of projects
    Key,        \* API keys
    Domain,     \* domains of projects; NoDomain for an empty one
    Origin,     \* domains that requests come from; NoDomain for no origin
    Connection, \* connections that serve requests of trackers
    CacheTTL,   \* five minutes, in ticks
    NoDomain

ASSUME ProjectsAssumption == CacheTTL \in Nat \ {0}

(* The columns of projects that a request relies on. *)
ProjectRow == [project : Project, key : Key, domain : Domain \cup {NoDomain}, protect : BOOLEAN]

VARIABLES
    projects, \* the rows in Postgres
    used,     \* projects and keys that were ever given out
    cache,    \* Redis: per key a copy of a row and the ticks it has left
    lookup,   \* per connection: [pc], the key it asks for, the copy it has read
    late      \* requests that have seen a tick go by since they have a copy

projectVars == <<projects, used, cache, lookup, late>>

(* A copy of a row and, as history, how many ticks ago it was read from     *)
(* Postgres, TooOld or more of them being alike.                            *)
TooOld == CacheTTL + 2
Copy == [row : ProjectRow, age : 0 .. TooOld]

Entry == [copy : Copy, ttl : 1 .. CacheTTL]
Absent == [ttl |-> 0]

ProjectsInit ==
    /\ projects = {} /\ used = {}
    /\ cache = [k \in Key |-> Absent]
    /\ lookup = [q \in Connection |-> [pc |-> "idle"]]
    /\ late = {}

-----------------------------------------------------------------------------
(* The dashboard.                                                          *)

(* createProject: a new id and a new key; the domain is never empty. *)
CreateProject(p, k, d) ==
    /\ {p, k} \cap used = {} /\ used' = used \cup {p, k}
    /\ projects' = projects \cup {[project |-> p, key |-> k, domain |-> d, protect |-> FALSE]}
    /\ UNCHANGED <<cache, lookup, late>>

Replace(row, new) ==
    /\ projects' = (projects \ {row}) \cup {new}
    /\ UNCHANGED <<cache, lookup, late>>

(* UpdateProject, which takes an empty domain too. *)
UpdateProject(row, d) == Replace(row, [row EXCEPT !.domain = d]) /\ UNCHANGED used

SetCloneProtection(row, b) == Replace(row, [row EXCEPT !.protect = b]) /\ UNCHANGED used

RotateAPIKey(row, k) ==
    /\ k \notin used /\ used' = used \cup {k}
    /\ Replace(row, [row EXCEPT !.key = k])

DeleteProject(row) ==
    /\ projects' = projects \ {row}
    /\ UNCHANGED <<used, cache, lookup, late>>

-----------------------------------------------------------------------------
(* resolveProject and DomainCheck, which needs nothing but the row.         *)

(* A foreign origin of a protected project is sent away; the other          *)
(* requests, those without an origin among them, go on to their handler.    *)
Foreign(row, d) == NoDomain \notin {row.domain, d} /\ d # row.domain

DomainCheck(q, row) ==
    \E d \in Origin :
        lookup' = [lookup EXCEPT ![q] =
            [pc |-> IF Foreign(row, d) /\ row.protect THEN "idle" ELSE "handler"]]

(* A faulty hit that gives the entry its full time again. *)
GetRenewing(q, k) ==
    /\ lookup[q].pc = "idle"
    /\ \/ /\ cache[k] # Absent /\ DomainCheck(q, cache[k].copy.row)
          /\ cache' = [cache EXCEPT ![k].ttl = CacheTTL]
       \/ lookup' = [lookup EXCEPT ![q] = [pc |-> "select", key |-> k]] /\ UNCHANGED cache
    /\ UNCHANGED <<projects, used, late>>

(* Cache.GetProject; when Redis fails, Postgres is asked as for a miss. *)
GetCached(q, k) ==
    /\ lookup[q].pc = "idle"
    /\ \/ cache[k] # Absent /\ DomainCheck(q, cache[k].copy.row)
       \/ lookup' = [lookup EXCEPT ![q] = [pc |-> "select", key |-> k]]
    /\ UNCHANGED <<projects, used, cache, late>>

(* A key of no project, or an error, is answered with 401. *)
Select(q) ==
    /\ lookup[q].pc = "select"
    /\ \/ \E row \in projects :
             /\ row.key = lookup[q].key
             /\ lookup' = [lookup EXCEPT ![q] =
                              [pc |-> "store", copy |-> [row |-> row, age |-> 0]]]
       \/ lookup' = [lookup EXCEPT ![q] = [pc |-> "idle"]]
    /\ UNCHANGED <<projects, used, cache, late>>

(* Cache.SetProject, whose error is ignored. *)
SetCached(q) ==
    LET copy == lookup[q].copy
    IN  /\ lookup[q].pc = "store" /\ DomainCheck(q, copy.row)
        /\ cache' \in {cache, [cache EXCEPT ![copy.row.key] =
                                 [copy |-> copy, ttl |-> CacheTTL]]}
        /\ late' = late \ {q}
        /\ UNCHANGED <<projects, used>>

Handle(q) ==
    /\ lookup[q].pc = "handler"
    /\ lookup' = [lookup EXCEPT ![q] = [pc |-> "idle"]]
    /\ UNCHANGED <<projects, used, cache, late>>

-----------------------------------------------------------------------------
(* Ticks are long: no request sees two of them between its SELECT and SET.  *)
Older(age) == IF age < TooOld THEN age + 1 ELSE age
Holding == {q \in Connection : lookup[q].pc = "store"}

CacheTick ==
    /\ late = {} /\ late' = Holding
    /\ cache' = [k \in Key |-> IF cache[k].ttl <= 1 THEN Absent
                     ELSE [cache[k] EXCEPT !.ttl = @ - 1, !.copy.age = Older(@)]]
    /\ lookup' = [q \in Connection |-> IF q \in Holding
                     THEN [lookup[q] EXCEPT !.copy.age = Older(@)] ELSE lookup[q]]
    /\ UNCHANGED <<projects, used>>

Edit ==
    \/ \E p \in Project, k \in Key, d \in Domain : CreateProject(p, k, d)
    \/ \E row \in projects :
          \/ \E d \in Domain \cup {NoDomain} : UpdateProject(row, d)
          \/ \E b \in BOOLEAN : SetCloneProtection(row, b)
          \/ \E k \in Key : RotateAPIKey(row, k)
          \/ DeleteProject(row)

LookupStep(q) == Select(q) \/ SetCached(q) \/ Handle(q)

ProjectsNext ==
    \/ Edit
    \/ \E q \in Connection, k \in Key : GetCached(q, k)
    \/ \E q \in Connection : LookupStep(q)
    \/ CacheTick

ProjectsSpec == ProjectsInit /\ [][ProjectsNext]_projectVars

-----------------------------------------------------------------------------
LookupState ==
    [pc : {"idle", "handler"}] \cup [pc : {"select"}, key : Key] \cup [pc : {"store"}, copy : Copy]

(* The types; a project has one row, a key belongs to one project, and a    *)
(* cached row is found under its own key.                                   *)
ProjectsTypeOK ==
    /\ projects \subseteq ProjectRow /\ used \subseteq Project \cup Key
    /\ \A row \in projects : {row.project, row.key} \subseteq used
    /\ \A a, b \in projects : a.project = b.project \/ a.key = b.key => a = b
    /\ \A k \in Key : cache[k] = Absent \/ (cache[k] \in Entry /\ cache[k].copy.row.key = k)
    /\ lookup \in [Connection -> LookupState]
    /\ late \subseteq Holding

(* A row that a request may use was in Postgres at most the five minutes of *)
(* the cache and one tick ago, the tick for the request that stored it: an  *)
(* edit, a rotation or a deletion is seen by every request that comes       *)
(* later, whatever was in flight when it was made (resolveProject; the      *)
(* handlers of projects.go leave the cache alone).                          *)
ResolvedRowRecent ==
    /\ \A k \in Key : cache[k] # Absent => cache[k].copy.age <= CacheTTL + 1 - cache[k].ttl
    /\ \A q \in Holding : lookup[q].copy.age <= 1
=============================================================================
