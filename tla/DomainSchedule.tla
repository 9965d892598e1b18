--------------------------- MODULE DomainSchedule ---------------------------
(***************************************************************************)
(* The domains API (infrastructure/http/handlers_domain.go with            *)
(* AddDomainUseCase and UpdateDomainUseCase) and the cron entries the      *)
(* scheduler keeps for the domains (infrastructure/scheduler).             *)
(*                                                                         *)
(* A handler saves the row first and registers the cron expression then:   *)
(* each SQL statement is one step, and so is a call of Register, which     *)
(* holds the scheduler's mutex.  Of a domain only its cron expression is   *)
(* kept.                                                                   *)
(***************************************************************************)
EXTENDS Naturals, FiniteSets

CONSTANTS
  Domain,      \* bound: ids the AUTOINCREMENT column may assign, 1, 2, ...
  Request,     \* bound: create and update requests served at a time
  Valid,       \* cron expressions that parse
  Invalid,     \* cron expressions that do not
  Manual,      \* the empty expression
  Absent,      \* "no such row"
  MaxEntries,  \* bound: cron entries made between two restarts
  MaxRestarts  \* bound: restarts of the server

ASSUME ScheduleAssumption ==
  /\ Domain \subseteq Nat /\ IsFiniteSet(Domain)
  /\ Manual \notin Valid /\ Invalid \cap Valid = {} /\ Manual \notin Invalid
  /\ Absent \notin Valid \cup Invalid \cup {Manual}
  /\ MaxEntries \in Nat /\ MaxRestarts \in Nat

VARIABLES
  tab,       \* tab[d]: column cron_expression of row d of table domains
  known,     \* ids ever assigned
  entries,   \* Scheduler.entries: domain id -> entry id, 0 = not in the map
  cron,      \* the entries the cron runner fires
  lastId,    \* the cron runner's nextID
  req,       \* req[r]: progress of a create or update request
  raced,     \* history: domains two requests worked on at a time
  restarts

vars == <<tab, known, entries, cron, lastId, req, raced, restarts>>

Expr == Valid \cup Invalid \cup {Manual}
Entry == [id : Nat \ {0}, dom : Domain, expr : Valid]
NoRequest == [pc |-> "idle", dom |-> 0, expr |-> Manual]

ScheduleTypeOK ==
  /\ tab \in [Domain -> Expr \cup {Absent}]
  /\ known \subseteq Domain
  /\ entries \in [Domain -> Nat]
  /\ cron \subseteq Entry
  /\ lastId \in 0..MaxEntries
  /\ req \in [Request -> [pc : {"idle", "save", "register"},
                          dom : Domain \cup {0}, expr : Expr]]
  /\ raced \subseteq Domain
  /\ restarts \in 0..MaxRestarts

Init ==
  /\ tab = [d \in Domain |-> Absent]
  /\ known = {} /\ cron = {} /\ lastId = 0
  /\ entries = [d \in Domain |-> 0]
  /\ req = [r \in Request |-> NoRequest]
  /\ raced = {} /\ restarts = 0

InFlight(d) == {r \in Request : req[r].pc # "idle" /\ req[r].dom = d}
Overlap(d) == IF InFlight(d) = {} THEN raced ELSE raced \cup {d}

-----------------------------------------------------------------------------
(* The scheduler: Unregister and Register, under the mutex.                 *)

(* cron.Remove(entries[d]); an id that is not live removes nothing.         *)
MutWithout_Kept(d) == cron
Without(d) == {e \in cron : e.id # entries[d]}

Unregister(d) ==
  /\ cron' = Without(d)
  /\ entries' = [entries EXCEPT ![d] = 0]
  /\ UNCHANGED lastId

(* AddFunc parses the expression before it takes an id: with one that does not
   parse the old entry is gone and the map keeps its id. *)
MutRegister_KeepsOld(d, x) ==
  IF x \in Valid
  THEN /\ lastId < MaxEntries /\ lastId' = lastId + 1
       /\ entries' = [entries EXCEPT ![d] = lastId']
       /\ cron' = Without(d) \cup {[id |-> lastId', dom |-> d, expr |-> x]}
  ELSE UNCHANGED <<cron, entries, lastId>>

Register(d, x) ==
  \/ x = Manual /\ Unregister(d)
  \/ /\ x \in Valid /\ lastId < MaxEntries
     /\ lastId' = lastId + 1
     /\ entries' = [entries EXCEPT ![d] = lastId']
     /\ cron' = Without(d) \cup {[id |-> lastId', dom |-> d, expr |-> x]}
  \/ /\ x \in Invalid
     /\ cron' = Without(d)
     /\ UNCHANGED <<entries, lastId>>

-----------------------------------------------------------------------------
(* The handlers.                                                            *)

(* Create: the INSERT gives the domain the next id.                         *)
AddDomain(r, d, x) ==
  /\ req[r].pc = "idle" /\ d \notin known /\ (\A c \in Domain : c < d => c \in known)
  /\ tab' = [tab EXCEPT ![d] = x]
  /\ known' = known \cup {d}
  /\ req' = [req EXCEPT ![r] = [pc |-> "register", dom |-> d, expr |-> x]]
  /\ UNCHANGED <<entries, cron, lastId, raced, restarts>>

(* Update: FindByID, or 404.                                                *)
MutFindForUpdate_Unchecked(r, d, x) ==
  /\ req[r].pc = "idle" /\ d \in known
  /\ req' = [req EXCEPT ![r] = [pc |-> "save", dom |-> d, expr |-> x]]
  /\ raced' = Overlap(d)
  /\ UNCHANGED <<tab, known, entries, cron, lastId, restarts>>

FindForUpdate(r, d, x) ==
  /\ req[r].pc = "idle" /\ d \in known /\ tab[d] # Absent
  /\ req' = [req EXCEPT ![r] = [pc |-> "save", dom |-> d, expr |-> x]]
  /\ raced' = Overlap(d)
  /\ UNCHANGED <<tab, known, entries, cron, lastId, restarts>>

(* GORM's Save updates the row or, if it is gone, inserts it again.         *)
SaveDomain(r) ==
  /\ req[r].pc = "save"
  /\ tab' = [tab EXCEPT ![req[r].dom] = req[r].expr]
  /\ req' = [req EXCEPT ![r].pc = "register"]
  /\ UNCHANGED <<known, entries, cron, lastId, raced, restarts>>

(* The statement fails or the client goes away before it.                   *)
SaveFails(r) ==
  /\ req[r].pc = "save"
  /\ req' = [req EXCEPT ![r] = NoRequest]
  /\ UNCHANGED <<tab, known, entries, cron, lastId, raced, restarts>>

(* OnDomainSaved, with the values of the request.                           *)
RegisterSaved(r) ==
  /\ req[r].pc = "register"
  /\ Register(req[r].dom, req[r].expr)
  /\ req' = [req EXCEPT ![r] = NoRequest]
  /\ UNCHANGED <<tab, known, raced, restarts>>

(* Delete: the cron entry stays.                                            *)
DeleteDomain(d) ==
  /\ d \in known /\ tab[d] # Absent
  /\ tab' = [tab EXCEPT ![d] = Absent]
  /\ raced' = Overlap(d)
  /\ UNCHANGED <<known, entries, cron, lastId, req, restarts>>

(* serverCmd: a new scheduler registers the rows it finds, in order of id,
   before the server listens. *)
Scheduled == {d \in Domain : tab[d] \in Valid}
MutBootId_OffByOne(d) == Cardinality({c \in Scheduled : c < d})
BootId(d) == Cardinality({c \in Scheduled : c <= d})

Restart ==
  /\ restarts < MaxRestarts /\ Cardinality(Scheduled) <= MaxEntries
  /\ restarts' = restarts + 1
  /\ entries' = [d \in Domain |-> IF d \in Scheduled THEN BootId(d) ELSE 0]
  /\ cron' = {[id |-> BootId(d), dom |-> d, expr |-> tab[d]] : d \in Scheduled}
  /\ lastId' = Cardinality(Scheduled)
  /\ req' = [r \in Request |-> NoRequest]
  /\ raced' = {}
  /\ UNCHANGED <<tab, known>>

Next ==
  \/ \E r \in Request : \/ \E d \in Domain, x \in Expr : \/ AddDomain(r, d, x)
                                                         \/ FindForUpdate(r, d, x)
                        \/ SaveDomain(r) \/ SaveFails(r) \/ RegisterSaved(r)
  \/ \E d \in Domain : DeleteDomain(d)
  \/ Restart

Spec == Init /\ [][Next]_vars

-----------------------------------------------------------------------------
(* No entry fires that the scheduler has lost track of: whatever expressions
   are registered, failed to parse or were cleared, the live entries of a
   domain are one at most, the one Register and Unregister would remove
   (scheduler.go:48-63). *)
NoLostEntry ==
  \A e \in cron : e.id = entries[e.dom] /\ \A f \in cron : e.dom = f.dom => e = f

(* The cron runner follows the table: once the requests on a domain are over,
   its live entries are those its row asks for, unless requests on it had
   overlapped since the start -- then the last to register wins, not the last
   to save (handlers_domain.go:79-91). *)
ScheduleFollowsTable ==
  \A d \in Domain \ raced :
    InFlight(d) = {} /\ tab[d] # Absent =>
      {e.expr : e \in {f \in cron : f.dom = d}} = {tab[d]} \cap Valid

(* A deleted domain does not come back, unless an update had read it before
   the deletion (usecases.go:64-72, domain_repo.go:17-25). *)
DeletedForGood ==
  [][\A d \in known \ raced : tab[d] = Absent => tab'[d] = Absent]_vars
=============================================================================
