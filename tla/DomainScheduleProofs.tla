------------------------ MODULE DomainScheduleProofs ------------------------
(* DomainSchedule for any domains, requests, expressions and bounds.        *)
EXTENDS DomainSchedule, FiniteSetTheorems, TLAPS

(* Two domains never share the id of a live entry, so Register and Unregister
   remove entries of the domain they are called for only. *)
EntriesDistinct ==
  /\ \A d \in Domain : entries[d] <= lastId
  /\ \A c, d \in Domain : entries[c] = entries[d] /\ entries[c] # 0 => c = d

Live(d) == {e \in cron : e.dom = d}
Follows(d) == /\ \A e \in Live(d) : e.expr = tab[d]
              /\ tab[d] \in Valid <=> Live(d) # {}

(* A domain that no two requests raced on has one request at most, which found
   it; once its row is saved it holds the request's expression, and before that
   the entries are still those of the row. *)
OneRequest(d) ==
  /\ \A q, r \in InFlight(d) : q = r
  /\ InFlight(d) # {} => tab[d] # Absent
  /\ \A r \in InFlight(d) : req[r].pc = "register" => req[r].expr = tab[d]
  /\ tab[d] # Absent /\ (\A r \in InFlight(d) : req[r].pc = "save") => Follows(d)

RowsFollowed ==
  /\ \A r \in Request : req[r].pc # "idle" => req[r].dom \in known
  /\ \A d \in Domain \ raced : OneRequest(d)

SchedInv == ScheduleTypeOK /\ EntriesDistinct /\ NoLostEntry /\ RowsFollowed

-----------------------------------------------------------------------------
(* BootId numbers the scheduled domains 1, 2, ..., each with its own number. *)
LEMMA BootIds ==
  ASSUME ScheduleTypeOK
  PROVE  /\ Cardinality(Scheduled) \in Nat
         /\ \A d \in Domain : BootId(d) \in Nat /\ BootId(d) <= Cardinality(Scheduled)
         /\ \A d \in Scheduled : BootId(d) # 0
         /\ \A c, d \in Scheduled : BootId(c) = BootId(d) => c = d
<1> DEFINE upTo(d) == {c \in Scheduled : c <= d}
<1>1. IsFiniteSet(Scheduled) /\ Scheduled \subseteq Domain
  BY FS_Subset, ScheduleAssumption DEF Scheduled
<1>2. \A d \in Domain : IsFiniteSet(upTo(d)) /\ upTo(d) \subseteq Scheduled
  BY <1>1, FS_Subset
<1>3. /\ Cardinality(Scheduled) \in Nat
      /\ \A d \in Domain : BootId(d) \in Nat /\ BootId(d) <= Cardinality(Scheduled)
  BY <1>1, <1>2, FS_CardinalityType, FS_Subset DEF BootId
<1>4. \A d \in Scheduled : BootId(d) # 0
  <2> SUFFICES ASSUME NEW d \in Scheduled, BootId(d) = 0 PROVE FALSE
    OBVIOUS
  <2>1. upTo(d) = {}
    BY <1>1, <1>2, FS_EmptySet DEF BootId
  <2>2. d <= d
    BY <1>1, ScheduleAssumption
  <2> QED
    BY <2>1, <2>2
<1>5. ASSUME NEW c \in Scheduled, NEW d \in Scheduled, BootId(c) = BootId(d), c < d
      PROVE  FALSE
  <2>1. c \in Nat /\ d \in Nat /\ c \in Domain /\ d \in Domain
    BY <1>1, ScheduleAssumption
  <2>2. upTo(c) \subseteq upTo(d)
    <3>1. \A e \in Scheduled : e \in Nat
      BY <1>1, ScheduleAssumption
    <3>2. \A e \in Scheduled : e <= c => e <= d
      BY <1>5, <2>1, <3>1
    <3> QED
      BY <3>2
  <2>3. upTo(c) = upTo(d)
    BY <1>2, <1>5, <2>1, <2>2, FS_Subset DEF BootId
  <2>4. d \in upTo(d) /\ d \notin upTo(c)
    BY <1>5, <2>1
  <2> QED
    BY <2>3, <2>4
<1>6. \A c, d \in Scheduled : BootId(c) = BootId(d) => c = d
  <2> SUFFICES ASSUME NEW c \in Scheduled, NEW d \in Scheduled,
                      BootId(c) = BootId(d), c # d
               PROVE  FALSE
    OBVIOUS
  <2>1. c < d \/ d < c
    BY <1>1, ScheduleAssumption
  <2> QED
    BY <1>5, <2>1
<1> QED
  BY <1>3, <1>4, <1>6

LEMMA SchedInit == Init => SchedInv
<1> SUFFICES ASSUME Init PROVE SchedInv
  OBVIOUS
<1>1. ScheduleTypeOK
  BY ScheduleAssumption DEF Init, ScheduleTypeOK, NoRequest, Expr
<1>2. EntriesDistinct /\ NoLostEntry
  BY DEF Init, EntriesDistinct, NoLostEntry
<1>3. \A r \in Request : req[r].pc = "idle"
  BY DEF Init, NoRequest
<1>4. RowsFollowed
  BY <1>3 DEF Init, RowsFollowed, OneRequest, InFlight, Follows, Live
<1> QED
  BY <1>1, <1>2, <1>4 DEF SchedInv

(* What a call of Register or Unregister for d does: the entries of the other
   domains stay, d has an entry if and only if the expression parses. *)
LEMMA RegisterEffect ==
  ASSUME ScheduleTypeOK, EntriesDistinct, NoLostEntry,
         NEW d \in Domain, NEW x \in Expr, Register(d, x)
  PROVE  /\ entries' \in [Domain -> Nat] /\ cron' \subseteq Entry
         /\ lastId' \in 0..MaxEntries
         /\ EntriesDistinct' /\ NoLostEntry'
         /\ \A c \in Domain \ {d} : Live(c)' = Live(c)
         /\ \A e \in Live(d)' : e.expr = x
         /\ x \in Valid <=> Live(d)' # {}
<1>0. /\ entries \in [Domain -> Nat] /\ cron \subseteq Entry /\ lastId \in 0..MaxEntries
      /\ Manual \notin Valid /\ Invalid \cap Valid = {} /\ MaxEntries \in Nat
  BY ScheduleAssumption DEF ScheduleTypeOK
<1>1. Without(d) = {e \in cron : e.dom # d}
  <2>1. \A e \in cron : e.dom \in Domain /\ e.id \in Nat /\ e.id # 0 /\ e.id = entries[e.dom]
    BY <1>0 DEF Entry, NoLostEntry
  <2>2. \A e \in cron : e.id = entries[d] <=> e.dom = d
    BY <2>1 DEF EntriesDistinct
  <2> QED
    BY <2>2 DEF Without
<1>2. CASE x = Manual /\ Unregister(d)
  <2>1. cron' = {e \in cron : e.dom # d} /\ lastId' = lastId
        /\ entries' = [entries EXCEPT ![d] = 0]
    BY <1>1, <1>2 DEF Unregister
  <2>2. EntriesDistinct'
    BY <1>0, <2>1 DEF EntriesDistinct
  <2>3. NoLostEntry'
    BY <1>0, <2>1 DEF NoLostEntry, Entry
  <2> QED
    BY <1>0, <1>2, <2>1, <2>2, <2>3 DEF Live
<1>3. CASE /\ x \in Invalid
           /\ cron' = Without(d)
           /\ UNCHANGED <<entries, lastId>>
  <2>1. EntriesDistinct' /\ NoLostEntry'
    BY <1>0, <1>1, <1>3 DEF EntriesDistinct, NoLostEntry
  <2> QED
    BY <1>0, <1>1, <1>3, <2>1 DEF Live
<1>4. CASE /\ x \in Valid /\ lastId < MaxEntries
           /\ lastId' = lastId + 1
           /\ entries' = [entries EXCEPT ![d] = lastId']
           /\ cron' = Without(d) \cup {[id |-> lastId', dom |-> d, expr |-> x]}
  <2> DEFINE new == [id |-> lastId + 1, dom |-> d, expr |-> x]
  <2>1. new \in Entry /\ new.dom = d /\ new.id = lastId + 1 /\ new.expr = x
    BY <1>0, <1>4 DEF Entry
  <2>2. cron' = {e \in cron : e.dom # d} \cup {new}
    BY <1>1, <1>4
  <2>3. /\ entries' \in [Domain -> Nat] /\ entries'[d] = lastId + 1
        /\ \A c \in Domain : c # d => entries'[c] = entries[c]
        /\ lastId' \in 0..MaxEntries /\ lastId' = lastId + 1
    BY <1>0, <1>4
  <2> HIDE DEF new
  <2>4. EntriesDistinct'
    BY <1>0, <2>3 DEF EntriesDistinct
  <2>5. NoLostEntry'
    BY <1>0, <2>1, <2>2, <2>3 DEF NoLostEntry, Entry
  <2>6. cron' \subseteq Entry
    BY <1>0, <2>1, <2>2
  <2>7. /\ \A c \in Domain \ {d} : Live(c)' = Live(c)
        /\ \A e \in Live(d)' : e.expr = x
        /\ Live(d)' # {}
    BY <2>1, <2>2 DEF Live
  <2> QED
    BY <1>4, <2>3, <2>4, <2>5, <2>6, <2>7
<1> QED
  BY <1>2, <1>3, <1>4 DEF Register

-----------------------------------------------------------------------------
(* A step that leaves the requests on c, its row and its entries alone.      *)
LEMMA OneRequestKept ==
  ASSUME NEW c, OneRequest(c), InFlight(c)' = InFlight(c),
         \A q \in InFlight(c) : req'[q] = req[q],
         tab'[c] = tab[c], Live(c)' = Live(c)
  PROVE  OneRequest(c)'
  BY DEF OneRequest, Follows

LEMMA AddStep ==
  ASSUME SchedInv, NEW r \in Request, NEW d \in Domain, NEW x \in Expr,
         AddDomain(r, d, x)
  PROVE  SchedInv'
<1> DEFINE new == [pc |-> "register", dom |-> d, expr |-> x]
<1>1. /\ req[r].pc = "idle" /\ d \notin known
      /\ tab' = [tab EXCEPT ![d] = x] /\ known' = known \cup {d}
      /\ req' = [req EXCEPT ![r] = new]
      /\ UNCHANGED <<entries, cron, lastId, raced, restarts>>
  BY DEF AddDomain
<1>2. ScheduleTypeOK'
  BY <1>1 DEF SchedInv, ScheduleTypeOK
<1>3. EntriesDistinct' /\ NoLostEntry'
  BY <1>1 DEF SchedInv, EntriesDistinct, NoLostEntry
<1>4. \A q \in Request : req'[q] = IF q = r THEN new ELSE req[q]
  BY <1>1 DEF SchedInv, ScheduleTypeOK
<1>5. \A q \in Request : req'[q].pc # "idle" => req'[q].dom \in known'
  BY <1>1, <1>4 DEF SchedInv, RowsFollowed
<1>6. ASSUME NEW c \in Domain \ raced PROVE OneRequest(c)'
  <2>1. CASE c = d
    <3>1. InFlight(d)' = {r}
      BY <1>1, <1>4 DEF SchedInv, RowsFollowed, InFlight
    <3>2. tab'[d] = x /\ x # Absent
      BY <1>1, ScheduleAssumption DEF SchedInv, ScheduleTypeOK, Expr
    <3> QED
      BY <1>4, <2>1, <3>1, <3>2 DEF OneRequest
  <2>2. CASE c # d
    <3>1. InFlight(c)' = InFlight(c) /\ \A q \in InFlight(c) : req'[q] = req[q]
      BY <1>1, <1>4, <2>2 DEF InFlight
    <3>2. tab'[c] = tab[c] /\ Live(c)' = Live(c)
      BY <1>1, <2>2 DEF Live, SchedInv, ScheduleTypeOK
    <3> QED
      BY <3>1, <3>2, OneRequestKept DEF SchedInv, RowsFollowed
  <2> QED
    BY <2>1, <2>2
<1> QED
  BY <1>1, <1>2, <1>3, <1>5, <1>6 DEF SchedInv, RowsFollowed

LEMMA FindStep ==
  ASSUME SchedInv, NEW r \in Request, NEW d \in Domain, NEW x \in Expr,
         FindForUpdate(r, d, x)
  PROVE  SchedInv'
<1> DEFINE new == [pc |-> "save", dom |-> d, expr |-> x]
<1>1. /\ req[r].pc = "idle" /\ d \in known /\ tab[d] # Absent
      /\ req' = [req EXCEPT ![r] = new] /\ raced' = Overlap(d)
      /\ UNCHANGED <<tab, known, entries, cron, lastId, restarts>>
  BY DEF FindForUpdate
<1>2. ScheduleTypeOK'
  BY <1>1 DEF SchedInv, ScheduleTypeOK, Overlap
<1>3. EntriesDistinct' /\ NoLostEntry'
  BY <1>1 DEF SchedInv, EntriesDistinct, NoLostEntry
<1>4. \A q \in Request : req'[q] = IF q = r THEN new ELSE req[q]
  BY <1>1 DEF SchedInv, ScheduleTypeOK
<1>5. \A q \in Request : req'[q].pc # "idle" => req'[q].dom \in known'
  BY <1>1, <1>4 DEF SchedInv, RowsFollowed
<1>6. ASSUME NEW c \in Domain \ raced' PROVE OneRequest(c)'
  <2>1. c \in Domain \ raced /\ (c = d => InFlight(d) = {})
    BY <1>1 DEF Overlap
  <2>2. tab'[c] = tab[c] /\ Live(c)' = Live(c) /\ OneRequest(c)
    BY <1>1, <2>1 DEF Live, SchedInv, RowsFollowed
  <2>3. CASE c = d
    <3>1. InFlight(d)' = {r}
      BY <1>4, <2>1, <2>3 DEF InFlight
    <3>2. Follows(d)
      BY <1>1, <2>1, <2>2, <2>3 DEF OneRequest
    <3> QED
      BY <1>1, <1>4, <2>2, <2>3, <3>1, <3>2 DEF OneRequest, Follows
  <2>4. CASE c # d
    <3>1. InFlight(c)' = InFlight(c) /\ \A q \in InFlight(c) : req'[q] = req[q]
      BY <1>1, <1>4, <2>4 DEF InFlight
    <3> QED
      BY <2>2, <3>1, OneRequestKept
  <2> QED
    BY <2>3, <2>4
<1> QED
  BY <1>2, <1>3, <1>5, <1>6 DEF SchedInv, RowsFollowed

LEMMA SaveStep ==
  ASSUME SchedInv, NEW r \in Request, SaveDomain(r) \/ SaveFails(r)
  PROVE  SchedInv'
<1>0. PICK d \in Domain : d = req[r].dom
  BY DEF SaveDomain, SaveFails, SchedInv, RowsFollowed, ScheduleTypeOK
<1>1. /\ req[r].pc = "save" /\ d \in known /\ d \in Domain /\ req[r].expr \in Expr
      /\ UNCHANGED <<known, entries, cron, lastId, raced, restarts>>
  BY <1>0 DEF SaveDomain, SaveFails, SchedInv, RowsFollowed, ScheduleTypeOK
<1>2. \/ tab' = [tab EXCEPT ![d] = req[r].expr] /\ req' = [req EXCEPT ![r].pc = "register"]
      \/ tab' = tab /\ req' = [req EXCEPT ![r] = NoRequest]
  BY <1>0 DEF SaveDomain, SaveFails
<1>3. ScheduleTypeOK'
  BY <1>1, <1>2 DEF SchedInv, ScheduleTypeOK, NoRequest, Expr
<1>4. EntriesDistinct' /\ NoLostEntry'
  BY <1>1 DEF SchedInv, EntriesDistinct, NoLostEntry
<1>5. /\ \A q \in Request \ {r} : req'[q] = req[q]
      /\ \/ /\ req'[r].pc = "register" /\ req'[r].dom = d
            /\ req'[r].expr = req[r].expr /\ tab'[d] = req[r].expr
         \/ req'[r].pc = "idle" /\ tab'[d] = tab[d]
      /\ \A c \in Domain \ {d} : tab'[c] = tab[c]
  BY <1>0, <1>1, <1>2 DEF SchedInv, ScheduleTypeOK, NoRequest
<1>6. \A q \in Request : req'[q].pc # "idle" => req'[q].dom \in known'
  BY <1>1, <1>5 DEF SchedInv, RowsFollowed
<1>7. ASSUME NEW c \in Domain \ raced PROVE OneRequest(c)'
  <2>1. Live(c)' = Live(c) /\ OneRequest(c)
    BY <1>1 DEF Live, SchedInv, RowsFollowed
  <2>2. CASE c = d
    <3>1. InFlight(d) = {r}
      BY <1>0, <1>1, <2>1, <2>2 DEF OneRequest, InFlight
    <3>2. Follows(d) /\ tab[d] # Absent
      BY <1>1, <2>1, <2>2, <3>1 DEF OneRequest
    <3>3. CASE /\ req'[r].pc = "register" /\ req'[r].dom = d
               /\ req'[r].expr = req[r].expr /\ tab'[d] = req[r].expr
      <4>1. InFlight(d)' = {r}
        BY <1>5, <3>1, <3>3 DEF InFlight
      <4>2. tab'[d] # Absent
        BY <1>1, <3>3, ScheduleAssumption DEF Expr
      <4> QED
        BY <2>2, <3>3, <4>1, <4>2 DEF OneRequest
    <3>4. CASE req'[r].pc = "idle" /\ tab'[d] = tab[d]
      <4>1. InFlight(d)' = {}
        BY <1>5, <3>1, <3>4 DEF InFlight
      <4> QED
        BY <2>1, <2>2, <3>2, <3>4, <4>1 DEF OneRequest, Follows
    <3> QED
      BY <1>5, <3>3, <3>4
  <2>3. CASE c # d
    <3>1. InFlight(c)' = InFlight(c) /\ \A q \in InFlight(c) : req'[q] = req[q]
      BY <1>0, <1>5, <2>3 DEF InFlight
    <3> QED
      BY <1>5, <2>1, <2>3, <3>1, OneRequestKept
  <2> QED
    BY <2>2, <2>3
<1> QED
  BY <1>1, <1>3, <1>4, <1>6, <1>7 DEF SchedInv, RowsFollowed

LEMMA RegisterStep ==
  ASSUME SchedInv, NEW r \in Request, RegisterSaved(r)
  PROVE  SchedInv'
<1>0. PICK d \in Domain, x \in Expr : d = req[r].dom /\ x = req[r].expr
  BY DEF RegisterSaved, SchedInv, RowsFollowed, ScheduleTypeOK
<1>1. /\ req[r].pc = "register" /\ Register(d, x)
      /\ req' = [req EXCEPT ![r] = NoRequest]
      /\ UNCHANGED <<tab, known, raced, restarts>>
  BY <1>0 DEF RegisterSaved
<1>2. /\ entries' \in [Domain -> Nat] /\ cron' \subseteq Entry
      /\ lastId' \in 0..MaxEntries
      /\ EntriesDistinct' /\ NoLostEntry'
      /\ \A c \in Domain \ {d} : Live(c)' = Live(c)
      /\ \A e \in Live(d)' : e.expr = x
      /\ x \in Valid <=> Live(d)' # {}
  BY <1>1, RegisterEffect DEF SchedInv
<1>3. ScheduleTypeOK'
  BY <1>1, <1>2 DEF SchedInv, ScheduleTypeOK, NoRequest, Expr
<1>4. /\ \A q \in Request \ {r} : req'[q] = req[q]
      /\ req'[r].pc = "idle"
  BY <1>1 DEF SchedInv, ScheduleTypeOK, NoRequest
<1>5. \A q \in Request : req'[q].pc # "idle" => req'[q].dom \in known'
  BY <1>1, <1>4 DEF SchedInv, RowsFollowed
<1>6. ASSUME NEW c \in Domain \ raced PROVE OneRequest(c)'
  <2>1. OneRequest(c) /\ tab' = tab
    BY <1>1 DEF SchedInv, RowsFollowed
  <2>2. CASE c = d
    <3>1. InFlight(d) = {r} /\ tab[d] = x
      BY <1>0, <1>1, <2>1, <2>2 DEF OneRequest, InFlight
    <3>2. InFlight(d)' = {}
      BY <1>4, <3>1 DEF InFlight
    <3> QED
      BY <1>2, <2>1, <2>2, <3>1, <3>2 DEF OneRequest, Follows
  <2>3. CASE c # d
    <3>1. InFlight(c)' = InFlight(c) /\ \A q \in InFlight(c) : req'[q] = req[q]
      BY <1>0, <1>4, <2>3 DEF InFlight
    <3> QED
      BY <1>2, <2>1, <2>3, <3>1, OneRequestKept
  <2> QED
    BY <2>2, <2>3
<1> QED
  BY <1>1, <1>2, <1>3, <1>5, <1>6 DEF SchedInv, RowsFollowed

LEMMA DeleteStep ==
  ASSUME SchedInv, NEW d \in Domain, DeleteDomain(d)
  PROVE  SchedInv'
<1>1. /\ d \in known /\ tab' = [tab EXCEPT ![d] = Absent] /\ raced' = Overlap(d)
      /\ UNCHANGED <<known, entries, cron, lastId, req, restarts>>
  BY DEF DeleteDomain
<1>2. ScheduleTypeOK' /\ EntriesDistinct' /\ NoLostEntry'
  BY <1>1 DEF SchedInv, ScheduleTypeOK, EntriesDistinct, NoLostEntry, Overlap
<1>3. ASSUME NEW c \in Domain \ raced' PROVE OneRequest(c)'
  <2>1. c \in Domain \ raced /\ (c = d => InFlight(d) = {})
    BY <1>1 DEF Overlap
  <2>2. /\ Live(c)' = Live(c) /\ InFlight(c)' = InFlight(c) /\ OneRequest(c)
        /\ tab'[c] = IF c = d THEN Absent ELSE tab[c]
    BY <1>1, <2>1 DEF Live, InFlight, SchedInv, RowsFollowed, ScheduleTypeOK
  <2>3. CASE c = d
    BY <2>1, <2>2, <2>3 DEF OneRequest
  <2>4. CASE c # d
    BY <1>1, <2>2, <2>4, OneRequestKept
  <2> QED
    BY <2>3, <2>4
<1> QED
  BY <1>1, <1>2, <1>3 DEF SchedInv, RowsFollowed

LEMMA RestartStep ==
  ASSUME SchedInv, Restart
  PROVE  SchedInv'
<1> DEFINE entry(d) == [id |-> BootId(d), dom |-> d, expr |-> tab[d]]
<1>1. /\ restarts < MaxRestarts /\ restarts' = restarts + 1
      /\ Cardinality(Scheduled) <= MaxEntries
      /\ entries' = [d \in Domain |-> IF d \in Scheduled THEN BootId(d) ELSE 0]
      /\ cron' = {entry(d) : d \in Scheduled}
      /\ lastId' = Cardinality(Scheduled)
      /\ req' = [r \in Request |-> NoRequest]
      /\ raced' = {} /\ UNCHANGED <<tab, known>>
  BY DEF Restart
<1>2. /\ Cardinality(Scheduled) \in Nat
      /\ \A d \in Domain : BootId(d) \in Nat /\ BootId(d) <= Cardinality(Scheduled)
      /\ \A d \in Scheduled : BootId(d) # 0
      /\ \A c, d \in Scheduled : BootId(c) = BootId(d) => c = d
  BY BootIds DEF SchedInv
<1>3. \A d \in Scheduled : d \in Domain /\ tab[d] \in Valid
  BY DEF Scheduled
<1>4. \A d \in Scheduled : /\ entry(d) \in Entry /\ entry(d).id = BootId(d)
                           /\ entry(d).dom = d /\ entry(d).expr = tab[d]
  BY <1>2, <1>3 DEF Entry
<1> HIDE DEF entry
<1>5. ScheduleTypeOK'
  <2>1. entries' \in [Domain -> Nat] /\ cron' \subseteq Entry
    BY <1>1, <1>2, <1>4
  <2>2. lastId' \in 0..MaxEntries /\ restarts' \in 0..MaxRestarts
    BY <1>1, <1>2, ScheduleAssumption DEF SchedInv, ScheduleTypeOK
  <2> QED
    BY <1>1, <2>1, <2>2 DEF SchedInv, ScheduleTypeOK, NoRequest, Expr
<1>6. EntriesDistinct'
  BY <1>1, <1>2 DEF EntriesDistinct
<1>7. NoLostEntry'
  BY <1>1, <1>3, <1>4 DEF NoLostEntry
<1>8. ASSUME NEW c \in Domain PROVE OneRequest(c)'
  <2>1. InFlight(c)' = {}
    BY <1>1 DEF InFlight, NoRequest
  <2>2. Follows(c)'
    <3>1. \A e \in Live(c)' : e.expr = tab[c]
      BY <1>1, <1>4 DEF Live
    <3>2. tab[c] \in Valid <=> Live(c)' # {}
      BY <1>1, <1>3, <1>4 DEF Live, Scheduled
    <3> QED
      BY <1>1, <3>1, <3>2 DEF Follows
  <2> QED
    BY <2>1, <2>2 DEF OneRequest
<1>9. \A q \in Request : req'[q].pc = "idle"
  BY <1>1 DEF NoRequest
<1> QED
  BY <1>5, <1>6, <1>7, <1>8, <1>9 DEF SchedInv, RowsFollowed

LEMMA SchedStep == SchedInv /\ [Next]_vars => SchedInv'
<1> SUFFICES ASSUME SchedInv, [Next]_vars PROVE SchedInv'
  OBVIOUS
<1>1. CASE UNCHANGED vars
  BY <1>1 DEF vars, SchedInv, ScheduleTypeOK, EntriesDistinct, NoLostEntry,
              RowsFollowed, OneRequest, Follows, Live, InFlight
<1>2. CASE Next
  BY <1>2, AddStep, FindStep, SaveStep, RegisterStep, DeleteStep, RestartStep DEF Next
<1> QED
  BY <1>1, <1>2

LEMMA SchedAlways == Spec => []SchedInv
  BY SchedInit, SchedStep, PTL DEF Spec

-----------------------------------------------------------------------------
(* Type correctness, the ids a restart hands out included.                   *)
THEOREM ScheduleTyped == Spec => []ScheduleTypeOK
<1>1. SchedInv => ScheduleTypeOK
  BY DEF SchedInv
<1> QED
  BY <1>1, SchedAlways, PTL

(* Whatever is registered, rejected or cleared, no entry fires that Register
   and Unregister would not remove (scheduler.go:40-76). *)
THEOREM EntriesNotLost == Spec => []NoLostEntry
<1>1. SchedInv => NoLostEntry
  BY DEF SchedInv
<1> QED
  BY <1>1, SchedAlways, PTL

(* Off the races of two requests, the cron runner has what the rows ask for
   (handlers_domain.go:27-93). *)
THEOREM CronFollowsRows == Spec => []ScheduleFollowsTable
<1>1. ASSUME SchedInv PROVE ScheduleFollowsTable
  <2> SUFFICES ASSUME NEW d \in Domain \ raced, InFlight(d) = {}, tab[d] # Absent
               PROVE  {e.expr : e \in Live(d)} = {tab[d]} \cap Valid
    BY DEF ScheduleFollowsTable, Live
  <2>1. Follows(d)
    BY <1>1 DEF SchedInv, RowsFollowed, OneRequest
  <2>2. CASE tab[d] \in Valid
    <3>1. PICK e \in Live(d) : e.expr = tab[d]
      BY <2>1, <2>2 DEF Follows
    <3> QED
      BY <2>1, <2>2, <3>1 DEF Follows
  <2>3. CASE tab[d] \notin Valid
    BY <2>1, <2>3 DEF Follows
  <2> QED
    BY <2>2, <2>3
<1> QED
  BY <1>1, SchedAlways, PTL

(* A deletion that no update overlaps is final (usecases.go:63-76).          *)
THEOREM DeletionFinal == Spec => DeletedForGood
<1>1. ASSUME SchedInv, [Next]_vars
      PROVE  [\A d \in known \ raced : tab[d] = Absent => tab'[d] = Absent]_vars
  <2> SUFFICES ASSUME NEW d \in known \ raced, tab[d] = Absent, Next
               PROVE  tab'[d] = Absent
    BY <1>1
  <2>0. d \in Domain /\ tab \in [Domain -> Expr \cup {Absent}]
    BY <1>1 DEF SchedInv, ScheduleTypeOK
  <2>1. InFlight(d) = {}
    BY <1>1, <2>0 DEF SchedInv, RowsFollowed, OneRequest
  <2>2. ASSUME NEW r \in Request, NEW c \in Domain, NEW x \in Expr, AddDomain(r, c, x)
        PROVE  tab'[d] = tab[d]
    BY <2>0, <2>2 DEF AddDomain
  <2>3. ASSUME NEW r \in Request, SaveDomain(r) PROVE tab'[d] = tab[d]
    BY <2>0, <2>1, <2>3 DEF SaveDomain, InFlight
  <2>4. ASSUME NEW c \in Domain, DeleteDomain(c)
        PROVE  tab'[d] = tab[d] \/ tab'[d] = Absent
    BY <2>0, <2>4 DEF DeleteDomain
  <2> QED
    BY <2>2, <2>3, <2>4 DEF Next, FindForUpdate, SaveFails, RegisterSaved, Restart
<1> QED
  BY <1>1, SchedAlways, PTL DEF Spec, DeletedForGood
=============================================================================
