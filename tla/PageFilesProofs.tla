-------------------------- MODULE PageFilesProofs ---------------------------
(* PageFiles for any fetches, files, bodies and size limit.                 *)
EXTENDS PageFiles, TLAPS

(* What is in the file of a fetch that has it alone.                        *)
AloneInv ==
  \A f \in alone :
    /\ \A g \in Fetch \ {f} : fetch[g].pc = "write" => fetch[g].path # fetch[f].path
    /\ fetch[f].pc = "write" =>
         file[fetch[f].path] = [i \in Place |-> IF i <= fetch[f].pos THEN fetch[f].body ELSE End]
    /\ fetch[f].pc = "saved" => file[fetch[f].path] = Whole(fetch[f].body)

(* Who has created the file of p, and whether it is about one body b.       *)
All(p) == {f \in opened : fetch[f].path = p}
Unbroken(p, b) ==
  \A f \in All(p) : fetch[f].pc \in {"write", "saved"} /\ fetch[f].body = b

(* A part that is not there yet is still to be written by somebody.         *)
SameInv ==
  \A p \in Path, b \in Body : Unbroken(p, b) /\ All(p) # {} =>
    \A i \in Place :
      \/ i <= Saved(b) /\ file[p][i] = b
      \/ i <= Saved(b) /\ \E f \in All(p) : fetch[f].pc = "write" /\ fetch[f].pos < i
      \/ i > Saved(b) /\ file[p][i] = End

OpenedInv ==
  \A f \in Fetch : /\ fetch[f].pc \in {"write", "saved"} => f \in opened
                   /\ fetch[f].pc \in {"idle", "open"} => f \notin opened
                   /\ fetch[f].pos <= Saved(fetch[f].body)
                   /\ fetch[f].pc = "saved" => fetch[f].pos = Saved(fetch[f].body)
                   /\ fetch[f].pc \in {"idle", "open"} => fetch[f].pos = 0

Inv == FilesTypeOK /\ AloneInv /\ SameInv /\ OpenedInv

LEMMA SavedTyped ==
  ASSUME NEW b \in Body
  PROVE  Saved(b) \in 0..Limit /\ Whole(b) \in Chunks
  BY FilesAssumption DEF Saved, Whole, Chunks, Place

LEMMA FilesInit == Init => Inv
<1> SUFFICES ASSUME Init PROVE Inv
  OBVIOUS
<1>1. /\ fetch \in [Fetch -> FetchState]
      /\ \A f \in Fetch : fetch[f].pc = "idle" /\ fetch[f].pos = 0 /\ fetch[f].body \in Body
  <2> DEFINE Fresh == {[pc |-> "idle", path |-> p, body |-> b, pos |-> 0] : p \in Path, b \in Body}
  <2>1. fetch \in [Fetch -> Fresh]
    BY DEF Init
  <2>2. \A r \in Fresh : r \in FetchState /\ r.pc = "idle" /\ r.pos = 0 /\ r.body \in Body
    BY FilesAssumption DEF FetchState
  <2> HIDE DEF Fresh
  <2> QED
    BY <2>1, <2>2
<1>2. FilesTypeOK
  BY <1>1, FilesAssumption DEF Init, FilesTypeOK, Chunks, Empty
<1> QED
  BY <1>1, <1>2, SavedTyped DEF Init, Inv, AloneInv, SameInv, OpenedInv, All

LEMMA FilesStep == Inv /\ [Next]_vars => Inv'
<1> SUFFICES ASSUME Inv, [Next]_vars PROVE Inv'
  OBVIOUS
<1>0. /\ FilesTypeOK /\ AloneInv /\ SameInv /\ OpenedInv
      /\ \A f \in Fetch : /\ fetch[f] \in FetchState /\ fetch[f].path \in Path
                          /\ fetch[f].body \in Body /\ fetch[f].pos \in 0..Limit
  BY DEF Inv, FilesTypeOK, FetchState
<1>1. ASSUME NEW f \in Fetch, Respond(f) PROVE Inv'
  <2>1. /\ opened \subseteq Fetch /\ alone \subseteq opened
        /\ fetch' \in [Fetch -> FetchState]
        /\ fetch'[f].pc = "open"
        /\ UNCHANGED <<file, opened, alone, faults>>
        /\ fetch'[f].path = fetch[f].path /\ fetch'[f].body = fetch[f].body
        /\ fetch'[f].pos = fetch[f].pos
        /\ fetch[f].pc = "idle" /\ f \notin opened /\ f \notin alone
        /\ \A g \in Fetch \ {f} : fetch'[g] = fetch[g]
    BY <1>0, <1>1 DEF Respond, FilesTypeOK, FetchState, OpenedInv
  <2>2. \A p \in Path : All(p)' = All(p) /\ \A g \in All(p) : fetch'[g] = fetch[g]
    BY <2>1 DEF All
  <2>3. SameInv'
    BY <1>0, <2>1, <2>2 DEF SameInv, Unbroken
  <2>4. AloneInv'
    BY <1>0, <2>1 DEF AloneInv, FilesTypeOK
  <2> QED
    BY <1>0, <2>1, <2>3, <2>4 DEF Inv, FilesTypeOK, OpenedInv
<1>2. ASSUME NEW f \in Fetch, Open(f) PROVE Inv'
  <2> DEFINE p == fetch[f].path
  <2>1. /\ opened \subseteq Fetch /\ alone \subseteq opened
        /\ fetch' \in [Fetch -> FetchState]
        /\ fetch[f].pc = "open"
        /\ f \notin opened
        /\ file' = [file EXCEPT ![p] = Empty] /\ UNCHANGED faults
        /\ fetch'[f].pc = "write" /\ fetch'[f].pos = 0
        /\ fetch'[f].path = p /\ fetch'[f].body = fetch[f].body
        /\ \A g \in Fetch \ {f} : fetch'[g] = fetch[g]
        /\ opened' = opened \cup {f} /\ alone' \subseteq alone \cup {f}
        /\ \A g \in alone' \ {f} : g \in alone /\ fetch[g].path # p
        /\ f \in alone' => \A h \in Fetch : ~Writes(h, p)
    BY <1>0, <1>2 DEF Open, Created, OpenedInv, FilesTypeOK, FetchState
  <2>0. p \in Path
    BY <1>0
  <2>2. file' \in [Path -> Chunks] /\ file'[p] = Empty /\ \A q \in Path \ {p} : file'[q] = file[q]
    BY <1>0, <2>0, <2>1 DEF FilesTypeOK, Chunks, Empty
  <2>3. AloneInv'
    <3> SUFFICES ASSUME NEW g \in alone'
                 PROVE  /\ \A h \in Fetch \ {g} : fetch'[h].pc = "write" => fetch'[h].path # fetch'[g].path
                        /\ fetch'[g].pc = "write" =>
                             file'[fetch'[g].path] =
                               [i \in Place |-> IF i <= fetch'[g].pos THEN fetch'[g].body ELSE End]
                        /\ fetch'[g].pc = "saved" => file'[fetch'[g].path] = Whole(fetch'[g].body)
      BY DEF AloneInv
    <3>1. CASE g = f
      <4>1. \A h \in Fetch \ {g} : fetch'[h].pc = "write" => fetch'[h].path # fetch'[g].path
        BY <2>1, <3>1 DEF Writes
      <4>2. Empty = [i \in Place |-> IF i <= fetch'[g].pos THEN fetch'[g].body ELSE End]
        BY <2>1, <3>1 DEF Empty, Place
      <4> QED
        BY <2>1, <2>2, <3>1, <4>1, <4>2
    <3>2. CASE g # f
      <4>1. g \in alone /\ g \in Fetch /\ fetch[g].path # p /\ fetch[g].path \in Path
        BY <1>0, <2>1, <3>2 DEF FilesTypeOK
      <4>2. \A h \in Fetch \ {g} : fetch'[h].pc = "write" => fetch'[h].path # fetch'[g].path
        <5> SUFFICES ASSUME NEW h \in Fetch \ {g}, fetch'[h].pc = "write"
                     PROVE  fetch'[h].path # fetch[g].path
          BY <2>1, <3>2, <4>1
        <5>1. CASE h = f
          BY <2>1, <4>1, <5>1
        <5>2. CASE h # f
          <6>1. fetch[h].pc = "write" /\ fetch'[h] = fetch[h]
            BY <2>1, <5>2
          <6> QED
            BY <1>0, <4>1, <6>1 DEF AloneInv
        <5> QED
          BY <5>1, <5>2
      <4> QED
        BY <1>0, <2>1, <2>2, <3>2, <4>1, <4>2 DEF AloneInv
    <3> QED
      BY <3>1, <3>2
  <2>4. SameInv'
    <3> SUFFICES ASSUME NEW q \in Path, NEW b \in Body, Unbroken(q, b)', All(q)' # {},
                        NEW i \in Place
                 PROVE  \/ i <= Saved(b) /\ file'[q][i] = b
                        \/ i <= Saved(b) /\ \E g \in All(q)' : fetch'[g].pc = "write" /\ fetch'[g].pos < i
                        \/ i > Saved(b) /\ file'[q][i] = End
      BY DEF SameInv
    <3>1. CASE q = p
      <4>1. f \in All(q)' /\ fetch'[f].pc = "write" /\ fetch'[f].pos < i
        BY <2>1, <3>1 DEF All, Place
      <4>2. file'[q][i] = End
        BY <2>2, <3>1 DEF Empty
      <4> QED
        BY <4>1, <4>2, SavedTyped DEF Place
    <3>2. CASE q # p
      <4>1. All(q)' = All(q) /\ f \notin All(q)
        BY <2>1, <3>2 DEF All
      <4>2. Unbroken(q, b)
        BY <2>1, <4>1 DEF Unbroken, All
      <4>3. file'[q] = file[q]
        BY <2>2, <3>2
      <4>4. \A g \in All(q) : fetch'[g].pc = fetch[g].pc /\ fetch'[g].pos = fetch[g].pos
        BY <2>1, <4>1 DEF All
      <4> QED
        BY <1>0, <4>1, <4>2, <4>3, <4>4 DEF SameInv
    <3> QED
      BY <3>1, <3>2
  <2>5. OpenedInv'
    BY <1>0, <2>1, SavedTyped DEF OpenedInv
  <2> QED
    BY <1>0, <2>1, <2>2, <2>3, <2>4, <2>5 DEF Inv, FilesTypeOK
<1>3. ASSUME NEW f \in Fetch, Write(f) PROVE Inv'
  <2> DEFINE p == fetch[f].path
             b == fetch[f].body
             n == fetch'[f].pos
             c == file'[p]
  <2>0. p \in Path /\ b \in Body /\ Saved(b) \in 0..Limit /\ fetch[f].pos \in Nat
        /\ file[p] \in Chunks /\ b # End /\ b # Hole /\ Hole # End /\ Limit \in Nat
    BY <1>0, SavedTyped, FilesAssumption DEF FilesTypeOK
  <2>1. /\ opened \subseteq Fetch /\ alone \subseteq opened
        /\ fetch' \in [Fetch -> FetchState]
        /\ UNCHANGED <<opened, alone, faults>>
        /\ fetch[f].pc = "write" /\ fetch'[f].pc = "write"
        /\ fetch'[f].path = p /\ fetch'[f].body = b
        /\ \A g \in Fetch \ {f} : fetch'[g] = fetch[g]
        /\ n \in Nat /\ fetch[f].pos < n /\ n <= Saved(b)
    <3>1. PICK k \in 0..Limit : /\ fetch' = [fetch EXCEPT ![f].pos = k]
                                /\ fetch[f].pos < k /\ k <= Saved(b)
      <4>1. CASE p \in Html
        BY <1>3, <2>0, <4>1 DEF Write
      <4>2. CASE p \notin Html
        BY <1>3, <2>0, <4>2 DEF Write
      <4> QED
        BY <4>1, <4>2
    <3> QED
      BY <1>0, <1>3, <3>1 DEF Write, FilesTypeOK, FetchState
  <2>2. /\ file' \in [Path -> Chunks] /\ \A q \in Path \ {p} : file'[q] = file[q]
        /\ \A i \in Place :
             /\ fetch[f].pos < i /\ i <= n => c[i] = b
             /\ i > n => c[i] = file[p][i]
             /\ file[p][i] # End /\ i <= fetch[f].pos => c[i] \in {file[p][i], b}
    <3>1. CASE p \in Html
      <4>1. n = Saved(b)
        BY <1>0, <1>3, <3>1 DEF Write, FilesTypeOK, FetchState
      <4> DEFINE d == [i \in Place |-> IF i <= Saved(b) THEN b ELSE file[p][i]]
      <4>2. file' = [file EXCEPT ![p] = d]
        BY <1>3, <3>1 DEF Write
      <4>3. d \in Chunks
        BY <2>0 DEF Chunks
      <4>4. file' \in [Path -> Chunks] /\ c = d /\ \A q \in Path \ {p} : file'[q] = file[q]
        BY <1>0, <2>0, <4>2, <4>3 DEF FilesTypeOK
      <4> QED
        BY <4>1, <4>4, <2>1, <2>0 DEF Place
    <3>2. CASE p \notin Html
      <4>1. n = fetch[f].pos + 1
        BY <1>0, <1>3, <3>2 DEF Write, FilesTypeOK, FetchState
      <4> DEFINE d == Put(file[p], fetch[f].pos + 1, b)
      <4>2. file' = [file EXCEPT ![p] = d]
        BY <1>3, <3>2 DEF Write
      <4>3. d \in Chunks
        BY <2>0 DEF Chunks, Put
      <4>4. file' \in [Path -> Chunks] /\ c = d /\ \A q \in Path \ {p} : file'[q] = file[q]
        BY <1>0, <2>0, <4>2, <4>3 DEF FilesTypeOK
      <4> QED
        BY <4>1, <4>4, <2>1, <2>0 DEF Place, Put
    <3> QED
      BY <3>1, <3>2
  <2> HIDE DEF n, c
  <2>3. AloneInv'
    <3> SUFFICES ASSUME NEW g \in alone'
                 PROVE  /\ \A h \in Fetch \ {g} : fetch'[h].pc = "write" => fetch'[h].path # fetch'[g].path
                        /\ fetch'[g].pc = "write" =>
                             file'[fetch'[g].path] =
                               [i \in Place |-> IF i <= fetch'[g].pos THEN fetch'[g].body ELSE End]
                        /\ fetch'[g].pc = "saved" => file'[fetch'[g].path] = Whole(fetch'[g].body)
      BY DEF AloneInv
    <3>0. g \in alone /\ g \in Fetch
      BY <1>0, <2>1 DEF FilesTypeOK
    <3>1. \A h \in Fetch \ {g} : fetch'[h].pc = "write" => fetch'[h].path # fetch'[g].path
      <4> SUFFICES ASSUME NEW h \in Fetch \ {g}, fetch'[h].pc = "write"
                   PROVE  fetch'[h].path # fetch'[g].path
        OBVIOUS
      <4>1. fetch[h].pc = "write" /\ fetch'[h].path = fetch[h].path /\ fetch'[g].path = fetch[g].path
        BY <2>1, <3>0
      <4> QED
        BY <1>0, <3>0, <4>1 DEF AloneInv
    <3>2. CASE g = f
      <4>1. \A i \in Place : file[p][i] = IF i <= fetch[f].pos THEN b ELSE End
        <5>1. file[p] = [i \in Place |-> IF i <= fetch[f].pos THEN b ELSE End]
          BY <1>0, <2>1, <3>0, <3>2 DEF AloneInv
        <5> QED
          BY <5>1
      <4>2. \A i \in Place : c[i] = IF i <= n THEN b ELSE End
        BY <2>0, <2>1, <2>2, <4>1 DEF Place, n, c
      <4>3. c = [i \in Place |-> IF i <= n THEN b ELSE End]
        BY <2>0, <2>2, <4>2 DEF Chunks, c
      <4> QED
        BY <2>1, <3>1, <3>2, <4>3 DEF c, n
    <3>3. CASE g # f
      <4>1. fetch[g].path # p
        BY <1>0, <2>1, <3>0, <3>3 DEF AloneInv, Writes
      <4> QED
        BY <1>0, <2>1, <2>2, <3>0, <3>1, <3>3, <4>1 DEF AloneInv
    <3> QED
      BY <3>2, <3>3
  <2>4. SameInv'
    <3> SUFFICES ASSUME NEW q \in Path, NEW e \in Body, Unbroken(q, e)', All(q)' # {},
                        NEW i \in Place
                 PROVE  \/ i <= Saved(e) /\ file'[q][i] = e
                        \/ i <= Saved(e) /\ \E g \in All(q)' : fetch'[g].pc = "write" /\ fetch'[g].pos < i
                        \/ i > Saved(e) /\ file'[q][i] = End
      BY DEF SameInv
    <3>1. All(q)' = All(q) /\ Unbroken(q, e)
      BY <2>1 DEF All, Unbroken
    <3>2. \/ i <= Saved(e) /\ file[q][i] = e
          \/ i <= Saved(e) /\ \E g \in All(q) : fetch[g].pc = "write" /\ fetch[g].pos < i
          \/ i > Saved(e) /\ file[q][i] = End
      BY <1>0, <3>1 DEF SameInv
    <3>3. CASE q # p
      <4>1. file'[q] = file[q] /\ \A g \in All(q) : fetch'[g] = fetch[g]
        BY <2>1, <2>2, <3>3 DEF All
      <4> QED
        BY <3>1, <3>2, <4>1
    <3>4. CASE q = p
      <4>1. f \in All(p) /\ e = b
        BY <1>0, <2>1, <3>1, <3>4 DEF All, OpenedInv, Unbroken
      <4>2. i \in Nat /\ file'[q] = c /\ fetch'[f].pos = n
        BY <2>0, <3>4 DEF Place, c, n
      <4>3. CASE fetch[f].pos < i /\ i <= n
        BY <2>0, <2>1, <2>2, <4>1, <4>2, <4>3
      <4>4. CASE i > n
        <5>1. c[i] = file[p][i]
          BY <2>2, <4>4
        <5>2. ASSUME NEW g \in All(p), fetch[g].pc = "write", fetch[g].pos < i
              PROVE  g \in All(q)' /\ fetch'[g].pc = "write" /\ fetch'[g].pos < i
          BY <2>1, <3>1, <3>4, <4>2, <4>4, <5>2 DEF All
        <5> QED
          BY <3>2, <3>4, <4>2, <5>1, <5>2
      <4>5. CASE i <= fetch[f].pos
        <5>1. i <= Saved(b)
          BY <2>0, <2>1, <4>2, <4>5
        <5>2. CASE file[p][i] = b
          BY <2>0, <2>2, <3>4, <4>1, <4>2, <4>5, <5>1, <5>2
        <5>3. ASSUME NEW g \in All(p), fetch[g].pc = "write", fetch[g].pos < i
              PROVE  g \in All(q)' /\ fetch'[g].pc = "write" /\ fetch'[g].pos < i
          <6>1. g # f
            BY <2>0, <4>2, <4>5, <5>3
          <6> QED
            BY <2>1, <3>1, <3>4, <5>3, <6>1 DEF All
        <5>4. ~(i > Saved(b))
          BY <2>0, <4>2, <5>1
        <5> QED
          BY <3>2, <3>4, <4>1, <5>1, <5>2, <5>3, <5>4
      <4> QED
        BY <2>0, <2>1, <4>2, <4>3, <4>4, <4>5
    <3> QED
      BY <3>3, <3>4
  <2>5. OpenedInv'
    BY <1>0, <2>1 DEF OpenedInv, n
  <2> QED
    BY <1>0, <2>1, <2>2, <2>3, <2>4, <2>5 DEF Inv, FilesTypeOK
<1>4. ASSUME NEW f \in Fetch, Finish(f) PROVE Inv'
  <2>1. /\ opened \subseteq Fetch /\ alone \subseteq opened
        /\ fetch' \in [Fetch -> FetchState]
        /\ UNCHANGED <<file, opened, alone, faults>>
        /\ fetch[f].pc = "write" /\ fetch'[f].pc = "saved"
        /\ fetch[f].pos = Saved(fetch[f].body)
        /\ fetch'[f].path = fetch[f].path /\ fetch'[f].body = fetch[f].body
        /\ fetch'[f].pos = fetch[f].pos
        /\ \A g \in Fetch \ {f} : fetch'[g] = fetch[g]
    BY <1>0, <1>4 DEF Finish, FilesTypeOK, FetchState
  <2>2. AloneInv'
    <3>2. f \in alone => file[fetch[f].path] = Whole(fetch[f].body)
      BY <1>0, <2>1 DEF AloneInv, Whole
    <3> QED
      BY <1>0, <2>1, <3>2 DEF AloneInv, FilesTypeOK
  <2>3. SameInv'
    <3> SUFFICES ASSUME NEW q \in Path, NEW e \in Body, Unbroken(q, e)', All(q)' # {},
                        NEW i \in Place
                 PROVE  \/ i <= Saved(e) /\ file[q][i] = e
                        \/ i <= Saved(e) /\ \E g \in All(q)' : fetch'[g].pc = "write" /\ fetch'[g].pos < i
                        \/ i > Saved(e) /\ file[q][i] = End
      BY <2>1 DEF SameInv
    <3>1. All(q)' = All(q) /\ Unbroken(q, e)
      BY <2>1 DEF All, Unbroken
    <3>2. ASSUME NEW g \in All(q), fetch[g].pc = "write", fetch[g].pos < i, i <= Saved(e)
          PROVE  fetch'[g].pc = "write" /\ fetch'[g].pos < i
      <4>1. g # f
        BY <1>0, <2>1, <3>1, <3>2, SavedTyped DEF Unbroken, Place, All
      <4> QED
        BY <2>1, <3>2, <4>1 DEF All
    <3> QED
      BY <1>0, <3>1, <3>2 DEF SameInv
  <2> QED
    BY <1>0, <2>1, <2>2, <2>3 DEF Inv, FilesTypeOK, OpenedInv
<1>5. ASSUME NEW f \in Fetch, SaveFails(f) PROVE Inv'
  <2>1. /\ opened \subseteq Fetch /\ alone \subseteq opened
        /\ fetch' \in [Fetch -> FetchState]
        /\ UNCHANGED <<file, opened, alone>>
        /\ fetch[f].pc \in {"open", "write"} /\ fetch'[f].pc \in {"failed", "unsaved"}
        /\ fetch'[f].path = fetch[f].path /\ fetch'[f].body = fetch[f].body
        /\ fetch'[f].pos = fetch[f].pos
        /\ \A g \in Fetch \ {f} : fetch'[g] = fetch[g]
    <3>1. PICK r \in {"failed", "unsaved"} : fetch' = [fetch EXCEPT ![f].pc = r]
      BY <1>5 DEF SaveFails
    <3> QED
      BY <1>0, <1>5, <3>1 DEF SaveFails, FilesTypeOK, FetchState
  <2>2. faults' \in 0..MaxFaults
    BY <1>0, <1>5, FilesAssumption DEF SaveFails, Fault, FilesTypeOK
  <2>3. AloneInv'
    BY <1>0, <2>1 DEF AloneInv, FilesTypeOK
  <2>4. SameInv'
    <3> SUFFICES ASSUME NEW q \in Path, NEW e \in Body, Unbroken(q, e)', All(q)' # {},
                        NEW i \in Place
                 PROVE  \/ i <= Saved(e) /\ file[q][i] = e
                        \/ i <= Saved(e) /\ \E g \in All(q)' : fetch'[g].pc = "write" /\ fetch'[g].pos < i
                        \/ i > Saved(e) /\ file[q][i] = End
      BY <2>1 DEF SameInv
    <3>1. All(q)' = All(q) /\ f \notin All(q)
      BY <2>1 DEF All, Unbroken
    <3>2. Unbroken(q, e) /\ \A g \in All(q) : fetch'[g] = fetch[g]
      BY <2>1, <3>1 DEF All, Unbroken
    <3> QED
      BY <1>0, <3>1, <3>2 DEF SameInv
  <2> QED
    BY <1>0, <2>1, <2>2, <2>3, <2>4 DEF Inv, FilesTypeOK, OpenedInv
<1>6. CASE UNCHANGED vars
  BY <1>0, <1>6 DEF vars, Inv, FilesTypeOK, AloneInv, SameInv, OpenedInv, Writes, Unbroken, All
<1> QED
  BY <1>1, <1>2, <1>3, <1>4, <1>5, <1>6 DEF Next

LEMMA Always == Spec => []Inv
  BY FilesInit, FilesStep, PTL DEF Spec

(* Type correctness of files and fetches (filestore.go:25-55).              *)
THEOREM FilesTyped == Spec => []FilesTypeOK
<1>1. Inv => FilesTypeOK
  BY DEF Inv
<1> QED
  BY <1>1, Always, PTL

(* A saved file nobody else touches is whole (filestore.go:25-55).          *)
THEOREM SavedWhole == Spec => []SavedFileWhole
<1>1. Inv => SavedFileWhole
  BY DEF Inv, AloneInv, SavedFileWhole
<1> QED
  BY <1>1, Always, PTL

(* Fetches of one unchanged page leave one whole file (filestore.go:25-55). *)
THEOREM SamePageAgrees == Spec => []SameBodyAgrees
<1>1. Inv => SameBodyAgrees
  <2> SUFFICES ASSUME Inv, NEW p \in Path,
                      \A f \in All(p) : fetch[f].pc = "saved",
                      \A f, g \in All(p) : fetch[f].body = fetch[g].body,
                      NEW f \in All(p)
               PROVE  file[p] = Whole(fetch[f].body)
    BY DEF SameBodyAgrees, All
  <2>1. fetch[f].body \in Body /\ Unbroken(p, fetch[f].body) /\ file[p] \in Chunks
    BY DEF Inv, FilesTypeOK, FetchState, Unbroken, All
  <2>2. Saved(fetch[f].body) \in Nat
    BY <2>1, SavedTyped, FilesAssumption
  <2>3. \A i \in Place : file[p][i] = IF i <= Saved(fetch[f].body) THEN fetch[f].body ELSE End
    BY <2>1, <2>2 DEF Inv, SameInv, Place
  <2> QED
    BY <2>1, <2>3 DEF Whole, Chunks
<1> QED
  BY <1>1, Always, PTL
=============================================================================
