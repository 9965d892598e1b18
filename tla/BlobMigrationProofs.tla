------------------------ MODULE BlobMigrationProofs -------------------------
(* BlobMigration for any blobs, rows, number of runs and of faults.         *)
EXTENDS BlobMigration, TLAPS

(* A source that no longer has a blob has given it to the destination, and
   the blob in hand can be read while it is put and is complete before it is
   deleted.  That is what keeps BlobSafe. *)
SourceInv ==
  /\ \A k \in Blob : \/ src[k] = "full"
                     \/ src[k] = "none" /\ dst[k] = "full"
  /\ \A q, r \in run.cur : q = r
  /\ run.pc = "put" => \A r \in run.cur : src[BlobOf[r]] = "full"
  /\ run.pc = "delete" => \A r \in run.cur : dst[BlobOf[r]] = "full"

MigInv == MigrationTypeOK /\ SourceInv

LEMMA NoRunTyped == NoRun \in RunState /\ NoRun.cur = {} /\ NoRun.pc = "idle"
  BY DEF NoRun, RunState

LEMMA NextTyped ==
  ASSUME NEW p \in RunState
  PROVE  NextRow(p) \in RunState /\ NextRow(p).cur = {} /\ NextRow(p).pc = "next"
  BY DEF NextRow, RunState

LEMMA FailedTyped ==
  ASSUME NEW p \in RunState, NEW bad \in BOOLEAN
  PROVE  /\ FailedRow(p, bad) \in RunState /\ FailedRow(p, bad).cur = {}
         /\ FailedRow(p, bad).pc = "next"
<1> DEFINE n == NextRow(p)
<1>1. n \in RunState /\ n.cur = {} /\ n.pc = "next"
  BY NextTyped
<1>2. FailedRow(p, bad) = [n EXCEPT !.failed = n.failed + 1, !.bad = n.bad \/ bad]
  BY DEF FailedRow
<1>3. n.failed + 1 \in Nat
  BY <1>1 DEF RunState
<1>4. (n.bad \/ bad) \in BOOLEAN
  OBVIOUS
<1> DEFINE f == n.failed + 1
           b == n.bad \/ bad
<1> HIDE DEF n, f, b
<1>5. [n EXCEPT !.failed = f, !.bad = b] \in RunState
  BY <1>1, <1>3, <1>4 DEF f, b, RunState
<1> QED
  BY <1>1, <1>2, <1>5 DEF f, b, RunState

LEMMA FaultTyped ==
  ASSUME MigrationTypeOK, Fault \/ NoFault
  PROVE  faults' \in 0..MaxFaults
  BY MigrationAssumption DEF MigrationTypeOK, Fault, NoFault

LEMMA MigInit == Init => MigInv
<1> SUFFICES ASSUME Init PROVE MigInv
  OBVIOUS
<1>1. MigrationTypeOK
  BY NoRunTyped, MigrationAssumption DEF Init, MigrationTypeOK, Content
<1>2. SourceInv
  BY NoRunTyped DEF Init, SourceInv
<1> QED
  BY <1>1, <1>2 DEF MigInv

(* The steps of the command keep the types and what BlobSafe needs.         *)
LEMMA MigStep == MigInv /\ [Next]_vars => MigInv'
<1> SUFFICES ASSUME MigInv, [Next]_vars PROVE MigInv'
  OBVIOUS
<1> USE DEF MigInv
<1>1. ASSUME NEW skip \in BOOLEAN, NEW del \in BOOLEAN, StartRun(skip, del)
      PROVE  MigInv'
  <2> DEFINE found == {r \in ResultRow : at[r] = "src"}
             new == [NoRun EXCEPT !.pc = "next", !.rows = found, !.todo = found,
                                  !.skip = skip, !.del = del]
  <2>1. new \in RunState /\ new.cur = {} /\ new.pc = "next"
    BY DEF NoRun, RunState
  <2>2. run' = new
    BY <1>1 DEF StartRun
  <2>3. runs' \in 0..MaxRuns
    BY <1>1, MigrationAssumption DEF StartRun, MigrationTypeOK
  <2> HIDE DEF new
  <2> QED
    BY <1>1, <2>1, <2>2, <2>3 DEF StartRun, MigrationTypeOK, SourceInv
<1>2. ASSUME NEW r \in ResultRow, TakeRow(r) PROVE MigInv'
  <2> DEFINE rest == [run EXCEPT !.todo = @ \ {r}, !.cur = {r}]
             copy == [rest EXCEPT !.pc = "copy"]
             worse == [rest EXCEPT !.pc = "copy", !.bad = TRUE]
  <2>1. rest \in RunState
    BY DEF MigrationTypeOK, RunState
  <2>2. copy \in RunState /\ copy.cur = {r} /\ copy.pc = "copy"
    BY DEF MigrationTypeOK, RunState
  <2>3. worse \in RunState /\ worse.cur = {r} /\ worse.pc = "copy"
    BY DEF MigrationTypeOK, RunState
  <2>4. NextRow(rest) \in RunState /\ NextRow(rest).cur = {} /\ NextRow(rest).pc = "next"
    BY <2>1, NextTyped
  <2>5. run' = copy \/ run' = worse \/ run' = NextRow(rest)
    BY <1>2 DEF TakeRow
  <2>6. (Fault \/ NoFault) /\ UNCHANGED <<src, dst, at, cut, runs>>
    BY <1>2 DEF TakeRow
  <2> HIDE DEF rest, copy, worse
  <2> QED
    BY <2>2, <2>3, <2>4, <2>5, <2>6, FaultTyped DEF MigrationTypeOK, SourceInv
<1>3. ASSUME NEW r \in ResultRow, CopyRow(r) PROVE MigInv'
  <2> DEFINE k == BlobOf[r]
             put == [run EXCEPT !.pc = "put"]
  <2>1. k \in Blob /\ run.cur = {r} /\ run.pc = "copy"
    BY <1>3, MigrationAssumption DEF CopyRow, MigrationTypeOK, RunState, SourceInv
  <2>2. put \in RunState /\ put.cur = {r} /\ put.pc = "put"
    BY <2>1 DEF MigrationTypeOK, RunState
  <2>3. CASE /\ src[k] # "none"
             /\ dst' \in {dst, [dst EXCEPT ![k] = "part"]}
             /\ run' = put
             /\ NoFault /\ UNCHANGED cut
    <3>1. src[k] = "full"
      BY <2>1, <2>3 DEF SourceInv
    <3>2. dst' \in [Blob -> Content] /\ \A b \in Blob : b # k => dst'[b] = dst[b]
      BY <2>3 DEF MigrationTypeOK, Content
    <3> HIDE DEF put
    <3> QED
      BY <1>3, <2>1, <2>2, <2>3, <3>1, <3>2, FaultTyped
      DEF CopyRow, MigrationTypeOK, SourceInv
  <2>4. CASE /\ run' \in {FailedRow(run, FALSE), FailedRow(run, TRUE)}
             /\ Fault \/ NoFault
             /\ UNCHANGED <<dst, cut>>
    BY <1>3, <2>4, FailedTyped, FaultTyped DEF CopyRow, MigrationTypeOK, SourceInv
  <2> QED
    BY <1>3, <2>3, <2>4 DEF CopyRow, OpenBlob
<1>4. ASSUME NEW r \in ResultRow, FinishPut(r) PROVE MigInv'
  <2> DEFINE k == BlobOf[r]
             del == [run EXCEPT !.pc = "delete"]
  <2>1. k \in Blob /\ run.cur = {r} /\ src[k] = "full"
    BY <1>4, MigrationAssumption DEF FinishPut, MigrationTypeOK, RunState, SourceInv
  <2>2. del \in RunState /\ del.cur = {r} /\ del.pc = "delete"
    BY <2>1 DEF MigrationTypeOK, RunState
  <2>3. CASE /\ dst' = [dst EXCEPT ![k] = src[k]]
             /\ cut' = cut \ {k}
             /\ run' \in {del, NextRow(run)}
             /\ NoFault
    <3>1. dst' \in [Blob -> Content] /\ dst'[k] = "full"
          /\ \A b \in Blob : b # k => dst'[b] = dst[b]
      BY <2>1, <2>3 DEF MigrationTypeOK
    <3> HIDE DEF del
    <3> QED
      BY <1>4, <2>1, <2>2, <2>3, <3>1, NextTyped, FaultTyped
      DEF FinishPut, MigrationTypeOK, SourceInv
  <2>4. CASE /\ Fault
             /\ run' = FailedRow(run, TRUE)
             /\ cut' = cut \cup {k}
             /\ UNCHANGED dst
    BY <1>4, <2>1, <2>4, FailedTyped, FaultTyped DEF FinishPut, MigrationTypeOK, SourceInv
  <2> QED
    BY <1>4, <2>3, <2>4 DEF FinishPut
<1>5. ASSUME NEW r \in ResultRow, DeleteSource(r) PROVE MigInv'
  <2>1. BlobOf[r] \in Blob /\ dst[BlobOf[r]] = "full"
    BY <1>5, MigrationAssumption DEF DeleteSource, SourceInv
  <2>2. /\ src' \in [Blob -> Content]
        /\ \A b \in Blob : src'[b] = src[b] \/ (b = BlobOf[r] /\ src'[b] = "none")
    BY <1>5 DEF DeleteSource, MigrationTypeOK, Content
  <2> QED
    BY <1>5, <2>1, <2>2, NextTyped, FaultTyped
    DEF DeleteSource, MigrationTypeOK, SourceInv
<1>6. ASSUME NEW r \in ResultRow, UpdateRow(r) PROVE MigInv'
  <2>1. /\ run' \in RunState /\ run'.pc = "update" /\ run'.cur = run.cur
        /\ Fault \/ NoFault
        /\ at' \in [ResultRow -> {"src", "dst"}]
    BY <1>6 DEF UpdateRow, MigrationTypeOK, RunState
  <2> QED
    BY <1>6, <2>1, FaultTyped DEF UpdateRow, MigrationTypeOK, SourceInv
<1>7. ASSUME FinishCopying PROVE MigInv'
  <2> DEFINE upd == [run EXCEPT !.pc = "update", !.todo = run.rows]
  <2>1. upd \in RunState /\ upd.pc = "update" /\ upd.cur = run.cur
    BY DEF MigrationTypeOK, RunState
  <2>2. run' \in {upd, NoRun}
    BY <1>7 DEF FinishCopying
  <2> HIDE DEF upd
  <2> QED
    BY <1>7, <2>1, <2>2, NoRunTyped DEF FinishCopying, MigrationTypeOK, SourceInv
<1>8. ASSUME EndRun PROVE MigInv'
  BY <1>8, NoRunTyped DEF EndRun, MigrationTypeOK, SourceInv
<1>9. ASSUME Killed PROVE MigInv'
  <2>1. cut' \subseteq Blob
    BY <1>9, MigrationAssumption DEF Killed, InPut, MigrationTypeOK, RunState
  <2> QED
    BY <1>9, <2>1, NoRunTyped, FaultTyped DEF Killed, MigrationTypeOK, SourceInv
<1>10. CASE UNCHANGED vars
  BY <1>10 DEF vars, MigrationTypeOK, SourceInv
<1> QED
  BY <1>1, <1>2, <1>3, <1>4, <1>5, <1>6, <1>7, <1>8, <1>9, <1>10 DEF Next

(* No sequence of runs, failures and kills loses a blob: every blob is complete
   in one of the two stores (migrate.go:59-88). *)
THEOREM NoBlobLost == Spec => []BlobSafe
<1>1. MigInv => BlobSafe
  BY DEF MigInv, SourceInv, BlobSafe
<1> QED
  BY <1>1, MigInit, MigStep, PTL DEF Spec

-----------------------------------------------------------------------------
(* What the rows at the destination rest on: a blob is incomplete there only
   while it is put or after a cut, and a run without failures has put, or found,
   something for every row it has dealt with. *)
Handled == {r \in run.rows : r \notin run.todo /\ r \notin run.cur}

MovedInv ==
  /\ \A k \in Blob : dst[k] = "part" => k \in cut \cup InPut
  /\ \A r \in ResultRow : at[r] = "dst" => dst[BlobOf[r]] # "none"
  /\ run.pc \in {"next", "copy", "put", "delete"} /\ run.failed = 0 =>
       \A r \in Handled : dst[BlobOf[r]] # "none"
  /\ run.pc = "update" => /\ \A r \in run.rows : dst[BlobOf[r]] # "none"
                         /\ run.todo \subseteq run.rows
  /\ run.pc = "next" => run.cur = {}

LEMMA FailedFields ==
  ASSUME NEW p \in RunState, NEW bad \in BOOLEAN
  PROVE  /\ NextRow(p).failed = p.failed /\ NextRow(p).rows = p.rows
         /\ NextRow(p).todo = p.todo /\ FailedRow(p, bad).failed # 0
<1> DEFINE n == NextRow(p)
<1>1. /\ NextRow(p).failed = p.failed /\ NextRow(p).rows = p.rows
      /\ NextRow(p).todo = p.todo
  BY DEF NextRow, RunState
<1>2. n \in RunState
  BY NextTyped
<1> HIDE DEF n
<1>3. FailedRow(p, bad) = [n EXCEPT !.failed = n.failed + 1, !.bad = n.bad \/ bad]
  BY DEF FailedRow, n
<1>4. [n EXCEPT !.failed = n.failed + 1, !.bad = n.bad \/ bad].failed = n.failed + 1
  BY <1>2 DEF RunState
<1>5. n.failed + 1 # 0
  BY <1>2 DEF RunState
<1> QED
  BY <1>1, <1>3, <1>4, <1>5

(* A row that moved is not moved back and its blob does not disappear; the
   rest is by cases on the step. *)
LEMMA MovedStep == MigInv /\ MovedInv /\ [Next]_vars => MovedInv'
<1> SUFFICES ASSUME MigInv, MovedInv, [Next]_vars PROVE MovedInv'
  OBVIOUS
<1>0. /\ run \in RunState /\ dst \in [Blob -> Content] /\ src \in [Blob -> Content]
      /\ at \in [ResultRow -> {"src", "dst"}] /\ SourceInv
      /\ \A r \in ResultRow : BlobOf[r] \in Blob
  BY MigrationAssumption DEF MigInv, MigrationTypeOK
<1>1. ASSUME NEW skip \in BOOLEAN, NEW del \in BOOLEAN, StartRun(skip, del)
      PROVE  MovedInv'
  <2> DEFINE found == {r \in ResultRow : at[r] = "src"}
             new == [NoRun EXCEPT !.pc = "next", !.rows = found, !.todo = found,
                                  !.skip = skip, !.del = del]
  <2>1. new.pc = "next" /\ new.cur = {} /\ new.rows = found /\ new.todo = found
    BY DEF NoRun
  <2>2. run' = new /\ run.pc = "idle" /\ UNCHANGED <<dst, at, cut>>
    BY <1>1 DEF StartRun
  <2> HIDE DEF new
  <2> QED
    BY <2>1, <2>2 DEF MovedInv, Handled, InPut
<1>2. ASSUME NEW r \in ResultRow, TakeRow(r) PROVE MovedInv'
  <2> DEFINE rest == [run EXCEPT !.todo = @ \ {r}, !.cur = {r}]
             copy == [rest EXCEPT !.pc = "copy"]
             worse == [rest EXCEPT !.pc = "copy", !.bad = TRUE]
  <2>1. /\ rest \in RunState /\ rest.rows = run.rows /\ rest.todo = run.todo \ {r}
        /\ rest.failed = run.failed
    BY <1>0 DEF RunState
  <2>2. \A n \in {copy, worse} : /\ n.pc = "copy" /\ n.cur = {r} /\ n.rows = run.rows
                                 /\ n.todo = run.todo \ {r} /\ n.failed = run.failed
    BY <1>0 DEF RunState
  <2>3. /\ NextRow(rest).pc = "next" /\ NextRow(rest).cur = {}
        /\ NextRow(rest).rows = run.rows /\ NextRow(rest).todo = run.todo \ {r}
        /\ NextRow(rest).failed = run.failed
    BY <2>1, NextTyped, FailedFields
  <2>4. /\ run.pc = "next" /\ UNCHANGED <<dst, at, cut>>
        /\ \/ run' \in {copy, worse}
           \/ run' = NextRow(rest) /\ dst[BlobOf[r]] # "none"
    BY <1>2 DEF TakeRow
  <2> HIDE DEF rest, copy, worse
  <2> QED
    BY <2>2, <2>3, <2>4 DEF MovedInv, Handled, InPut
<1>3. ASSUME NEW r \in ResultRow, CopyRow(r) PROVE MovedInv'
  <2> DEFINE put == [run EXCEPT !.pc = "put"]
  <2>1. run.pc = "copy" /\ run.cur = {r} /\ UNCHANGED at
    BY <1>0, <1>3 DEF CopyRow, SourceInv
  <2>2. CASE run' = put /\ dst' \in {dst, [dst EXCEPT ![BlobOf[r]] = "part"]} /\ cut' = cut
    <3>1. /\ put.pc = "put" /\ put.cur = {r} /\ put.rows = run.rows
          /\ put.todo = run.todo /\ put.failed = run.failed
      BY <1>0, <2>1 DEF RunState
    <3>2. \A k \in Blob : \/ dst'[k] = dst[k]
                          \/ k = BlobOf[r] /\ dst'[k] = "part"
      BY <1>0, <2>2
    <3> HIDE DEF put
    <3>3. InPut' = {BlobOf[r]} /\ InPut = {} /\ Handled' = Handled
      BY <2>1, <2>2, <3>1 DEF InPut, Handled
    <3>4. Handled \subseteq ResultRow
      BY <1>0 DEF Handled, RunState
    <3> QED
      BY <1>0, <2>1, <2>2, <3>1, <3>2, <3>3, <3>4 DEF MovedInv
  <2>3. CASE run' \in {FailedRow(run, FALSE), FailedRow(run, TRUE)} /\ UNCHANGED <<dst, cut>>
    <3>1. run'.pc = "next" /\ run'.cur = {} /\ run'.failed # 0
      BY <1>0, <2>3, FailedTyped, FailedFields
    <3> QED
      BY <2>1, <2>3, <3>1 DEF MovedInv, InPut
  <2> QED
    BY <1>3, <2>2, <2>3 DEF CopyRow, OpenBlob
<1>4. ASSUME NEW r \in ResultRow, FinishPut(r) PROVE MovedInv'
  <2> DEFINE del == [run EXCEPT !.pc = "delete"]
  <2>1. /\ run.pc = "put" /\ run.cur = {r} /\ src[BlobOf[r]] = "full" /\ UNCHANGED at
        /\ InPut = {BlobOf[r]}
    BY <1>0, <1>4 DEF FinishPut, SourceInv, InPut
  <2>2. CASE /\ dst' = [dst EXCEPT ![BlobOf[r]] = src[BlobOf[r]]]
             /\ cut' = cut \ {BlobOf[r]}
             /\ run' \in {del, NextRow(run)}
    <3>1. \A k \in Blob : dst'[k] = IF k = BlobOf[r] THEN "full" ELSE dst[k]
      BY <1>0, <2>1, <2>2
    <3>2. del.pc = "delete" /\ del.cur = {r} /\ del.rows = run.rows
          /\ del.todo = run.todo /\ del.failed = run.failed
      BY <1>0, <2>1 DEF RunState
    <3>3. NextRow(run).pc = "next" /\ NextRow(run).cur = {} /\ NextRow(run).rows = run.rows
          /\ NextRow(run).todo = run.todo /\ NextRow(run).failed = run.failed
      BY <1>0, NextTyped, FailedFields
    <3> HIDE DEF del
    <3>4. InPut' = {} /\ Handled' \subseteq Handled \cup {r}
      BY <2>1, <2>2, <3>2, <3>3 DEF InPut, Handled
    <3>5. Handled \subseteq ResultRow
      BY <1>0 DEF Handled, RunState
    <3>6. run'.pc \in {"delete", "next"} /\ run'.failed = run.failed
          /\ (run'.pc = "next" => run'.cur = {})
      BY <2>2, <3>2, <3>3
    <3> QED
      BY <1>0, <2>1, <2>2, <3>1, <3>4, <3>5, <3>6 DEF MovedInv
  <2>3. CASE /\ run' = FailedRow(run, TRUE)
             /\ cut' = cut \cup {BlobOf[r]}
             /\ UNCHANGED dst
    <3>1. run'.pc = "next" /\ run'.cur = {} /\ run'.failed # 0
      BY <1>0, <2>3, FailedTyped, FailedFields
    <3> QED
      BY <2>1, <2>3, <3>1 DEF MovedInv, InPut
  <2> QED
    BY <1>4, <2>2, <2>3 DEF FinishPut
<1>5. ASSUME NEW r \in ResultRow, DeleteSource(r) PROVE MovedInv'
  <2>1. /\ run.pc = "delete" /\ run.cur = {r} /\ dst[BlobOf[r]] = "full"
        /\ run' = NextRow(run) /\ UNCHANGED <<dst, at, cut>>
    BY <1>0, <1>5 DEF DeleteSource, SourceInv
  <2>2. NextRow(run).pc = "next" /\ NextRow(run).cur = {} /\ NextRow(run).rows = run.rows
        /\ NextRow(run).todo = run.todo /\ NextRow(run).failed = run.failed
    BY <1>0, NextTyped, FailedFields
  <2> QED
    BY <2>1, <2>2 DEF MovedInv, Handled, InPut
<1>6. ASSUME NEW r \in ResultRow, UpdateRow(r) PROVE MovedInv'
  <2>1. /\ run.pc = "update" /\ r \in run.todo /\ UNCHANGED <<dst, cut>>
        /\ \A q \in ResultRow : at'[q] = at[q] \/ q = r
        /\ run'.pc = "update" /\ run'.rows = run.rows /\ run'.todo \subseteq run.todo
    BY <1>0, <1>6 DEF UpdateRow, RunState
  <2> QED
    BY <2>1 DEF MovedInv, InPut
<1>7. ASSUME FinishCopying PROVE MovedInv'
  <2> DEFINE upd == [run EXCEPT !.pc = "update", !.todo = run.rows]
  <2>1. upd.pc = "update" /\ upd.rows = run.rows /\ upd.todo = run.rows
    BY <1>0 DEF RunState
  <2>2. /\ run.pc = "next" /\ run.todo = {} /\ UNCHANGED <<dst, at, cut>>
        /\ (run' = upd /\ run.failed = 0) \/ run' = NoRun
    BY <1>7 DEF FinishCopying
  <2> HIDE DEF upd
  <2> QED
    BY <2>1, <2>2, NoRunTyped DEF MovedInv, Handled, InPut
<1>8. ASSUME EndRun PROVE MovedInv'
  BY <1>8, NoRunTyped DEF EndRun, MovedInv, InPut
<1>9. ASSUME Killed PROVE MovedInv'
  BY <1>9, NoRunTyped DEF Killed, MovedInv, InPut
<1>10. CASE UNCHANGED vars
  BY <1>10 DEF vars, MovedInv, Handled, InPut
<1> QED
  BY <1>1, <1>2, <1>3, <1>4, <1>5, <1>6, <1>7, <1>8, <1>9, <1>10 DEF Next

(* The types of the stores, the rows and the process.                        *)
THEOREM MigrationTyped == Spec => []MigrationTypeOK
<1>1. MigInv => MigrationTypeOK
  BY DEF MigInv
<1> QED
  BY <1>1, MigInit, MigStep, PTL DEF Spec

(* A row that points at the destination finds its blob there, but for a cut
   attempt or one under way (migrate.go:40-51, main.go:338-352). *)
THEOREM MovedReadable == Spec => []MovedRowsReadable
<1>1. Init => MovedInv
  BY MigrationAssumption, NoRunTyped DEF Init, MovedInv, InPut
<1>2. MigInv /\ MovedInv => MovedRowsReadable
  <2> SUFFICES ASSUME MigInv, MovedInv, NEW r \in ResultRow, at[r] = "dst",
                      BlobOf[r] \notin cut \cup InPut
               PROVE  dst[BlobOf[r]] = "full"
    BY DEF MovedRowsReadable
  <2>1. BlobOf[r] \in Blob /\ dst[BlobOf[r]] \in Content
    BY MigrationAssumption DEF MigInv, MigrationTypeOK
  <2> QED
    BY <2>1 DEF MovedInv, Content
<1> QED
  BY <1>1, <1>2, MigInit, MigStep, MovedStep, PTL DEF Spec

-----------------------------------------------------------------------------
(* A run with --skip-existing in which no call failed: whatever it copies is
   still at the source, no row counts as failed, and a row it is through with
   when it updates them points at the destination. *)
CleanInv ==
  run.skip /\ ~run.bad =>
    /\ run.failed = 0
    /\ run.pc = "copy" => \A r \in run.cur : src[BlobOf[r]] = "full"
    /\ run.pc = "update" => \A r \in run.rows \ run.todo : at[r] = "dst"

LEMMA NextFields ==
  ASSUME NEW p \in RunState
  PROVE  /\ NextRow(p).pc = "next" /\ NextRow(p).failed = p.failed
         /\ NextRow(p).skip = p.skip /\ NextRow(p).bad = p.bad
  BY DEF NextRow, RunState

LEMMA FailedIsBad ==
  ASSUME NEW p \in RunState
  PROVE  FailedRow(p, TRUE).bad = TRUE
<1> DEFINE n == NextRow(p)
<1>1. n \in RunState
  BY NextTyped
<1> HIDE DEF n
<1>2. FailedRow(p, TRUE) = [n EXCEPT !.failed = n.failed + 1, !.bad = n.bad \/ TRUE]
  BY DEF FailedRow, n
<1> QED
  BY <1>1, <1>2 DEF RunState

LEMMA CleanStep == MigInv /\ CleanInv /\ [Next]_vars => CleanInv'
<1> SUFFICES ASSUME MigInv, CleanInv, [Next]_vars PROVE CleanInv'
  OBVIOUS
<1>0. /\ run \in RunState /\ dst \in [Blob -> Content] /\ src \in [Blob -> Content]
      /\ at \in [ResultRow -> {"src", "dst"}] /\ SourceInv
      /\ \A r \in ResultRow : BlobOf[r] \in Blob
  BY MigrationAssumption DEF MigInv, MigrationTypeOK
<1>1. ASSUME NEW skip \in BOOLEAN, NEW del \in BOOLEAN, StartRun(skip, del)
      PROVE  CleanInv'
  BY <1>1 DEF StartRun, NoRun, CleanInv
<1>2. ASSUME NEW r \in ResultRow, TakeRow(r) PROVE CleanInv'
  <2> DEFINE rest == [run EXCEPT !.todo = @ \ {r}, !.cur = {r}]
             copy == [rest EXCEPT !.pc = "copy"]
             worse == [rest EXCEPT !.pc = "copy", !.bad = TRUE]
  <2>1. /\ rest \in RunState /\ rest.failed = run.failed
        /\ rest.skip = run.skip /\ rest.bad = run.bad
    BY <1>0 DEF RunState
  <2>2. /\ copy.pc = "copy" /\ copy.cur = {r} /\ copy.failed = run.failed
        /\ copy.skip = run.skip /\ copy.bad = run.bad
        /\ worse.bad = TRUE
    BY <1>0 DEF RunState
  <2>3. /\ \/ run.skip /\ dst[BlobOf[r]] # "none" /\ run' = NextRow(rest)
           \/ ~(run.skip /\ dst[BlobOf[r]] # "none") /\ run' = copy
           \/ run' = worse
        /\ UNCHANGED <<src, at>>
    BY <1>2 DEF TakeRow
  <2> HIDE DEF rest, copy, worse
  <2>4. CASE run' = NextRow(rest)
    BY <2>1, <2>3, <2>4, NextFields DEF CleanInv
  <2>5. CASE run' = worse
    BY <2>2, <2>5 DEF CleanInv
  <2>6. CASE ~(run.skip /\ dst[BlobOf[r]] # "none") /\ run' = copy
    <3>1. run.skip => src[BlobOf[r]] = "full"
      BY <1>0, <2>6 DEF SourceInv
    <3> QED
      BY <2>2, <2>3, <2>6, <3>1 DEF CleanInv
  <2> QED
    BY <2>3, <2>4, <2>5, <2>6
<1>3. ASSUME NEW r \in ResultRow, CopyRow(r) PROVE CleanInv'
  <2>1. run.pc = "copy" /\ r \in run.cur /\ OpenBlob(BlobOf[r]) /\ UNCHANGED <<src, at>>
    BY <1>3 DEF CopyRow
  <2>2. \/ run' = [run EXCEPT !.pc = "put"]
        \/ src[BlobOf[r]] = "none" /\ run' = FailedRow(run, FALSE)
        \/ run' = FailedRow(run, TRUE)
    BY <2>1 DEF OpenBlob
  <2>3. CASE run' = [run EXCEPT !.pc = "put"]
    BY <1>0, <2>3 DEF CleanInv, RunState
  <2>4. CASE run' = FailedRow(run, TRUE)
    BY <1>0, <2>4, FailedIsBad DEF CleanInv
  <2>5. CASE src[BlobOf[r]] = "none" /\ run' = FailedRow(run, FALSE)
    <3>1. ~(run.skip /\ ~run.bad)
      BY <2>1, <2>5 DEF CleanInv
    <3>2. run'.skip = run.skip /\ (run.bad => run'.bad)
      BY <1>0, <2>5 DEF FailedRow, NextRow, RunState
    <3> QED
      BY <3>1, <3>2 DEF CleanInv
  <2> QED
    BY <2>2, <2>3, <2>4, <2>5
<1>4. ASSUME NEW r \in ResultRow, FinishPut(r) PROVE CleanInv'
  <2>1. /\ \/ run' = [run EXCEPT !.pc = "delete"]
           \/ run' = NextRow(run)
           \/ run' = FailedRow(run, TRUE)
        /\ UNCHANGED at
    BY <1>4 DEF FinishPut
  <2>2. CASE run' = [run EXCEPT !.pc = "delete"]
    BY <1>0, <2>2 DEF CleanInv, RunState
  <2>3. CASE run' = NextRow(run)
    BY <1>0, <2>3, NextFields DEF CleanInv
  <2>4. CASE run' = FailedRow(run, TRUE)
    BY <1>0, <2>4, FailedIsBad DEF CleanInv
  <2> QED
    BY <2>1, <2>2, <2>3, <2>4
<1>5. ASSUME NEW r \in ResultRow, DeleteSource(r) PROVE CleanInv'
  <2>1. run' = NextRow(run)
    BY <1>5 DEF DeleteSource
  <2> QED
    BY <1>0, <2>1, NextFields DEF CleanInv
<1>6. CASE FinishCopying
  <2> DEFINE new == [run EXCEPT !.pc = "update", !.todo = run.rows]
  <2>1. /\ new.pc = "update" /\ new.todo = run.rows /\ new.rows = run.rows
        /\ new.skip = run.skip /\ new.bad = run.bad /\ new.failed = run.failed
        /\ NoRun.skip = FALSE
    BY <1>0 DEF RunState, NoRun
  <2>2. run' = new \/ run' = NoRun
    BY <1>6 DEF FinishCopying
  <2> HIDE DEF new
  <2> QED
    BY <2>1, <2>2 DEF CleanInv
<1>7. ASSUME NEW r \in ResultRow, UpdateRow(r) PROVE CleanInv'
  <2> DEFINE ahead == [run EXCEPT !.todo = @ \ {r}]
             worse == [run EXCEPT !.todo = @ \ {r}, !.bad = TRUE]
  <2>1. /\ ahead.pc = run.pc /\ ahead.rows = run.rows /\ ahead.todo = run.todo \ {r}
        /\ ahead.skip = run.skip /\ ahead.bad = run.bad /\ ahead.failed = run.failed
        /\ worse.bad = TRUE
    BY <1>0 DEF RunState
  <2>2. /\ run.pc = "update"
        /\ \/ at' = [at EXCEPT ![r] = "dst"] /\ run' = ahead
           \/ run' = worse
    BY <1>7 DEF UpdateRow
  <2> HIDE DEF ahead, worse
  <2>3. run.rows \subseteq ResultRow
    BY <1>0 DEF RunState
  <2> QED
    BY <1>0, <2>1, <2>2, <2>3 DEF CleanInv
<1>8. CASE EndRun \/ Killed
  BY <1>8 DEF EndRun, Killed, NoRun, CleanInv
<1>9. CASE UNCHANGED vars
  BY <1>9 DEF vars, CleanInv
<1> QED
  BY <1>1, <1>2, <1>3, <1>4, <1>5, <1>6, <1>7, <1>8, <1>9 DEF Next

(* A repetition with --skip-existing in which nothing fails leaves none of its
   rows at the source, whatever earlier runs copied, deleted or left undone. *)
THEOREM RepeatCompletes == Spec => SkippingRunCompletes
<1> DEFINE Done == run.pc # "idle" /\ run'.pc = "idle" /\ run.skip /\ ~run.bad
                   /\ faults' = faults => \A r \in run.rows : at'[r] = "dst"
<1>1. Init => CleanInv
  BY DEF Init, NoRun, CleanInv
<1>2. MigInv /\ CleanInv /\ [Next]_vars => [Done]_vars
  <2> SUFFICES ASSUME MigInv, CleanInv, [Next]_vars,
                      run.pc # "idle", run'.pc = "idle", run.skip, ~run.bad,
                      faults' = faults
               PROVE  \A r \in run.rows : at'[r] = "dst"
    OBVIOUS
  <2>0. run \in RunState /\ faults \in Nat
    BY MigrationAssumption DEF MigInv, MigrationTypeOK
  <2>1. ~Killed
    BY <2>0 DEF Killed, Fault
  <2>2. ~FinishCopying
    <3>1. run.failed = 0
      BY DEF CleanInv
    <3>2. [run EXCEPT !.pc = "update", !.todo = run.rows].pc = "update"
      BY <2>0 DEF RunState
    <3> QED
      BY <3>1, <3>2 DEF FinishCopying
  <2>3. ASSUME NEW skip \in BOOLEAN, NEW del \in BOOLEAN PROVE ~StartRun(skip, del)
    BY DEF StartRun
  <2>4. ASSUME NEW r \in ResultRow PROVE ~TakeRow(r)
    <3>1. [run EXCEPT !.todo = @ \ {r}, !.cur = {r}] \in RunState
      BY <2>0 DEF RunState
    <3> QED
      BY <3>1, NextFields DEF TakeRow, RunState
  <2>5. ASSUME NEW r \in ResultRow PROVE ~CopyRow(r)
    BY <2>0, FailedTyped DEF CopyRow, OpenBlob, RunState
  <2>6. ASSUME NEW r \in ResultRow PROVE ~FinishPut(r) /\ ~DeleteSource(r)
    BY <2>0, FailedTyped, NextFields DEF FinishPut, DeleteSource, RunState
  <2>7. ASSUME NEW r \in ResultRow PROVE ~UpdateRow(r)
    BY <2>0 DEF UpdateRow, RunState
  <2>8. ~UNCHANGED vars
    BY DEF vars
  <2>9. EndRun
    BY <2>1, <2>2, <2>3, <2>4, <2>5, <2>6, <2>7, <2>8 DEF Next
  <2> QED
    BY <2>9 DEF EndRun, CleanInv
<1>3. Spec => [][Done]_vars
  BY <1>1, <1>2, MigInit, MigStep, CleanStep, PTL DEF Spec
<1> QED
  BY <1>3 DEF SkippingRunCompletes
=============================================================================
