--------------------------- MODULE BlobMigration ----------------------------
(***************************************************************************)
(* "crawlerv2 migrate" (migrateCmd in cmd/app/main.go and MigrateStore in  *)
(* infrastructure/storage/migrate.go): blobs are copied from one store to  *)
(* another one by one, and the rows of crawl_results that name the source  *)
(* are pointed at the destination at the end.  The command may fail on any *)
(* blob, be killed, and be run again with other flags.  --dry-run changes  *)
(* nothing and is left out.  Only rows whose worker sent a store_id name a *)
(* store: Init has those.                                                  *)
(*                                                                         *)
(* The content of a blob is abstracted to how much of it a store has.      *)
(***************************************************************************)
EXTENDS Integers, FiniteSets

CONSTANTS
  Blob,       \* object keys
  ResultRow,  \* rows of crawl_results with a file_path
  BlobOf,     \* BlobOf[r]: the file_path of row r; several rows may share it
  MaxRuns,    \* bound: invocations of the command
  MaxFaults   \* bound: failed I/O calls and killed processes

ASSUME MigrationAssumption ==
  /\ BlobOf \in [ResultRow -> Blob]
  /\ MaxRuns \in Nat /\ MaxFaults \in Nat

VARIABLES
  src, dst,   \* what the stores have of each blob
  at,         \* at[r]: column store_id
  run,        \* the process, if there is one
  cut,        \* history: blobs a failed or killed Put left unfinished
  runs, faults

vars == <<src, dst, at, run, cut, runs, faults>>

Content == {"none", "part", "full"}

(* rows: FindByStore; todo: rows MigrateStore has still to look at; cur: the
   one in hand; bad: some call of this run has failed. *)
RunState == [pc : {"idle", "next", "copy", "put", "delete", "update"},
             rows : SUBSET ResultRow, todo : SUBSET ResultRow,
             cur : SUBSET ResultRow, failed : Nat,
             skip : BOOLEAN, del : BOOLEAN, bad : BOOLEAN]

NoRun == [pc |-> "idle", rows |-> {}, todo |-> {}, cur |-> {}, failed |-> 0,
          skip |-> FALSE, del |-> FALSE, bad |-> FALSE]

MigrationTypeOK ==
  /\ src \in [Blob -> Content] /\ dst \in [Blob -> Content]
  /\ at \in [ResultRow -> {"src", "dst"}]
  /\ run \in RunState
  /\ cut \subseteq Blob
  /\ runs \in 0..MaxRuns /\ faults \in 0..MaxFaults

Init ==
  /\ src = [k \in Blob |-> "full"] /\ dst = [k \in Blob |-> "none"]
  /\ at = [r \in ResultRow |-> "src"]
  /\ run = NoRun /\ cut = {}
  /\ runs = 0 /\ faults = 0

Fault == faults < MaxFaults /\ faults' = faults + 1
NoFault == UNCHANGED faults

(* Done with the row in hand; "put: " and "get: " errors count as failed.   *)
NextRow(p) == [p EXCEPT !.pc = "next", !.cur = {}]
MutFailedRow_CountsDown(p, bad) == [NextRow(p) EXCEPT !.failed = @ - 1, !.bad = @ \/ bad]
MutFailedRow_Uncounted(p, bad) == [NextRow(p) EXCEPT !.bad = @ \/ bad]
FailedRow(p, bad) == [NextRow(p) EXCEPT !.failed = @ + 1, !.bad = @ \/ bad]

-----------------------------------------------------------------------------
StartRun(skip, del) ==
  /\ run.pc = "idle" /\ runs < MaxRuns
  /\ LET found == {r \in ResultRow : at[r] = "src"} IN
     /\ found # {}
     /\ run' = [NoRun EXCEPT !.pc = "next", !.rows = found, !.todo = found,
                             !.skip = skip, !.del = del]
  /\ runs' = runs + 1
  /\ UNCHANGED <<src, dst, at, cut, faults>>

(* The next key; with SkipExisting dst.Exists says whether it is there, and
   an error of Exists lets the copy go on. *)
MutTakeRow_SkipFails(r) ==
  /\ run.pc = "next" /\ r \in run.todo
  /\ LET rest == [run EXCEPT !.todo = @ \ {r}, !.cur = {r}] IN
       run' = IF run.skip /\ dst[BlobOf[r]] # "none"
              THEN [NextRow(rest) EXCEPT !.failed = @ + 1]
              ELSE [rest EXCEPT !.pc = "copy"]
  /\ NoFault /\ UNCHANGED <<src, dst, at, cut, runs>>

TakeRow(r) ==
  /\ run.pc = "next" /\ r \in run.todo
  /\ LET rest == [run EXCEPT !.todo = @ \ {r}, !.cur = {r}] IN
     \/ /\ run' = IF run.skip /\ dst[BlobOf[r]] # "none"
                  THEN NextRow(rest) ELSE [rest EXCEPT !.pc = "copy"]
        /\ NoFault
     \/ /\ run.skip /\ Fault
        /\ run' = [rest EXCEPT !.pc = "copy", !.bad = TRUE]
  /\ UNCHANGED <<src, dst, at, cut, runs>>

(* src.Get and the start of Put, either of which may fail.  A local store's
   os.Create truncates the file, S3 keeps the object until the upload ends. *)
MutOpenBlob_CreatesFirst(k) ==
  /\ dst' = [dst EXCEPT ![k] = "part"]
  /\ run' = IF src[k] # "none" THEN [run EXCEPT !.pc = "put"] ELSE FailedRow(run, FALSE)
  /\ NoFault /\ UNCHANGED cut

OpenBlob(k) ==
  \/ /\ src[k] # "none"
     /\ dst' \in {dst, [dst EXCEPT ![k] = "part"]}
     /\ run' = [run EXCEPT !.pc = "put"]
     /\ NoFault /\ UNCHANGED cut
  \/ /\ \/ src[k] = "none" /\ NoFault /\ run' = FailedRow(run, FALSE)
        \/ Fault /\ run' = FailedRow(run, TRUE)
     /\ UNCHANGED <<dst, cut>>

CopyRow(r) ==
  /\ run.pc = "copy" /\ r \in run.cur
  /\ OpenBlob(BlobOf[r])
  /\ UNCHANGED <<src, at, runs>>

(* The rest of Put, io.Copy.                                                *)
FinishPut(r) ==
  /\ run.pc = "put" /\ r \in run.cur
  /\ \/ /\ dst' = [dst EXCEPT ![BlobOf[r]] = src[BlobOf[r]]]
        /\ cut' = cut \ {BlobOf[r]}
        /\ run' = IF run.del THEN [run EXCEPT !.pc = "delete"] ELSE NextRow(run)
        /\ NoFault
     \/ /\ Fault
        /\ run' = FailedRow(run, TRUE)
        /\ cut' = cut \cup {BlobOf[r]}
        /\ UNCHANGED dst
  /\ UNCHANGED <<src, at, runs>>

(* src.Delete; an error is logged only.                                     *)
DeleteSource(r) ==
  /\ run.pc = "delete" /\ r \in run.cur
  /\ \/ src' = [src EXCEPT ![BlobOf[r]] = "none"] /\ NoFault
     \/ Fault /\ UNCHANGED src
  /\ run' = NextRow(run)
  /\ UNCHANGED <<dst, at, cut, runs>>

(* migrateCmd after MigrateStore: the rows are updated if nothing failed.   *)
FinishCopying ==
  /\ run.pc = "next" /\ run.todo = {}
  /\ run' = IF run.failed = 0 THEN [run EXCEPT !.pc = "update", !.todo = run.rows]
            ELSE NoRun
  /\ UNCHANGED <<src, dst, at, cut, runs, faults>>

UpdateRow(r) ==
  /\ run.pc = "update" /\ r \in run.todo
  /\ \/ /\ at' = [at EXCEPT ![r] = "dst"] /\ NoFault
        /\ run' = [run EXCEPT !.todo = @ \ {r}]
     \/ /\ Fault /\ UNCHANGED at
        /\ run' = [run EXCEPT !.todo = @ \ {r}, !.bad = TRUE]
  /\ UNCHANGED <<src, dst, cut, runs>>

EndRun ==
  /\ run.pc = "update" /\ run.todo = {}
  /\ run' = NoRun
  /\ UNCHANGED <<src, dst, at, cut, runs, faults>>

(* The blob being written. *)
InPut == IF run.pc = "put" THEN {BlobOf[r] : r \in run.cur} ELSE {}

(* The process dies.                                                        *)
Killed ==
  /\ run.pc # "idle" /\ Fault
  /\ run' = NoRun
  /\ cut' = cut \cup InPut
  /\ UNCHANGED <<src, dst, at, runs>>

Next ==
  \/ \E skip, del \in BOOLEAN : StartRun(skip, del)
  \/ \E r \in ResultRow : \/ TakeRow(r) \/ CopyRow(r) \/ FinishPut(r)
                          \/ DeleteSource(r) \/ UpdateRow(r)
  \/ FinishCopying \/ EndRun \/ Killed

Spec == Init /\ [][Next]_vars

-----------------------------------------------------------------------------
(* No blob is lost: whatever fails, whenever the command is killed and however
   it is run again, with or without --delete-after, one of the stores has all
   of every blob (migrate.go:59-88). *)
BlobSafe == \A k \in Blob : src[k] = "full" \/ dst[k] = "full"

(* A row that points at the destination finds its blob there, complete, unless
   it is being copied again for another row, or an earlier attempt left it
   unfinished: then a later run takes what is there for the blob
   (migrate.go:40-51, main.go:338-352). *)
MovedRowsReadable ==
  \A r \in ResultRow :
    at[r] = "dst" /\ BlobOf[r] \notin cut \cup InPut => dst[BlobOf[r]] = "full"

(* Running the command again with --skip-existing finishes the job: when a run
   in which nothing failed ends, no row of it is left at the source, whatever
   earlier runs copied, deleted or left undone. *)
SkippingRunCompletes ==
  [][run.pc # "idle" /\ run'.pc = "idle" /\ run.skip /\ ~run.bad /\ faults' = faults =>
       \A r \in run.rows : at'[r] = "dst"]_vars
=============================================================================
