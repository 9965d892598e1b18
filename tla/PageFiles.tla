------------------------------ MODULE PageFiles -----------------------------
(***************************************************************************)
(* The files a worker saves (Runner.crawl, FileStore.Write).  The path of  *)
(* a file is made of its URL and its extension, so every fetch of one      *)
(* URL writes the same file: a task that was reclaimed and given to a      *)
(* second worker with the same directory, or a URL in the queues of two    *)
(* domains.  The row that a fetch leaves keeps path, size and hash.        *)
(*                                                                         *)
(* A file is a row of Limit chunks, the largest size that is saved; a      *)
(* chunk is the body it is of, for its place says which part of it.        *)
(***************************************************************************)
EXTENDS Naturals, FiniteSets

CONSTANTS
  Fetch,     \* fetches that answer 200
  Path,      \* URL and extension
  Html,      \* those of pages: read as a whole, then written
  Body,      \* what a server answers
  Size,      \* chunks of a body, before it is cut at Limit
  Limit,     \* maxBytes
  Hole, End, \* a chunk never written, no chunk
  MaxFaults  \* bound: errors and killed workers

ASSUME FilesAssumption ==
  /\ Html \subseteq Path /\ Size \in [Body -> Nat] /\ Limit \in Nat
  /\ Hole \notin Body /\ End \notin Body /\ Hole # End /\ MaxFaults \in Nat

VARIABLES
  file,   \* file[p]: its chunks
  fetch,  \* fetch[f]: a goroutine in crawl
  opened, \* history: fetches that created the file
  alone,  \* history: no other fetch had their file open or created it since
  faults
vars == <<file, fetch, opened, alone, faults>>

Place == 1..Limit
Chunks == [Place -> Body \cup {Hole, End}]
Empty == [i \in Place |-> End]

(* io.LimitReader: what is more than Limit is cut, no error.                *)
MutSaved_OneMore(b) == IF Size[b] > Limit THEN Limit + 1 ELSE Size[b]
Saved(b) == IF Size[b] > Limit THEN Limit ELSE Size[b]

(* What the hash and the size of a row stand for.                           *)
Whole(b) == [i \in Place |-> IF i <= Saved(b) THEN b ELSE End]

(* A write at place i; the place before it may be past the end.             *)
MutPut_Appends(c, i, b) ==
  LET n == Cardinality({j \in Place : c[j] # End})
  IN  [j \in Place |-> IF j = n + 1 THEN b ELSE c[j]]
Put(c, i, b) ==
  [j \in Place |-> IF j = i THEN b ELSE IF j < i /\ c[j] = End THEN Hole ELSE c[j]]

(* pos: chunks written.                                                     *)
FetchState == [pc : {"idle", "open", "write", "saved", "unsaved", "failed"},
               path : Path, body : Body, pos : 0..Limit]

FilesTypeOK ==
  /\ file \in [Path -> Chunks]
  /\ fetch \in [Fetch -> FetchState]
  /\ opened \subseteq Fetch /\ alone \subseteq opened
  /\ faults \in 0..MaxFaults

Init ==
  /\ file = [p \in Path |-> Empty]
  /\ fetch \in [Fetch -> {[pc |-> "idle", path |-> p, body |-> b, pos |-> 0] :
                           p \in Path, b \in Body}]
  /\ opened = {} /\ alone = {}
  /\ faults = 0

Fault == faults < MaxFaults /\ faults' = faults + 1
Writes(f, p) == fetch[f].pc = "write" /\ fetch[f].path = p

-----------------------------------------------------------------------------
(* The response is there; the body of a page is read before it is saved.    *)
Respond(f) ==
  /\ fetch[f].pc = "idle"
  /\ fetch' = [fetch EXCEPT ![f].pc = "open"]
  /\ UNCHANGED <<file, opened, alone, faults>>

(* os.Create truncates the file, whoever else has it open.                  *)
MutCreated_Kept(p) == file[p]
Created(p) == Empty

Open(f) ==
  LET p == fetch[f].path IN
  /\ fetch[f].pc = "open"
  /\ file' = [file EXCEPT ![p] = Created(p)]
  /\ fetch' = [fetch EXCEPT ![f].pc = "write"]
  /\ opened' = opened \cup {f}
  /\ alone' = {g \in alone : fetch[g].path # p} \cup
              {g \in {f} : \A h \in Fetch : ~Writes(h, p)}
  /\ UNCHANGED faults

(* io.Copy: a page in one write, anything else chunk by chunk.              *)
Write(f) ==
  LET p == fetch[f].path
      b == fetch[f].body
      n == fetch[f].pos + 1
  IN
  /\ fetch[f].pc = "write" /\ fetch[f].pos < Saved(b)
  /\ IF p \in Html
     THEN /\ file' = [file EXCEPT ![p] =
                        [i \in Place |-> IF i <= Saved(b) THEN b ELSE file[p][i]]]
          /\ fetch' = [fetch EXCEPT ![f].pos = Saved(b)]
     ELSE /\ file' = [file EXCEPT ![p] = Put(file[p], n, b)]
          /\ fetch' = [fetch EXCEPT ![f].pos = n]
  /\ UNCHANGED <<opened, alone, faults>>

(* FilePath, FileSize and FileHash go into the result.                      *)
Finish(f) ==
  /\ fetch[f].pc = "write" /\ fetch[f].pos = Saved(fetch[f].body)
  /\ fetch' = [fetch EXCEPT ![f].pc = "saved"]
  /\ UNCHANGED <<file, opened, alone, faults>>

(* The file cannot be created, a read or a write fails, the worker is killed:
   the chunks written stay.  A page is a good result all the same, without a
   file; anything else is an error. *)
SaveFails(f) ==
  /\ fetch[f].pc \in {"open", "write"} /\ Fault
  /\ \E pc \in {"failed"} \cup {r \in {"unsaved"} : fetch[f].path \in Html} :
       fetch' = [fetch EXCEPT ![f].pc = pc]
  /\ UNCHANGED <<file, opened, alone>>

Next == \E f \in Fetch : Respond(f) \/ Open(f) \/ Write(f) \/ Finish(f) \/ SaveFails(f)

Spec == Init /\ [][Next]_vars

-----------------------------------------------------------------------------
(* "FileHash: MD5 hex of file content" (domain/crawler/entities.go:51): the file
   of a saved result is complete and of its body as long as no other fetch of
   the URL had it open meanwhile or has created it since, however many shorter,
   longer or broken versions were there before (filestore.go:25-55). *)
SavedFileWhole ==
  \A f \in alone : fetch[f].pc = "saved" =>
    file[fetch[f].path] = Whole(fetch[f].body)

(* A page that did not change may be fetched by any number of workers at a time,
   their writes in any order: once none of them is writing and none of them broke
   off, the file is complete for the rows of all of them. *)
SameBodyAgrees ==
  \A p \in Path : LET all == {f \in opened : fetch[f].path = p} IN
    /\ \A f \in all : fetch[f].pc = "saved"
    /\ \A f, g \in all : fetch[f].body = fetch[g].body
    => \A f \in all : file[p] = Whole(fetch[f].body)
=============================================================================
