----------------------------- MODULE TokenAuth ------------------------------
(***************************************************************************)
(* Bearer tokens: the table tokens, BearerAuthMiddleware, the token        *)
(* handlers, "crawlerv2 token create / revoke" and the bootstrap of        *)
(* "crawlerv2 server".  Several processes share the database file; each    *)
(* statement is atomic, and a request's check and its handler are          *)
(* different statements.                                                   *)
(*                                                                         *)
(* A plaintext is 32 random bytes: it is named by the id of the row that   *)
(* has its hash, 0 is any text without a row.  What matters is who may     *)
(* know a plaintext, for the server keeps no copy.                         *)
(***************************************************************************)
EXTENDS Naturals, FiniteSets

CONSTANTS
  Client,     \* API clients: one request each at a time
  Server,     \* processes that run "crawlerv2 server" on one database
  MaxTokens,  \* bound: rows of the table
  MaxStarts,  \* bound: starts of servers
  MaxFaults   \* bound: failed statements, killed processes

ASSUME AuthAssumption ==
  /\ IsFiniteSet(Server) /\ IsFiniteSet(Client)
  /\ MaxTokens \in Nat /\ MaxStarts \in Nat /\ MaxFaults \in Nat

VARIABLES
  tokens,  \* table tokens: tokens[id]
  known,   \* plaintexts somebody has: printed, or answered to a client
  booted,  \* history: number of tokens made by a bootstrap
  srv,     \* srv[p]: a server process
  req,     \* req[c]: the request of client c
  starts, faults

authVars == <<tokens, known, booted, srv, req, starts, faults>>

TokenId == 1..MaxTokens
Text == 0..MaxTokens

(* tok: the text of the header; stale: history, it was the token of a row
   already revoked; made: the plaintext in the answer. *)
RequestState == [pc : {"idle", "arrived", "admitted", "answered"},
                 tok : Text, stale : BOOLEAN, made : Text]
NoRequest == [pc |-> "idle", tok |-> 0, stale |-> FALSE, made |-> 0]

AuthTypeOK ==
  /\ tokens \in [TokenId -> {"none", "valid", "revoked"}]
  /\ known \subseteq TokenId /\ booted \in Nat
  /\ srv \in [Server -> {"down", "list", "create", "up"}]
  /\ req \in [Client -> RequestState]
  /\ starts \in 0..MaxStarts /\ faults \in 0..MaxFaults

AuthInit ==
  /\ tokens = [t \in TokenId |-> "none"]
  /\ known = {} /\ booted = 0
  /\ srv = [p \in Server |-> "down"]
  /\ req = [c \in Client |-> NoRequest]
  /\ starts = 0 /\ faults = 0

Fault == faults < MaxFaults /\ faults' = faults + 1

(* len(existing): FindAll lists the revoked rows too.                       *)
MutRows_Valid == {t \in TokenId : tokens[t] = "valid"}
Rows == {t \in TokenId : tokens[t] # "none"}

(* ManageTokenUseCase.Create: Save inserts the row with the next id.        *)
Insert(t) ==
  /\ tokens[t] = "none" /\ \A u \in TokenId : u < t => tokens[u] # "none"
  /\ tokens' = [tokens EXCEPT ![t] = "valid"]

(* Revoke: UPDATE ... WHERE id = ?; no row, no error.                       *)
Revoked(t) ==
  [u \in TokenId |-> IF u = t /\ tokens[u] # "none" THEN "revoked" ELSE tokens[u]]

-----------------------------------------------------------------------------
(* "crawlerv2 server", with or without --bootstrap-token.                   *)
StartServer(p, bootstrap) ==
  /\ srv[p] = "down" /\ starts < MaxStarts
  /\ srv' = [srv EXCEPT ![p] = IF bootstrap THEN "list" ELSE "up"]
  /\ starts' = starts + 1
  /\ UNCHANGED <<tokens, known, booted, req, faults>>

(* existing, _ := FindAll: a failed list reads as an empty table.           *)
BootList(p) ==
  /\ srv[p] = "list"
  /\ \/ /\ srv' = [srv EXCEPT ![p] = IF Rows = {} THEN "create" ELSE "up"]
        /\ UNCHANGED faults
     \/ Fault /\ srv' = [srv EXCEPT ![p] = "create"]
  /\ UNCHANGED <<tokens, known, booted, req, starts>>

(* Create, and the plaintext is printed; an error is passed over.           *)
BootCreate(p) ==
  /\ srv[p] = "create"
  /\ \/ \E t \in TokenId :
          /\ Insert(t) /\ booted' = booted + 1
          /\ \/ /\ known' = known \cup {t} /\ UNCHANGED faults
                /\ srv' = [srv EXCEPT ![p] = "up"]
             \/ /\ Fault /\ UNCHANGED known        \* killed before it printed
                /\ srv' = [srv EXCEPT ![p] = "down"]
     \/ /\ Fault /\ srv' = [srv EXCEPT ![p] = "up"]
        /\ UNCHANGED <<tokens, known, booted>>
  /\ UNCHANGED <<req, starts>>

(* A server is stopped or killed.                                           *)
StopServer(p) ==
  /\ srv[p] # "down"
  /\ srv' = [srv EXCEPT ![p] = "down"]
  /\ UNCHANGED <<tokens, known, booted, req, starts, faults>>

-----------------------------------------------------------------------------
(* A request, with any token somebody knows or a text that is none.         *)
Send(c, tok) ==
  /\ req[c].pc = "idle" /\ \E p \in Server : srv[p] = "up"
  /\ tok \in known \cup {0}
  /\ req' = [req EXCEPT ![c] =
       [pc |-> "arrived", tok |-> tok, made |-> 0,
        stale |-> tok # 0 /\ tokens[tok] = "revoked"]]
  /\ UNCHANGED <<tokens, known, booted, srv, starts, faults>>

(* jsonCreated with the plaintext, or another answer.                       *)
MutAnswer_NoToken(c, made) == [req EXCEPT ![c] = [NoRequest EXCEPT !.pc = "answered"]]
Answer(c, made) ==
  [req EXCEPT ![c] = [pc |-> "answered", tok |-> 0, stale |-> FALSE, made |-> made]]

(* The rows that are not revoked are compared with the text.                *)
MutMatches_Revoked(tok) == tok # 0 /\ tokens[tok] # "none"
Matches(tok) == tok # 0 /\ tokens[tok] = "valid"

(* BearerAuthMiddleware: the rows are listed, those revoked are passed over,
   and the token is compared with the rest; 401 or 500, or the handler is next. *)
Check(c) ==
  /\ req[c].pc = "arrived"
  /\ \/ /\ req' = IF Matches(req[c].tok)
                  THEN [req EXCEPT ![c] = [@ EXCEPT !.pc = "admitted", !.tok = 0]]
                  ELSE Answer(c, 0)
        /\ UNCHANGED faults
     \/ Fault /\ req' = Answer(c, 0)
  /\ UNCHANGED <<tokens, known, booted, srv, starts>>

(* The handler: TokenHandlers.Create, Revoke of any id, or one that leaves the
   table alone.  The plaintext is in the answer only. *)
Serve(c) ==
  /\ req[c].pc = "admitted"
  /\ \/ /\ \E t \in TokenId : Insert(t) /\ req' = Answer(c, t)
        /\ UNCHANGED faults
     \/ /\ \E t \in Text : tokens' = Revoked(t)
        /\ req' = Answer(c, 0) /\ UNCHANGED faults
     \/ Fault /\ UNCHANGED tokens /\ req' = Answer(c, 0)
  /\ UNCHANGED <<known, booted, srv, starts>>

(* The answer arrives.                                                      *)
Receive(c) ==
  /\ req[c].pc = "answered"
  /\ known' = known \cup ({req[c].made} \ {0})
  /\ req' = [req EXCEPT ![c] = NoRequest]
  /\ UNCHANGED <<tokens, booted, srv, starts, faults>>

(* A request or its answer is lost, with the connection or the server.      *)
Lose(c) ==
  /\ req[c].pc # "idle" /\ Fault
  /\ req' = [req EXCEPT ![c] = NoRequest]
  /\ UNCHANGED <<tokens, known, booted, srv, starts>>

-----------------------------------------------------------------------------
(* "crawlerv2 token create" and "token revoke", on the database itself.     *)
LocalCreate ==
  /\ \E t \in TokenId :
       /\ Insert(t)
       /\ \/ known' = known \cup {t} /\ UNCHANGED faults
          \/ Fault /\ UNCHANGED known              \* killed before it printed
  /\ UNCHANGED <<booted, srv, req, starts>>

LocalRevoke(t) ==
  /\ tokens' = Revoked(t)
  /\ UNCHANGED <<known, booted, srv, req, starts, faults>>

ServerStep(p) ==
  \/ \E bootstrap \in BOOLEAN : StartServer(p, bootstrap)
  \/ BootList(p) \/ BootCreate(p) \/ StopServer(p)

(* A fault elsewhere on the machine.                                        *)
Mishap == Fault /\ UNCHANGED <<tokens, known, booted, srv, req, starts>>

AuthNext ==
  \/ \E p \in Server : ServerStep(p)
  \/ \E c \in Client :
       \/ \E tok \in Text : Send(c, tok)
       \/ Check(c) \/ Serve(c) \/ Receive(c) \/ Lose(c)
  \/ LocalCreate \/ \E t \in Text : LocalRevoke(t)
  \/ Mishap

AuthSpec == AuthInit /\ [][AuthNext]_authVars

-----------------------------------------------------------------------------
(* Whoever sends a request with a token that is already revoked never gets as
   far as a handler, whichever server process checks it and whatever else goes
   on between the check's list and the revocation (middleware.go:26-45). *)
RevokedRefused == \A c \in Client : req[c].pc = "admitted" => ~req[c].stale

(* Bootstrap is for an empty table.  The test and the insert are two statements
   and an error of the test counts as empty, so there may be more than one such
   token, but at most one for each process that starts on the database and one
   for each fault, however often the servers are restarted and whatever is
   revoked meanwhile (cmd/app/main.go:82-93). *)
BootstrapBounded == booted <= Cardinality(Server) + faults

(* The server keeps no plaintext.  A row whose plaintext nobody has is one that
   a fault cost, or its plaintext is in an answer still under way: each
   fault costs at most one.  (Such a row counts for the bootstrap all the same,
   so after a fault, or after all tokens were revoked, a database may have
   rows and no token that works: cmd/app/main.go:85.) *)
PlaintextsKept ==
  Cardinality(Rows \ known) <= faults + Cardinality({c \in Client : req[c].made # 0})
=============================================================================
