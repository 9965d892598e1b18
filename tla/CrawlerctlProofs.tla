-------------------------- MODULE CrawlerctlProofs --------------------------
(* Tokens and the configuration of crawlerctl, for any clients, servers and
   bounds. *)
EXTENDS Crawlerctl, FiniteSetTheorems, TLAPS

(* What a request knows: a stale text is the one of a revoked row; a plaintext
   under way is of a row, nobody has it yet, and no other answer carries it. *)
RequestInv ==
  /\ known \subseteq Rows
  /\ \A c \in Client :
       /\ req[c].stale => /\ req[c].pc = "arrived" /\ req[c].tok # 0
                          /\ tokens[req[c].tok] = "revoked"
       /\ req[c].made # 0 => /\ req[c].pc = "answered"
                             /\ req[c].made \in Rows \ known
       /\ \A b \in Client : req[b].made = req[c].made => b = c \/ req[c].made = 0
AuthInv == AuthTypeOK /\ RequestInv

LEMMA NoRequestTyped ==
  /\ NoRequest \in RequestState /\ NoRequest.pc = "idle" /\ NoRequest.tok = 0
  /\ NoRequest.stale = FALSE /\ NoRequest.made = 0
  BY AuthAssumption DEF NoRequest, RequestState, Text

(* An answer replaces the request of one client.                            *)
LEMMA AnswerTyped ==
  ASSUME req \in [Client -> RequestState], NEW c \in Client, NEW t \in Text
  PROVE  /\ Answer(c, t) \in [Client -> RequestState]
         /\ \A b \in Client \ {c} : Answer(c, t)[b] = req[b]
         /\ Answer(c, t)[c].pc = "answered" /\ Answer(c, t)[c].made = t
         /\ Answer(c, t)[c].stale = FALSE
<1> DEFINE a == [pc |-> "answered", tok |-> 0, stale |-> FALSE, made |-> t]
<1>1. /\ a \in RequestState /\ a.pc = "answered" /\ a.made = t /\ a.stale = FALSE
  BY AuthAssumption DEF RequestState, Text
<1> HIDE DEF a
<1>2. Answer(c, t) = [req EXCEPT ![c] = a]
  BY DEF Answer, a
<1> QED
  BY <1>1, <1>2

(* A new row has an id that no row, no known plaintext and no answer has.   *)
LEMMA Inserted ==
  ASSUME AuthInv, NEW t \in TokenId, Insert(t)
  PROVE  /\ tokens' \in [TokenId -> {"none", "valid", "revoked"}]
         /\ t \notin Rows /\ t \notin known /\ t # 0 /\ t \in Text
         /\ Rows' = Rows \cup {t}
         /\ \A u \in TokenId : tokens[u] = "revoked" => tokens'[u] = "revoked"
         /\ \A c \in Client : req[c].made # t
  BY AuthAssumption DEF AuthInv, AuthTypeOK, RequestInv, Insert, Rows, TokenId, Text

LEMMA RevokedRows ==
  ASSUME AuthInv, NEW t \in Text, tokens' = Revoked(t)
  PROVE  /\ tokens' \in [TokenId -> {"none", "valid", "revoked"}]
         /\ Rows' = Rows
         /\ \A u \in TokenId : tokens[u] = "revoked" => tokens'[u] = "revoked"
  BY DEF AuthInv, AuthTypeOK, Revoked, Rows

LEMMA FaultTyped ==
  ASSUME AuthTypeOK, Fault \/ UNCHANGED faults
  PROVE  faults' \in 0..MaxFaults /\ faults' \in Nat /\ faults \in Nat /\ faults' >= faults
  BY AuthAssumption DEF AuthTypeOK, Fault

LEMMA AuthInitInv == AuthInit => AuthInv
  BY NoRequestTyped, AuthAssumption
  DEF AuthInit, AuthInv, AuthTypeOK, RequestInv, Rows, TokenId, Text

(* One request changes.                                                     *)
LEMMA OneRequest ==
  ASSUME AuthInv, NEW c \in Client, NEW r \in RequestState,
         req' = [req EXCEPT ![c] = r],
         tokens' \in [TokenId -> {"none", "valid", "revoked"}],
         \A u \in TokenId : tokens[u] = "revoked" => tokens'[u] = "revoked",
         Rows \subseteq Rows', known' \subseteq Rows',
         \A b \in Client \ {c} : req[b].made # 0 => req[b].made \notin known',
         r.stale => r.pc = "arrived" /\ r.tok # 0 /\ tokens'[r.tok] = "revoked",
         r.made # 0 => /\ r.pc = "answered" /\ r.made \in Rows' \ known'
                       /\ \A b \in Client \ {c} : req[b].made # r.made
  PROVE  RequestInv' /\ req' \in [Client -> RequestState]
<1>1. req' \in [Client -> RequestState]
  BY DEF AuthInv, AuthTypeOK
<1>2. ASSUME NEW b \in Client
      PROVE  /\ req'[b].stale => /\ req'[b].pc = "arrived" /\ req'[b].tok # 0
                                 /\ tokens'[req'[b].tok] = "revoked"
             /\ req'[b].made # 0 => /\ req'[b].pc = "answered"
                                    /\ req'[b].made \in Rows' \ known'
  <2>1. CASE b = c
    BY <2>1 DEF AuthInv, AuthTypeOK
  <2>2. CASE b # c
    <3>1. req'[b] = req[b] /\ req[b] \in RequestState
      BY <2>2 DEF AuthInv, AuthTypeOK
    <3>2. req[b].stale => req[b].tok \in TokenId
      BY <3>1 DEF RequestState, AuthInv, RequestInv, Text, TokenId
    <3> QED
      BY <2>2, <3>1, <3>2 DEF AuthInv, RequestInv
  <2> QED
    BY <2>1, <2>2
<1>3. ASSUME NEW a \in Client, NEW b \in Client, req'[b].made = req'[a].made
      PROVE  b = a \/ req'[a].made = 0
  <2>1. CASE a = c /\ b = c
    BY <2>1
  <2>2. CASE a = c /\ b # c
    BY <2>2, <1>3 DEF AuthInv, AuthTypeOK
  <2>3. CASE a # c /\ b = c
    BY <2>3, <1>3 DEF AuthInv, AuthTypeOK
  <2>4. CASE a # c /\ b # c
    BY <2>4, <1>3 DEF AuthInv, AuthTypeOK, RequestInv
  <2> QED
    BY <2>1, <2>2, <2>3, <2>4
<1> QED
  BY <1>1, <1>2, <1>3 DEF RequestInv

(* The requests stay; a step of a server or of the command changes the table
   or what is known. *)
LEMMA NoRequestChanges ==
  ASSUME AuthInv, UNCHANGED req,
         \A u \in TokenId : tokens[u] = "revoked" => tokens'[u] = "revoked",
         Rows \subseteq Rows', known' \subseteq Rows',
         \A b \in Client : req[b].made # 0 => req[b].made \notin known'
  PROVE  RequestInv' /\ req' \in [Client -> RequestState]
<1>1. ASSUME NEW b \in Client, req[b].stale PROVE req[b].tok \in TokenId
  BY <1>1 DEF RequestState, AuthInv, AuthTypeOK, RequestInv, Text, TokenId
<1> QED
  BY <1>1 DEF AuthInv, AuthTypeOK, RequestInv

(* What a step of the tokens leaves behind.                                 *)
LEMMA AuthStep == AuthInv /\ [AuthNext]_authVars => AuthInv'
<1> SUFFICES ASSUME AuthInv, [AuthNext]_authVars PROVE AuthInv'
  OBVIOUS
<1> USE DEF AuthInv
<1>0. /\ AuthTypeOK /\ RequestInv
      /\ \A c \in Client : req[c] \in RequestState
  BY DEF AuthTypeOK
<1>1. ASSUME NEW p \in Server, NEW b \in BOOLEAN, StartServer(p, b) PROVE AuthInv'
  <2>1. RequestInv'
    BY <1>1, NoRequestChanges DEF StartServer, Rows, RequestInv
  <2> QED
    BY <1>1, <2>1, AuthAssumption DEF StartServer, AuthTypeOK
<1>2. ASSUME NEW p \in Server, BootList(p) PROVE AuthInv'
  <2>1. RequestInv'
    BY <1>2, NoRequestChanges DEF BootList, Rows, RequestInv
  <2>2. faults' \in 0..MaxFaults
    BY <1>2, FaultTyped DEF BootList
  <2> QED
    BY <1>2, <2>1, <2>2 DEF BootList, AuthTypeOK
<1>3. ASSUME NEW p \in Server, BootCreate(p) PROVE AuthInv'
  <2>1. faults' \in 0..MaxFaults
    BY <1>3, FaultTyped DEF BootCreate
  <2>2. ASSUME NEW t \in TokenId, Insert(t), booted' = booted + 1,
               known' = known \cup {t} \/ known' = known
        PROVE  AuthInv'
    <3>1. RequestInv'
      <4>1. \A c \in Client : req[c].made # 0 => req[c].made \notin known'
        BY <2>2, Inserted DEF RequestInv
      <4>2. Rows \subseteq Rows' /\ known' \subseteq Rows'
        BY <2>2, Inserted DEF RequestInv
      <4> QED
        BY <1>3, <2>2, <4>1, <4>2, Inserted, NoRequestChanges DEF BootCreate
    <3>2. booted' \in Nat
      BY <2>2 DEF AuthTypeOK
    <3>3. known' \subseteq TokenId
      BY <2>2 DEF AuthTypeOK
    <3> QED
      BY <1>3, <2>1, <2>2, <3>1, <3>2, <3>3, Inserted DEF BootCreate, AuthTypeOK
  <2>3. CASE /\ Fault /\ srv' = [srv EXCEPT ![p] = "up"]
             /\ UNCHANGED <<tokens, known, booted>>
    <3>1. RequestInv'
      BY <1>3, <2>3, NoRequestChanges DEF BootCreate, Rows, RequestInv
    <3> QED
      BY <1>3, <2>1, <2>3, <3>1 DEF BootCreate, AuthTypeOK
  <2> QED
    BY <1>3, <2>2, <2>3 DEF BootCreate
<1>4. ASSUME NEW p \in Server, StopServer(p) PROVE AuthInv'
  <2>1. RequestInv'
    BY <1>4, NoRequestChanges DEF StopServer, Rows, RequestInv
  <2> QED
    BY <1>4, <2>1 DEF StopServer, AuthTypeOK
<1>5. ASSUME NEW c \in Client, NEW tok \in Text, Send(c, tok) PROVE AuthInv'
  <2> DEFINE b == tok # 0 /\ tokens[tok] = "revoked"
             r == [pc |-> "arrived", tok |-> tok, made |-> 0, stale |-> b]
  <2>0. b \in BOOLEAN /\ (b => tok # 0 /\ tokens[tok] = "revoked")
    OBVIOUS
  <2>2. req' = [req EXCEPT ![c] = r]
    BY <1>5 DEF Send
  <2> HIDE DEF b
  <2>1. r \in RequestState /\ r.made = 0 /\ r.pc = "arrived" /\ r.tok = tok
        /\ (r.stale => tok # 0 /\ tokens[tok] = "revoked")
    BY <2>0, AuthAssumption DEF RequestState, Text
  <2> HIDE DEF r
  <2>3. RequestInv' /\ req' \in [Client -> RequestState]
    BY <1>5, <2>1, <2>2, OneRequest DEF Send, Rows, RequestInv, AuthTypeOK
  <2> QED
    BY <1>5, <2>3 DEF Send, AuthTypeOK
<1>6. ASSUME NEW c \in Client, Check(c) PROVE AuthInv'
  <2>1. faults' \in 0..MaxFaults
    BY <1>6, FaultTyped DEF Check
  <2> DEFINE ok == [req[c] EXCEPT !.pc = "admitted", !.tok = 0]
             no == [pc |-> "answered", tok |-> 0, stale |-> FALSE, made |-> 0]
  <2>2. ok \in RequestState /\ ok.made = req[c].made /\ ok.stale = req[c].stale
    <3>1. req[c] \in RequestState /\ 0 \in Text
      BY <1>0, AuthAssumption DEF Text
    <3>2. ok.made = req[c].made /\ ok.stale = req[c].stale
      BY <3>1 DEF RequestState
    <3>3. ok \in RequestState
      BY <3>1 DEF RequestState
    <3> QED
      BY <3>2, <3>3
  <2>3. no \in RequestState /\ no.made = 0 /\ ~no.stale
    BY AuthAssumption DEF RequestState, Text
  <2>4. req[c].made = 0
    BY <1>0, <1>6 DEF Check, RequestInv
  <2>5. Answer(c, 0) = [req EXCEPT ![c] = no]
    BY DEF Answer
  <2>6. Matches(req[c].tok) => ~req[c].stale
    BY <1>0 DEF Matches, RequestInv
  <2>7. \/ req' = [req EXCEPT ![c] = ok] /\ ~req[c].stale
        \/ req' = [req EXCEPT ![c] = no]
    BY <1>6, <2>5, <2>6 DEF Check
  <2> HIDE DEF ok, no
  <2>8. RequestInv' /\ req' \in [Client -> RequestState]
    <3>1. CASE req' = [req EXCEPT ![c] = ok] /\ ~req[c].stale
      BY <1>6, <2>2, <2>4, <3>1, OneRequest DEF Check, Rows, RequestInv, AuthTypeOK
    <3>2. CASE req' = [req EXCEPT ![c] = no]
      BY <1>6, <2>3, <3>2, OneRequest DEF Check, Rows, RequestInv, AuthTypeOK
    <3> QED
      BY <2>7, <3>1, <3>2
  <2> QED
    BY <1>6, <2>1, <2>8 DEF Check, AuthTypeOK
<1>7. ASSUME NEW c \in Client, Serve(c) PROVE AuthInv'
  <2>1. faults' \in 0..MaxFaults
    BY <1>7, FaultTyped DEF Serve
  <2> DEFINE an(t) == [pc |-> "answered", tok |-> 0, stale |-> FALSE, made |-> t]
  <2>2. ASSUME NEW t \in Text
        PROVE  /\ an(t) \in RequestState /\ an(t).made = t /\ ~an(t).stale
               /\ an(t).pc = "answered" /\ Answer(c, t) = [req EXCEPT ![c] = an(t)]
    BY AuthAssumption DEF RequestState, Text, Answer
  <2> HIDE DEF an
  <2>3. known' = known /\ 0 \in Text
    BY <1>7, AuthAssumption DEF Serve, Text
  <2>4. ASSUME NEW t \in TokenId, Insert(t), req' = Answer(c, t) PROVE AuthInv'
    <3>1. t \in Text /\ t \in Rows' \ known' /\ \A b \in Client : req[b].made # t
      BY <2>3, <2>4, Inserted
    <3>2. RequestInv' /\ req' \in [Client -> RequestState]
      BY <2>2, <2>3, <2>4, <3>1, Inserted, OneRequest DEF RequestInv
    <3> QED
      BY <1>7, <2>1, <2>4, <3>2, Inserted DEF Serve, AuthTypeOK
  <2>5. ASSUME NEW t \in Text, tokens' = Revoked(t), req' = Answer(c, 0) PROVE AuthInv'
    <3>2. RequestInv' /\ req' \in [Client -> RequestState]
      BY <2>2, <2>3, <2>5, RevokedRows, OneRequest DEF RequestInv
    <3> QED
      BY <1>7, <2>1, <2>5, <3>2, RevokedRows DEF Serve, AuthTypeOK
  <2>6. CASE UNCHANGED tokens /\ req' = Answer(c, 0)
    <3>2. RequestInv' /\ req' \in [Client -> RequestState]
      BY <2>2, <2>3, <2>6, OneRequest DEF RequestInv, Rows, AuthTypeOK
    <3> QED
      BY <1>7, <2>1, <2>6, <3>2 DEF Serve, AuthTypeOK
  <2> QED
    BY <1>7, <2>4, <2>5, <2>6 DEF Serve
<1>8. ASSUME NEW c \in Client, Receive(c) PROVE AuthInv'
  <2>1. known' \subseteq Rows' /\ Rows' = Rows
    BY <1>0, <1>8 DEF Receive, RequestInv, Rows
  <2>2. \A b \in Client \ {c} : req[b].made # 0 => req[b].made \notin known'
    BY <1>0, <1>8 DEF Receive, RequestInv
  <2>3. RequestInv' /\ req' \in [Client -> RequestState]
    BY <1>8, <2>1, <2>2, NoRequestTyped, OneRequest DEF Receive, AuthTypeOK
  <2>4. known' \subseteq TokenId
    BY <2>1 DEF Rows
  <2> QED
    BY <1>8, <2>3, <2>4 DEF Receive, AuthTypeOK
<1>9. ASSUME NEW c \in Client, Lose(c) PROVE AuthInv'
  <2>1. faults' \in 0..MaxFaults
    BY <1>9, FaultTyped DEF Lose
  <2>3. RequestInv' /\ req' \in [Client -> RequestState]
    BY <1>9, NoRequestTyped, OneRequest DEF Lose, RequestInv, Rows, AuthTypeOK
  <2> QED
    BY <1>9, <2>1, <2>3 DEF Lose, AuthTypeOK
<1>10. ASSUME LocalCreate PROVE AuthInv'
  <2>1. faults' \in 0..MaxFaults
    BY <1>10, FaultTyped DEF LocalCreate
  <2>2. PICK t \in TokenId : Insert(t) /\ (known' = known \cup {t} \/ known' = known)
    BY <1>10 DEF LocalCreate
  <2>3. \A c \in Client : req[c].made # 0 => req[c].made \notin known'
    BY <2>2, Inserted DEF RequestInv
  <2>4. Rows \subseteq Rows' /\ known' \subseteq Rows'
    BY <2>2, Inserted DEF RequestInv
  <2>5. RequestInv'
    BY <1>10, <2>2, <2>3, <2>4, Inserted, NoRequestChanges DEF LocalCreate
  <2> QED
    BY <1>10, <2>1, <2>2, <2>5, Inserted DEF LocalCreate, AuthTypeOK
<1>11. ASSUME NEW t \in Text, LocalRevoke(t) PROVE AuthInv'
  <2>1. RequestInv'
    BY <1>11, RevokedRows, NoRequestChanges DEF LocalRevoke, RequestInv
  <2> QED
    BY <1>11, <2>1, RevokedRows DEF LocalRevoke, AuthTypeOK
<1>13. CASE Mishap
  <2>1. RequestInv'
    BY <1>13, NoRequestChanges DEF Mishap, Rows, RequestInv
  <2>2. faults' \in 0..MaxFaults
    BY <1>13, FaultTyped DEF Mishap
  <2> QED
    BY <1>13, <2>1, <2>2 DEF Mishap, AuthTypeOK
<1>12. CASE UNCHANGED authVars
  <2>1. RequestInv'
    BY <1>12, NoRequestChanges DEF authVars, Rows, RequestInv
  <2> QED
    BY <1>12, <2>1 DEF authVars, AuthTypeOK
<1> QED
  BY <1>1, <1>2, <1>3, <1>4, <1>5, <1>6, <1>7, <1>8, <1>9, <1>10, <1>11, <1>12, <1>13
  DEF AuthNext, ServerStep

(* crawlerctl and the servers take no other steps on the tokens.            *)
LEMMA StepsAreAuth == [Next]_vars => [AuthNext]_authVars
<1> SUFFICES ASSUME [Next]_vars PROVE [AuthNext]_authVars
  OBVIOUS
<1>1. CASE ServerSide
  BY <1>1 DEF ServerSide, AuthNext, TokenId, Text
<1>2. ASSUME NEW c \in Client, CtlStep(c) PROVE [AuthNext]_authVars
  <2>1. ASSUME NEW tok \in Text, Ask(c, tok) PROVE AuthNext
    BY <2>1 DEF Ask, AuthNext
  <2>2. CASE GetAnswer(c)
    BY <2>2 DEF GetAnswer, AuthNext
  <2>3. ASSUME NEW v \in Address, SetServer(c, v) PROVE UNCHANGED authVars
    BY <2>3 DEF SetServer, LoadConfig
  <2>4. ASSUME NEW v \in Text, SetToken(c, v) PROVE UNCHANGED authVars
    BY <2>4 DEF SetToken, LoadConfig
  <2>5. CASE SaveCreated(c) \/ Truncate(c) \/ Write(c)
    BY <2>5 DEF SaveCreated, LoadConfig, Truncate, Write
  <2>6. CASE SaveFails(c)
    BY <2>6 DEF SaveFails, AuthNext, Mishap
  <2> QED
    BY <1>2, <2>1, <2>2, <2>3, <2>4, <2>5, <2>6 DEF CtlStep
<1>3. CASE UNCHANGED vars
  BY <1>3 DEF vars
<1> QED
  BY <1>1, <1>2, <1>3 DEF Next

-----------------------------------------------------------------------------
(* Servers that found no row, or failed to look.                            *)
Creating == {p \in Server : srv[p] = "create"}

(* Each of them may still make one token, and none was made in an empty table. *)
BootInv ==
  /\ booted + Cardinality(Creating) <= Cardinality(Server) + faults
  /\ Rows = {} => booted = 0

LEMMA CreatingFinite ==
  /\ IsFiniteSet(Creating) /\ Cardinality(Creating) \in Nat
  /\ Cardinality(Server) \in Nat /\ Cardinality(Creating) <= Cardinality(Server)
  BY FS_Subset, FS_CardinalityType, AuthAssumption DEF Creating

LEMMA CreatingFinitePrime ==
  /\ IsFiniteSet(Creating') /\ Cardinality(Creating') \in Nat
  /\ Cardinality(Creating') <= Cardinality(Server)
<1>1. Creating' \in SUBSET Server
  BY DEF Creating
<1> QED
  BY <1>1, FS_Subset, FS_CardinalityType, AuthAssumption

(* A step that makes no token and lets no server create one.                *)
LEMMA NoneCreates ==
  ASSUME AuthInv, BootInv, UNCHANGED booted, Creating' \subseteq Creating,
         Rows \subseteq Rows', Fault \/ UNCHANGED faults
  PROVE  BootInv'
<1>1. Cardinality(Creating') <= Cardinality(Creating)
  BY CreatingFinite, FS_Subset
<1>2. faults' >= faults /\ faults \in Nat /\ faults' \in Nat /\ booted \in Nat
  BY FaultTyped DEF AuthInv, AuthTypeOK
<1> QED
  BY <1>1, <1>2, CreatingFinite, CreatingFinitePrime DEF BootInv

LEMMA BootStep == AuthInv /\ BootInv /\ [AuthNext]_authVars => BootInv'
<1> SUFFICES ASSUME AuthInv, BootInv, [AuthNext]_authVars PROVE BootInv'
  OBVIOUS
<1>0. /\ AuthTypeOK /\ booted \in Nat /\ faults \in Nat
      /\ \A p \in Server : srv[p] \in {"down", "list", "create", "up"}
  BY DEF AuthInv, AuthTypeOK
<1>1. ASSUME NEW p \in Server, NEW b \in BOOLEAN, StartServer(p, b) PROVE BootInv'
  <2>1. Creating' \subseteq Creating
    BY <1>0, <1>1 DEF StartServer, Creating, AuthTypeOK
  <2> QED
    BY <1>1, <2>1, NoneCreates DEF StartServer, Rows
<1>2. ASSUME NEW p \in Server, BootList(p) PROVE BootInv'
  <2>1. CASE Rows # {} /\ UNCHANGED faults
             /\ srv' = [srv EXCEPT ![p] = "up"]
    <3>1. Creating' \subseteq Creating
      BY <1>0, <2>1 DEF Creating, AuthTypeOK
    <3> QED
      BY <1>2, <2>1, <3>1, NoneCreates DEF BootList, Rows
  <2>2. CASE Rows = {} /\ UNCHANGED faults
    BY <1>0, <1>2, <2>2, CreatingFinitePrime, CreatingFinite DEF BootList, BootInv, Rows
  <2>3. CASE Fault /\ srv' = [srv EXCEPT ![p] = "create"]
    <3>1. Creating' = Creating \cup {p} /\ p \notin Creating
      BY <1>0, <1>2, <2>3 DEF BootList, Creating, AuthTypeOK
    <3>2. Cardinality(Creating') = Cardinality(Creating) + 1
      BY <3>1, CreatingFinite, FS_AddElement
    <3> QED
      BY <1>0, <1>2, <2>3, <3>2, CreatingFinite DEF BootList, BootInv, Rows, Fault
  <2> QED
    BY <1>2, <2>1, <2>2, <2>3 DEF BootList
<1>3. ASSUME NEW p \in Server, BootCreate(p) PROVE BootInv'
  <2>1. Creating' = Creating \ {p} /\ p \in Creating
    BY <1>0, <1>3 DEF BootCreate, Creating, AuthTypeOK
  <2>2. Cardinality(Creating') = Cardinality(Creating) - 1
    BY <2>1, CreatingFinite, FS_RemoveElement
  <2>3. faults' >= faults /\ faults' \in Nat
    BY <1>0, <1>3, FaultTyped DEF BootCreate
  <2>4. \/ booted' = booted + 1 /\ Rows' # {}
        \/ booted' = booted /\ Rows' = Rows
    <3>1. ASSUME NEW t \in TokenId, Insert(t) PROVE Rows' # {}
      BY <3>1, Inserted
    <3> QED
      BY <1>3, <3>1 DEF BootCreate, Rows
  <2> QED
    BY <1>0, <2>2, <2>3, <2>4, CreatingFinite, CreatingFinitePrime DEF BootInv
<1>4. ASSUME NEW p \in Server, StopServer(p) PROVE BootInv'
  <2>1. Creating' \subseteq Creating
    BY <1>0, <1>4 DEF StopServer, Creating, AuthTypeOK
  <2> QED
    BY <1>4, <2>1, NoneCreates DEF StopServer, Rows
<1>5. ASSUME NEW c \in Client, NEW tok \in Text, Send(c, tok) PROVE BootInv'
  BY <1>5, NoneCreates DEF Send, Creating, Rows
<1>6. ASSUME NEW c \in Client, Check(c) PROVE BootInv'
  BY <1>6, NoneCreates DEF Check, Creating, Rows
<1>7. ASSUME NEW c \in Client, Serve(c) PROVE BootInv'
  <2>1. Rows \subseteq Rows'
    BY <1>7, Inserted, RevokedRows DEF Serve, Rows
  <2> QED
    BY <1>7, <2>1, NoneCreates DEF Serve, Creating
<1>8. ASSUME NEW c \in Client, Receive(c) PROVE BootInv'
  BY <1>8, NoneCreates DEF Receive, Creating, Rows
<1>9. ASSUME NEW c \in Client, Lose(c) PROVE BootInv'
  BY <1>9, NoneCreates DEF Lose, Creating, Rows
<1>10. CASE LocalCreate
  <2>1. Rows \subseteq Rows'
    BY <1>10, Inserted DEF LocalCreate
  <2> QED
    BY <1>10, <2>1, NoneCreates DEF LocalCreate, Creating
<1>11. ASSUME NEW t \in Text, LocalRevoke(t) PROVE BootInv'
  <2>1. Rows' = Rows
    BY <1>11, RevokedRows DEF LocalRevoke
  <2> QED
    BY <1>11, <2>1, NoneCreates DEF LocalRevoke, Creating
<1>12. CASE Mishap
  BY <1>12, NoneCreates DEF Mishap, Creating, Rows
<1>13. CASE UNCHANGED authVars
  BY <1>13, NoneCreates DEF authVars, Creating, Rows
<1> QED
  BY <1>1, <1>2, <1>3, <1>4, <1>5, <1>6, <1>7, <1>8, <1>9, <1>10, <1>11, <1>12, <1>13
  DEF AuthNext, ServerStep

-----------------------------------------------------------------------------
Lost == Rows \ known
Waiting == {c \in Client : req[c].made # 0}

LEMMA KeptCounts ==
  /\ PlaintextsKept <=> Cardinality(Lost) <= faults + Cardinality(Waiting)
  /\ PlaintextsKept' <=> Cardinality(Lost') <= faults' + Cardinality(Waiting')
  BY DEF PlaintextsKept, Lost, Waiting

LEMMA LostFinite ==
  /\ IsFiniteSet(Lost) /\ Cardinality(Lost) \in Nat
  /\ IsFiniteSet(Lost') /\ Cardinality(Lost') \in Nat
  /\ IsFiniteSet(Waiting) /\ Cardinality(Waiting) \in Nat
  /\ IsFiniteSet(Waiting') /\ Cardinality(Waiting') \in Nat
<1>1. IsFiniteSet(TokenId)
  BY FS_Interval, AuthAssumption DEF TokenId
<1>2. Lost \in SUBSET TokenId /\ Lost' \in SUBSET TokenId
  BY DEF Lost, Rows
<1>3. Waiting \in SUBSET Client /\ Waiting' \in SUBSET Client
  BY DEF Waiting
<1> QED
  BY <1>1, <1>2, <1>3, FS_Subset, FS_CardinalityType, AuthAssumption

(* No plaintext is lost in a step that takes no row and no answer away.     *)
LEMMA NoneLost ==
  ASSUME AuthInv, PlaintextsKept, Lost' \subseteq Lost, Waiting \subseteq Waiting',
         Fault \/ UNCHANGED faults
  PROVE  PlaintextsKept'
<1>1. Cardinality(Lost') <= Cardinality(Lost) /\ Cardinality(Waiting) <= Cardinality(Waiting')
  BY LostFinite, FS_Subset
<1>2. faults' >= faults /\ faults \in Nat /\ faults' \in Nat
  BY FaultTyped DEF AuthInv
<1> QED
  BY <1>1, <1>2, LostFinite, KeptCounts

LEMMA OneMore ==
  ASSUME NEW S, IsFiniteSet(S), NEW x, NEW T \in SUBSET (S \cup {x})
  PROVE  Cardinality(T) <= Cardinality(S) + 1
<1>1. IsFiniteSet(S \cup {x}) /\ Cardinality(S) \in Nat /\ Cardinality(S \cup {x}) \in Nat
  BY FS_AddElement, FS_CardinalityType
<1>2. Cardinality(S \cup {x}) <= Cardinality(S) + 1
  BY <1>1, FS_AddElement
<1>3. IsFiniteSet(T) /\ Cardinality(T) <= Cardinality(S \cup {x}) /\ Cardinality(T) \in Nat
  BY <1>1, FS_Subset, FS_CardinalityType
<1> QED
  BY <1>1, <1>2, <1>3

(* A fault loses at most one.                                               *)
LEMMA OneLost ==
  ASSUME AuthInv, PlaintextsKept, NEW t, Lost' \subseteq Lost \cup {t},
         Waiting' = Waiting, Fault
  PROVE  PlaintextsKept'
<1>1. Cardinality(Lost') <= Cardinality(Lost) + 1
  BY LostFinite, OneMore
<1>2. faults' = faults + 1 /\ faults \in Nat
  BY DEF Fault, AuthInv, AuthTypeOK
<1> QED
  BY <1>1, <1>2, LostFinite, KeptCounts

LEMMA PlaintextStep == AuthInv /\ PlaintextsKept /\ [AuthNext]_authVars => PlaintextsKept'
<1> SUFFICES ASSUME AuthInv, PlaintextsKept, [AuthNext]_authVars PROVE PlaintextsKept'
  OBVIOUS
<1>0. /\ AuthTypeOK /\ RequestInv /\ faults \in Nat
  BY DEF AuthInv, AuthTypeOK
<1>1. ASSUME NEW p \in Server, NEW b \in BOOLEAN, StartServer(p, b) PROVE PlaintextsKept'
  BY <1>1, NoneLost DEF StartServer, Lost, Waiting, Rows
<1>2. ASSUME NEW p \in Server, BootList(p) PROVE PlaintextsKept'
  BY <1>2, NoneLost DEF BootList, Lost, Waiting, Rows
<1>3. ASSUME NEW p \in Server, BootCreate(p) PROVE PlaintextsKept'
  <2>1. ASSUME NEW t \in TokenId, Insert(t), known' = known \cup {t}, UNCHANGED faults
        PROVE  PlaintextsKept'
    <3>1. Lost' \subseteq Lost
      BY <2>1, Inserted DEF Lost
    <3> QED
      BY <1>3, <2>1, <3>1, NoneLost DEF BootCreate, Waiting
  <2>2. ASSUME NEW t \in TokenId, Insert(t), known' = known, Fault
        PROVE  PlaintextsKept'
    <3>1. Lost' \subseteq Lost \cup {t}
      BY <2>2, Inserted DEF Lost
    <3>2. Waiting' = Waiting
      BY <1>3 DEF BootCreate, Waiting
    <3> QED
      BY <2>2, <3>1, <3>2, OneLost
  <2>3. CASE Fault /\ UNCHANGED <<tokens, known, booted>>
    BY <1>3, <2>3, NoneLost DEF BootCreate, Lost, Waiting, Rows
  <2> QED
    BY <1>3, <2>1, <2>2, <2>3 DEF BootCreate
<1>4. ASSUME NEW p \in Server, StopServer(p) PROVE PlaintextsKept'
  BY <1>4, NoneLost DEF StopServer, Lost, Waiting, Rows
<1>5. ASSUME NEW c \in Client, NEW tok \in Text, Send(c, tok) PROVE PlaintextsKept'
  <2>1. Waiting \subseteq Waiting'
    BY <1>0, <1>5 DEF Send, Waiting, RequestInv, AuthTypeOK
  <2> QED
    BY <1>5, <2>1, NoneLost DEF Send, Lost, Rows
<1>6. ASSUME NEW c \in Client, Check(c) PROVE PlaintextsKept'
  <2>1. c \notin Waiting
    BY <1>0, <1>6 DEF Check, Waiting, RequestInv
  <2>2. \A b \in Client \ {c} : req'[b] = req[b]
    BY <1>0, <1>6 DEF Check, Answer, AuthTypeOK
  <2>3. Waiting \subseteq Waiting'
    BY <2>1, <2>2 DEF Waiting
  <2> QED
    BY <1>6, <2>3, NoneLost DEF Check, Lost, Rows
<1>7. ASSUME NEW c \in Client, Serve(c) PROVE PlaintextsKept'
  <2>1. c \notin Waiting
    BY <1>0, <1>7 DEF Serve, Waiting, RequestInv
  <2>2. \A b \in Client \ {c} : req'[b] = req[b]
    BY <1>0, <1>7 DEF Serve, Answer, AuthTypeOK
  <2>3. Waiting \subseteq Waiting'
    BY <2>1, <2>2 DEF Waiting
  <2>4. ASSUME NEW t \in TokenId, Insert(t), req' = Answer(c, t), UNCHANGED faults
        PROVE  PlaintextsKept'
    <3>1. Lost' = Lost \cup {t}
      BY <1>7, <2>4, Inserted DEF Lost, Serve
    <3>2. t \in Text /\ t # 0
      BY <2>4, Inserted
    <3>3. req'[c].made = t
      BY <1>0, <2>4, <3>2, AnswerTyped DEF AuthTypeOK
    <3>4. Waiting' = Waiting \cup {c}
      BY <2>2, <3>2, <3>3 DEF Waiting
    <3>5. Cardinality(Lost') <= Cardinality(Lost) + 1
      BY <3>1, LostFinite, FS_AddElement
    <3>6. Cardinality(Waiting') = Cardinality(Waiting) + 1
      BY <2>1, <3>4, LostFinite, FS_AddElement
    <3> QED
      BY <1>0, <2>4, <3>5, <3>6, LostFinite, KeptCounts
  <2>5. CASE /\ \E t \in Text : tokens' = Revoked(t)
             /\ UNCHANGED faults
    <3>1. Rows' = Rows
      BY <2>5, RevokedRows
    <3> QED
      BY <1>7, <2>3, <2>5, <3>1, NoneLost DEF Serve, Lost
  <2>6. CASE Fault /\ UNCHANGED tokens
    BY <1>7, <2>3, <2>6, NoneLost DEF Serve, Lost, Rows
  <2> QED
    BY <1>7, <2>4, <2>5, <2>6 DEF Serve
<1>8. ASSUME NEW c \in Client, Receive(c) PROVE PlaintextsKept'
  <2>1. Waiting' = Waiting \ {c}
    BY <1>0, <1>8, NoRequestTyped DEF Receive, Waiting, AuthTypeOK
  <2>2. Lost' = Lost \ {req[c].made} /\ UNCHANGED faults
    BY <1>0, <1>8, AuthAssumption DEF Receive, Lost, Rows, TokenId
  <2>3. c \in Waiting => req[c].made \in Lost
    BY <1>0 DEF RequestInv, Waiting, Lost
  <2>4. CASE c \in Waiting
    <3>1. Cardinality(Lost') = Cardinality(Lost) - 1
      BY <2>2, <2>3, <2>4, LostFinite, FS_RemoveElement
    <3>2. Cardinality(Waiting') = Cardinality(Waiting) - 1
      BY <2>1, <2>4, LostFinite, FS_RemoveElement
    <3> QED
      BY <1>0, <2>2, <3>1, <3>2, LostFinite, KeptCounts
  <2>5. CASE c \notin Waiting
    BY <2>1, <2>2, <2>5, NoneLost
  <2> QED
    BY <2>4, <2>5
<1>9. ASSUME NEW c \in Client, Lose(c) PROVE PlaintextsKept'
  <2>1. Waiting \subseteq Waiting' \cup {c} /\ Lost' = Lost /\ Fault
    BY <1>0, <1>9 DEF Lose, Waiting, AuthTypeOK, Lost, Rows
  <2>2. Cardinality(Waiting) <= Cardinality(Waiting') + 1
    BY <2>1, LostFinite, OneMore
  <2> QED
    BY <1>0, <2>1, <2>2, LostFinite, KeptCounts DEF Fault
<1>10. CASE LocalCreate
  <2>0. PICK t \in TokenId : /\ Insert(t)
                             /\ \/ known' = known \cup {t} /\ UNCHANGED faults
                                \/ Fault /\ UNCHANGED known
    BY <1>10 DEF LocalCreate
  <2>1. Waiting' = Waiting
    BY <1>10 DEF LocalCreate, Waiting
  <2>2. CASE known' = known \cup {t} /\ UNCHANGED faults
    <3>1. Lost' \subseteq Lost
      BY <2>0, <2>2, Inserted DEF Lost
    <3> QED
      BY <2>1, <2>2, <3>1, NoneLost
  <2>3. CASE Fault /\ UNCHANGED known
    <3>1. Lost' \subseteq Lost \cup {t}
      BY <2>0, <2>3, Inserted DEF Lost
    <3> QED
      BY <2>1, <2>3, <3>1, OneLost
  <2> QED
    BY <2>0, <2>2, <2>3
<1>11. ASSUME NEW t \in Text, LocalRevoke(t) PROVE PlaintextsKept'
  <2>1. Rows' = Rows
    BY <1>11, RevokedRows DEF LocalRevoke
  <2> QED
    BY <1>11, <2>1, NoneLost DEF LocalRevoke, Lost, Waiting
<1>12. CASE Mishap
  BY <1>12, NoneLost DEF Mishap, Lost, Waiting, Rows
<1>13. CASE UNCHANGED authVars
  BY <1>13, NoneLost DEF authVars, Lost, Waiting, Rows
<1> QED
  BY <1>1, <1>2, <1>3, <1>4, <1>5, <1>6, <1>7, <1>8, <1>9, <1>10, <1>11, <1>12, <1>13
  DEF AuthNext, ServerStep

-----------------------------------------------------------------------------
(* Unless it is spoiled, one invocation at most is saving: it holds what is
   meant, and the file is what is meant until it is truncated. *)
SaveInv ==
  ~spoiled =>
    /\ \A b, c \in Client : Saving(b) /\ Saving(c) => b = c
    /\ \A c \in Client :
         /\ Saving(c) => ctl[c].cfg = meant
         /\ ctl[c].pc = "truncated" => file = EmptyConfig
    /\ (\A c \in Client : ~Saving(c)) => file = meant

(* An invocation that waits for the server does nothing to the file.        *)
BusyInv == \A c \in Client : req[c].pc # "idle" => ctl[c].pc = "none"
CtlInv == CtlTypeOK /\ SaveInv

LEMMA EmptyTyped ==
  /\ EmptyConfig \in Config /\ 0 \in Text
  /\ NoInvocation \in Invocation /\ NoInvocation.pc = "none"
<1>1. EmptyConfig \in Config /\ 0 \in Text
  BY AuthAssumption DEF EmptyConfig, Config, Text
<1> HIDE DEF EmptyConfig
<1> QED
  BY <1>1 DEF NoInvocation, Invocation

(* An invocation that saves nothing starts, or one stops without saving.    *)
LEMMA OneInvocation ==
  ASSUME CtlInv, NEW c \in Client, NEW v \in Invocation,
         ctl' = [ctl EXCEPT ![c] = v], v.pc \in {"none", "load"}, ~Saving(c),
         UNCHANGED <<file, meant, spoiled, sets>>
  PROVE  CtlInv'
<1>1. ctl' \in [Client -> Invocation] /\ ctl'[c] = v
      /\ \A b \in Client \ {c} : ctl'[b] = ctl[b]
  BY DEF CtlInv, CtlTypeOK
<1>2. \A b \in Client : /\ Saving(b)' <=> Saving(b)
                        /\ Saving(b)' => b # c
                        /\ ctl'[b].pc = "truncated" <=> ctl[b].pc = "truncated"
  BY <1>1 DEF Saving
<1> QED
  BY <1>1, <1>2 DEF CtlInv, CtlTypeOK, SaveInv, Saving

LEMMA Loaded ==
  ASSUME CtlInv, NEW c \in Client, NEW cfg \in Config, NEW last \in Config,
         LoadConfig(c, cfg, last), ~Saving(c), sets' \in 0..MaxSets,
         file = meant => cfg = last
  PROVE  CtlInv'
<1> DEFINE v == [pc |-> "loaded", tok |-> 0, cfg |-> cfg]
<1>1. v \in Invocation /\ v.pc = "loaded" /\ v.cfg = cfg
  BY EmptyTyped DEF Invocation
<1>2. ctl' = [ctl EXCEPT ![c] = v] /\ UNCHANGED file
  BY DEF LoadConfig
<1> HIDE DEF v
<1>3. ctl' \in [Client -> Invocation] /\ ctl'[c] = v
      /\ \A b \in Client \ {c} : ctl'[b] = ctl[b]
  BY <1>1, <1>2 DEF CtlInv, CtlTypeOK
<1>4. spoiled' \in BOOLEAN /\ meant' \in Config
  BY EmptyTyped DEF LoadConfig, CtlInv, CtlTypeOK
<1>5. ASSUME ~spoiled'
      PROVE  /\ ~spoiled /\ meant' = last
             /\ \A b \in Client \ {c} : ~Saving(b)
    BY <1>5 DEF LoadConfig, Overlaps
<1>6. ASSUME ~spoiled'
      PROVE  file = meant
  <2>1. \A b \in Client : ~Saving(b) /\ ctl[b].pc # "truncated"
    BY <1>5, <1>6 DEF Saving
  <2> QED
    BY <1>5, <1>6, <2>1 DEF CtlInv, SaveInv
<1>7. SaveInv'
  <2> SUFFICES ASSUME ~spoiled'
               PROVE  /\ \A b, d \in Client : Saving(b)' /\ Saving(d)' => b = d
                      /\ \A d \in Client :
                           /\ Saving(d)' => ctl'[d].cfg = meant'
                           /\ ctl'[d].pc = "truncated" => file' = EmptyConfig
                      /\ \E d \in Client : Saving(d)'
    BY DEF SaveInv, Saving
  <2>1. \A b \in Client \ {c} : ~Saving(b)' /\ ctl'[b].pc # "truncated"
    BY <1>3, <1>5 DEF Saving
  <2>2. Saving(c)' /\ ctl'[c].cfg = meant' /\ ctl'[c].pc # "truncated"
    BY <1>1, <1>3, <1>5, <1>6 DEF Saving
  <2> QED
    BY <2>1, <2>2
<1> QED
  BY <1>2, <1>3, <1>4, <1>7 DEF CtlInv, CtlTypeOK

LEMMA BusyStep == AuthInv /\ CtlInv /\ BusyInv /\ [Next]_vars => BusyInv'
<1> SUFFICES ASSUME AuthInv, CtlInv, BusyInv, [Next]_vars,
                    NEW b \in Client, req'[b].pc # "idle"
             PROVE  ctl'[b].pc = "none"
  BY DEF BusyInv
<1>0. /\ req \in [Client -> RequestState] /\ ctl \in [Client -> Invocation]
      /\ req[b].pc # "idle" => ctl[b].pc = "none"
  BY DEF AuthInv, AuthTypeOK, CtlInv, CtlTypeOK, BusyInv
<1>1. CASE UNCHANGED req /\ UNCHANGED ctl
  BY <1>0, <1>1
<1>2. CASE ServerSide
  <2>1. ASSUME NEW c \in Client, Check(c) \/ Serve(c) \/ Lose(c)
        PROVE  req[c].pc # "idle" /\ \A d \in Client \ {c} : req'[d] = req[d]
    BY <1>0, <2>1 DEF Check, Serve, Lose, Answer
  <2>2. req[b].pc # "idle"
    BY <1>0, <1>2, <2>1 DEF ServerSide, ServerStep, StartServer, BootList, BootCreate,
       StopServer, LocalCreate, LocalRevoke
  <2> QED
    BY <1>0, <1>2, <2>2 DEF ServerSide, ctlVars
<1>3. ASSUME NEW c \in Client, CtlStep(c) PROVE ctl'[b].pc = "none"
  <2>1. ASSUME NEW tok \in Text, Ask(c, tok) PROVE ctl'[b].pc = "none"
    BY <1>0, <2>1 DEF Ask, Send, ctlVars
  <2>2. CASE GetAnswer(c)
    BY <1>0, <2>2, NoRequestTyped DEF GetAnswer, Receive
  <2>3. ASSUME UNCHANGED req, \A d \in Client \ {c} : ctl'[d] = ctl[d],
               req[c].pc = "idle" \/ ctl[c].pc # "none"
        PROVE  ctl'[b].pc = "none"
    BY <1>0, <2>3
  <2>4. ASSUME NEW v \in Address, SetServer(c, v) PROVE ctl'[b].pc = "none"
    BY <1>0, <2>3, <2>4 DEF SetServer, LoadConfig, authVars
  <2>5. ASSUME NEW v \in Text, SetToken(c, v) PROVE ctl'[b].pc = "none"
    BY <1>0, <2>3, <2>5 DEF SetToken, LoadConfig, authVars
  <2>6. CASE SaveCreated(c)
    BY <1>0, <2>3, <2>6 DEF SaveCreated, LoadConfig, authVars
  <2>7. CASE Truncate(c) \/ Write(c) \/ SaveFails(c)
    BY <1>0, <2>3, <2>7 DEF Truncate, Write, SaveFails, Saving, Mishap, authVars
  <2> QED
    BY <1>3, <2>1, <2>2, <2>4, <2>5, <2>6, <2>7 DEF CtlStep
<1> QED
  BY <1>1, <1>2, <1>3 DEF Next, vars, authVars, ctlVars

LEMMA CtlStepInv == AuthInv /\ CtlInv /\ BusyInv /\ [Next]_vars => CtlInv'
<1> SUFFICES ASSUME AuthInv, CtlInv, BusyInv, [Next]_vars PROVE CtlInv'
  OBVIOUS
<1>0. /\ ctl \in [Client -> Invocation] /\ file \in Config /\ meant \in Config
      /\ sets \in 0..MaxSets /\ \A c \in Client : ctl[c] \in Invocation
      /\ CtlTypeOK /\ SaveInv /\ 0 \in Text
  BY EmptyTyped DEF CtlInv, CtlTypeOK
<1>1. CASE UNCHANGED ctlVars
  BY <1>1 DEF ctlVars, CtlInv, CtlTypeOK, SaveInv, Saving
<1>2. ASSUME NEW c \in Client, GetAnswer(c) PROVE CtlInv'
  <2> DEFINE v == [NoInvocation EXCEPT !.pc = "load", !.tok = req[c].made]
  <2>1. req[c].made \in Text /\ req[c].pc = "answered"
    BY <1>2 DEF GetAnswer, Receive, AuthInv, AuthTypeOK, RequestState
  <2>2. v \in Invocation /\ v.pc = "load"
    BY <2>1, EmptyTyped DEF Invocation
  <2>3. CASE ctl' = ctl
    BY <1>2, <2>3 DEF GetAnswer, CtlInv, CtlTypeOK, SaveInv, Saving
  <2>5. ~Saving(c)
    BY <2>1 DEF BusyInv, Saving
  <2>4. CASE ctl' = [ctl EXCEPT ![c] = v]
    <3> HIDE DEF v
    <3> QED
      BY <1>2, <2>2, <2>4, <2>5, OneInvocation DEF GetAnswer
  <2> QED
    BY <1>2, <2>3, <2>4 DEF GetAnswer
<1>3. ASSUME NEW c \in Client, NEW a \in Address, SetServer(c, a) PROVE CtlInv'
  <2> DEFINE cfg == WithServer(a)
             last == [meant EXCEPT !.server = a]
  <2>1. cfg \in Config /\ last \in Config
    BY <1>0 DEF Config, WithServer
  <2>2. file = meant => cfg = last
    BY DEF WithServer
  <2>3. LoadConfig(c, cfg, last) /\ ~Saving(c) /\ sets' \in 0..MaxSets
    BY <1>0, <1>3, CtlAssumption DEF SetServer, Saving
  <2> HIDE DEF cfg, last
  <2> QED
    BY <2>1, <2>2, <2>3, Loaded
<1>4. ASSUME NEW c \in Client, NEW a \in Text, SetToken(c, a) PROVE CtlInv'
  <2> DEFINE cfg == WithToken(a)
             last == [meant EXCEPT !.token = a]
  <2>1. cfg \in Config /\ last \in Config
    BY <1>0 DEF Config, WithToken
  <2>2. file = meant => cfg = last
    BY DEF WithToken
  <2>3. LoadConfig(c, cfg, last) /\ ~Saving(c) /\ sets' \in 0..MaxSets
    BY <1>0, <1>4, CtlAssumption DEF SetToken, Saving
  <2> HIDE DEF cfg, last
  <2> QED
    BY <2>1, <2>2, <2>3, Loaded
<1>5. ASSUME NEW c \in Client, SaveCreated(c) PROVE CtlInv'
  <2> DEFINE a == ctl[c].tok
             cfg == WithToken(a)
             last == [meant EXCEPT !.token = a]
  <2>1. a \in Text /\ cfg \in Config /\ last \in Config
    BY <1>0 DEF Config, WithToken, Invocation
  <2>2. file = meant => cfg = last
    BY DEF WithToken
  <2>3. LoadConfig(c, cfg, last) /\ ~Saving(c) /\ sets' \in 0..MaxSets
    BY <1>0, <1>5 DEF SaveCreated, Saving
  <2> HIDE DEF cfg, last
  <2> QED
    BY <2>1, <2>2, <2>3, Loaded
<1>6. ASSUME NEW c \in Client, Truncate(c) PROVE CtlInv'
  <2> DEFINE v == [ctl[c] EXCEPT !.pc = "truncated"]
  <2>1. v \in Invocation /\ v.cfg = ctl[c].cfg /\ v.pc = "truncated"
    BY <1>0 DEF Invocation
  <2>2. ctl' = [ctl EXCEPT ![c] = v] /\ Saving(c) /\ file' = EmptyConfig
        /\ UNCHANGED <<meant, spoiled, sets>>
    BY <1>6 DEF Truncate, Saving
  <2> HIDE DEF v
  <2>3. ctl' \in [Client -> Invocation] /\ ctl'[c] = v
        /\ \A b \in Client \ {c} : ctl'[b] = ctl[b]
    BY <1>0, <2>1, <2>2
  <2>4. \A b \in Client : (Saving(b)' <=> Saving(b)) /\ ctl'[b].cfg = ctl[b].cfg
    BY <2>1, <2>2, <2>3 DEF Saving
  <2> QED
    BY <1>0, <2>2, <2>3, <2>4, EmptyTyped DEF CtlInv, CtlTypeOK, SaveInv
<1>7. ASSUME NEW c \in Client, Write(c) PROVE CtlInv'
  <2>1. ctl' \in [Client -> Invocation] /\ ctl'[c] = NoInvocation
        /\ \A b \in Client \ {c} : ctl'[b] = ctl[b]
    BY <1>0, <1>7, EmptyTyped DEF Write
  <2>2. file' \in Config
    BY <1>0, <1>7, EmptyTyped DEF Write, Invocation
  <2>3. Saving(c) /\ UNCHANGED <<meant, spoiled, sets>>
    BY <1>7 DEF Write, Saving
  <2>4. ASSUME ~spoiled
        PROVE  /\ file' = meant
               /\ \A b \in Client : ~Saving(b)' /\ ctl'[b].pc # "truncated"
    <3>1. file = EmptyConfig /\ ctl[c].cfg = meant
      BY <1>0, <1>7, <2>3, <2>4 DEF Write, SaveInv
    <3>2. \A b \in Client \ {c} : ~Saving(b)
      BY <1>0, <2>3, <2>4 DEF SaveInv
    <3>3. file' = meant
      BY <1>7, <3>1 DEF Write
    <3> QED
      BY <2>1, <3>2, <3>3, EmptyTyped DEF Saving
  <2> QED
    BY <1>0, <2>1, <2>2, <2>3, <2>4 DEF CtlInv, CtlTypeOK, SaveInv
<1>8. ASSUME NEW c \in Client, SaveFails(c) PROVE CtlInv'
  <2>1. ctl' \in [Client -> Invocation]
    BY <1>0, <1>8, EmptyTyped DEF SaveFails
  <2> QED
    BY <1>0, <1>8, <2>1, EmptyTyped DEF SaveFails, CtlInv, CtlTypeOK, SaveInv
<1> QED
  BY <1>1, <1>2, <1>3, <1>4, <1>5, <1>6, <1>7, <1>8
  DEF Next, CtlStep, ServerSide, Ask, vars

-----------------------------------------------------------------------------
AllInv == AuthInv /\ BootInv /\ PlaintextsKept /\ CtlInv /\ BusyInv

LEMMA AllInit == Init => AllInv
<1> SUFFICES ASSUME Init PROVE AllInv
  OBVIOUS
<1>1. AuthInv
  BY AuthInitInv DEF Init
<1>2. BootInv
  BY CreatingFinite, AuthAssumption DEF Init, AuthInit, BootInv
<1>3. PlaintextsKept
  <2>1. Lost = {}
    BY DEF Init, AuthInit, Lost, Rows
  <2> QED
    BY <2>1, LostFinite, KeptCounts, FS_EmptySet DEF Init, AuthInit
<1>4. CtlInv
  <2>1. 0 \in 0..MaxSets
    BY CtlAssumption
  <2>2. \A c \in Client : ctl[c] = NoInvocation /\ ~Saving(c) /\ ctl[c].pc = "none"
    BY EmptyTyped DEF Init, Saving
  <2> QED
    BY <2>1, <2>2, EmptyTyped DEF Init, CtlInv, CtlTypeOK, SaveInv
<1>5. BusyInv
  BY EmptyTyped DEF Init, BusyInv
<1> QED
  BY <1>1, <1>2, <1>3, <1>4, <1>5 DEF AllInv

LEMMA AllStep == AllInv /\ [Next]_vars => AllInv'
  BY StepsAreAuth, AuthStep, BootStep, PlaintextStep, CtlStepInv, BusyStep DEF AllInv

LEMMA Always == Spec => []AllInv
  BY AllInit, AllStep, PTL DEF Spec

(* Type correctness of tables, requests and invocations (token_repo.go, main.go). *)
THEOREM AdminTyped == Spec => []TypeOK
<1>1. AllInv => TypeOK
  BY DEF AllInv, AuthInv, CtlInv, TypeOK
<1> QED
  BY <1>1, Always, PTL

(* No request with a revoked token passes the middleware (middleware.go:26-45). *)
THEOREM RevokedStaysOut == Spec => []RevokedRefused
<1>1. AllInv => RevokedRefused
  BY DEF AllInv, AuthInv, RequestInv, RevokedRefused
<1> QED
  BY <1>1, Always, PTL

(* The bootstrap makes no more tokens than servers and faults
   (cmd/app/main.go:82-93). *)
THEOREM BootstrapLimited == Spec => []BootstrapBounded
<1>1. AllInv => BootstrapBounded
  BY CreatingFinite DEF AllInv, AuthInv, AuthTypeOK, BootInv, BootstrapBounded
<1> QED
  BY <1>1, Always, PTL

(* A plaintext is lost by a fault only (usecases.go:352-367).               *)
THEOREM NoPlaintextLost == Spec => []PlaintextsKept
<1>1. AllInv => PlaintextsKept
  BY DEF AllInv
<1> QED
  BY <1>1, Always, PTL

(* The configuration file keeps what was set (config.go:19-36).             *)
THEOREM ConfigNotLost == Spec => []ConfigKept
<1>1. AllInv => ConfigKept
  BY DEF AllInv, CtlInv, SaveInv, ConfigKept, Saving
<1> QED
  BY <1>1, Always, PTL

(* crawlerctl takes the steps of a client of TokenAuth and no other.        *)
THEOREM CtlIsClient == Spec => AuthSpec
  BY StepsAreAuth, PTL DEF Spec, Init, AuthSpec
=============================================================================
