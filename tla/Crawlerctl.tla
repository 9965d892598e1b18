----------------------------- MODULE Crawlerctl -----------------------------
(***************************************************************************)
(* crawlerctl: the clients of TokenAuth are invocations of this command    *)
(* under one home directory.  Each process does one thing and ends.  What  *)
(* lasts is the file ~/.crawlerv2.json, which "config set-server", "config *)
(* set-token" and "tokens create --save" change: they read it, set one     *)
(* field and write all of it back, without a lock and not atomically.      *)
(*                                                                         *)
(* A file that is missing, empty or cut off reads as the empty Config.     *)
(***************************************************************************)
EXTENDS TokenAuth

CONSTANTS
  Address,  \* values of --server, set-server
  Unset,    \* the empty string
  MaxSets   \* bound: config commands

ASSUME CtlAssumption == Unset \notin Address \cup Text /\ MaxSets \in Nat

VARIABLES
  file,     \* what loadConfig returns
  ctl,      \* ctl[c]: the invocation of client c
  meant,    \* history: the last value set for each field, until it is spoiled
  spoiled,  \* history: two saves overlapped, or one was killed
  sets
ctlVars == <<file, ctl, meant, spoiled, sets>>
vars == <<authVars, ctlVars>>

Config == [server : Address \cup {Unset}, token : Text \cup {Unset}]
EmptyConfig == [server |-> Unset, token |-> Unset]

(* With pc "load" the token to save is tok; cfg is what loadConfig gave, one
   field set. *)
Invocation == [pc : {"none", "load", "loaded", "truncated"},
               tok : Text, cfg : Config]
NoInvocation == [pc |-> "none", tok |-> 0, cfg |-> EmptyConfig]

CtlTypeOK ==
  /\ file \in Config /\ meant \in Config
  /\ ctl \in [Client -> Invocation]
  /\ spoiled \in BOOLEAN /\ sets \in 0..MaxSets
TypeOK == AuthTypeOK /\ CtlTypeOK

Init ==
  /\ AuthInit
  /\ file = EmptyConfig /\ meant = EmptyConfig
  /\ ctl = [c \in Client |-> NoInvocation]
  /\ spoiled = FALSE /\ sets = 0

Saving(c) == ctl[c].pc \in {"loaded", "truncated"}
Overlaps(c) == \E b \in Client \ {c} : Saving(b)

-----------------------------------------------------------------------------
(* Commands that ask the server, with the token of the flag, the environment or
   the file; none without a token. *)
Ask(c, tok) ==
  /\ ctl[c].pc = "none"
  /\ Send(c, tok)
  /\ UNCHANGED ctlVars

(* The plaintext is printed; with --save it goes to the file next.          *)
GetAnswer(c) ==
  /\ Receive(c)
  /\ ctl' \in {ctl} \cup
        IF req[c].made = 0 THEN {}
        ELSE {[ctl EXCEPT ![c] = [NoInvocation EXCEPT !.pc = "load", !.tok = req[c].made]]}
  /\ UNCHANGED <<file, meant, spoiled, sets>>

(* cfg := loadConfig(), one field set; last is what the fields are meant to be. *)
LoadConfig(c, cfg, last) ==
  /\ ctl' = [ctl EXCEPT ![c] = [pc |-> "loaded", tok |-> 0, cfg |-> cfg]]
  /\ spoiled' = (spoiled \/ Overlaps(c))
  /\ meant' = IF spoiled' THEN EmptyConfig ELSE last
  /\ UNCHANGED <<file, authVars>>

MutWithServer_Fresh(v) == [EmptyConfig EXCEPT !.server = v]
WithServer(v) == [file EXCEPT !.server = v]

MutWithToken_OtherField(v) == [file EXCEPT !.server = v]
WithToken(v) == [file EXCEPT !.token = v]

SetServer(c, v) ==
  /\ ctl[c].pc = "none" /\ req[c].pc = "idle" /\ sets < MaxSets
  /\ LoadConfig(c, WithServer(v), [meant EXCEPT !.server = v])
  /\ sets' = sets + 1

SetToken(c, v) ==
  /\ ctl[c].pc = "none" /\ req[c].pc = "idle" /\ sets < MaxSets
  /\ v \in known \cup {0}
  /\ LoadConfig(c, WithToken(v), [meant EXCEPT !.token = v])
  /\ sets' = sets + 1

SaveCreated(c) ==
  /\ ctl[c].pc = "load"
  /\ LoadConfig(c, WithToken(ctl[c].tok), [meant EXCEPT !.token = ctl[c].tok])
  /\ UNCHANGED sets

(* os.WriteFile: open with O_TRUNC ...                                      *)
Truncate(c) ==
  /\ ctl[c].pc = "loaded"
  /\ file' = EmptyConfig /\ ctl' = [ctl EXCEPT ![c].pc = "truncated"]
  /\ UNCHANGED <<meant, spoiled, sets, authVars>>

(* ... and write, at the start of the file.  Over a longer text that another
   invocation wrote since, the result does not parse. *)
Write(c) ==
  /\ ctl[c].pc = "truncated"
  /\ file' \in {ctl[c].cfg} \cup (IF file = EmptyConfig THEN {} ELSE {EmptyConfig})
  /\ ctl' = [ctl EXCEPT ![c] = NoInvocation]
  /\ UNCHANGED <<meant, spoiled, sets, authVars>>

(* The open or the write fails, or the command is killed.                   *)
SaveFails(c) ==
  /\ Saving(c) /\ Mishap
  /\ ctl' = [ctl EXCEPT ![c] = NoInvocation] /\ spoiled' = TRUE
  /\ meant' = EmptyConfig
  /\ UNCHANGED <<file, sets>>

-----------------------------------------------------------------------------
CtlStep(c) ==
  \/ \E tok \in Text : Ask(c, tok)
  \/ GetAnswer(c)
  \/ \E v \in Address : SetServer(c, v)
  \/ \E v \in Text : SetToken(c, v)
  \/ SaveCreated(c) \/ Truncate(c) \/ Write(c) \/ SaveFails(c)

(* What the server and "crawlerv2 token" do does not touch the file.        *)
ServerSide ==
  /\ \/ \E p \in Server : ServerStep(p)
     \/ \E c \in Client : Check(c) \/ Serve(c) \/ Lose(c)
     \/ LocalCreate \/ \E t \in TokenId : LocalRevoke(t)
  /\ UNCHANGED ctlVars

Next == ServerSide \/ \E c \in Client : CtlStep(c)
Spec == Init /\ [][Next]_vars

-----------------------------------------------------------------------------
(* As long as no two saves overlap and none is killed, the file has for each
   field the value that was set last, and the other field is not lost, whatever
   tokens are created, answered or revoked between (config.go:19-36). *)
ConfigKept ==
  ~spoiled /\ (\A c \in Client : ~Saving(c)) => file = meant
=============================================================================
