---------------------------- MODULE Connections -----------------------------
(***************************************************************************)
(* The connections table under concurrent requests: Create, Update,        *)
(* TestConnection and Delete of ConnectionService, each a sequence of      *)
(* statements with no transaction around them, and the secret manager that *)
(* encrypts the stored passwords with the key of the process.              *)
(*                                                                         *)
(* Update and TestConnection read a row and write all of it back, so one   *)
(* may undo what another wrote in between.  TaskControl has the foreign    *)
(* key between tasks and connections from the side of the tasks.           *)
(*                                                                         *)
(* A row is its endpoint, its optional fields (root_path, tls_mode,        *)
(* timeout_sec and status: "" stands for not given), its password and the  *)
(* capabilities found, of which the endpoint in the fingerprint is kept.   *)
(***************************************************************************)
CONSTANTS Conns, Endpoints, Opts, Passwords, Keys, Handlers,
          Accepts      \* [Endpoints -> SUBSET Passwords]: what the servers let in

ASSUME ConnectionsAssumption ==
  /\ "" \in Opts /\ "" \notin Passwords /\ "none" \notin Endpoints
  /\ Accepts \in [Endpoints -> SUBSET Passwords]

VARIABLES conn,       \* the table
          used,       \* connections some task refers to
          key,        \* APP_SECRET_KEY of the process
          req,        \* the request each handler works on
          contended   \* history: handlers whose copy of a row was outdated by
                      \* another handler's write to it

vars == <<conn, used, key, req, contended>>

Ciphertext == [key : Keys, pw : Passwords \cup {""}]
Row   == [ep : Endpoints, opt : Opts, secret : Ciphertext, caps : Endpoints \cup {"none"}]
NoRow == [ep |-> "none"]
Idle  == [op |-> "idle"]
\* op: an update or a finished test about to write row, a test about to probe
\* the server with row, a delete about to run.  pw: a password was given.
Request == [op : {"update", "test", "probe", "delete"}, c : Conns, row : Row, pw : BOOLEAN]

\* Type invariant: what the table and the requests hold are rows, whose password
\* is always a ciphertext.
TypeOK ==
  /\ conn \in [Conns -> Row \cup {NoRow}]
  /\ used \subseteq Conns
  /\ key \in Keys
  /\ req \in [Handlers -> Request \cup {Idle}]
  /\ contended \subseteq Handlers

----------------------------------------------------------------------------
(* Steps of a request.                                                     *)

\* Mutant: the password is stored as it is.
StoredPlain(pw) == [key |-> "none", pw |-> pw]

EncryptString(pw) == [key |-> key, pw |-> pw]
Decrypts(secret)  == secret.key = key

Begin(h, r) ==
  /\ req[h] = Idle
  /\ req' = [req EXCEPT ![h] = r]
  /\ UNCHANGED <<conn, used, key, contended>>

\* The request is answered, or its client has gone and the next statement fails.
Done(h) == req' = [req EXCEPT ![h] = Idle]

\* The table holds row under c: the copies of other requests are outdated.
Written(h, c, row) ==
  /\ conn' = [conn EXCEPT ![c] = row]
  /\ contended' = (contended \ {h}) \cup
                  {k \in Handlers \ {h} : req[k] # Idle /\ req[k].c = c}
  /\ UNCHANGED <<used, key>>

\* Any password will do, the empty one too; an id that is taken is refused.
Create(h, c, ep, opt, pw) ==
  /\ req[h] = Idle /\ conn[c] = NoRow
  /\ Written(h, c, [ep |-> ep, opt |-> opt, secret |-> EncryptString(pw), caps |-> "none"])
  /\ UNCHANGED req

\* Mutant: an update keeps the capabilities that are stored.
MergedWithCaps(new, existing) ==
  [new EXCEPT !.opt = IF @ = "" THEN existing.opt ELSE @,
              !.caps = IF @ = "none" THEN existing.caps ELSE @]

\* Optional fields that are not given come from the existing row.  Capabilities
\* do not: an update erases them.
Merged(new, existing) == [new EXCEPT !.opt = IF @ = "" THEN existing.opt ELSE @]

\* Mutant: an empty password is taken for a password.
PasswordGiven(pw, existing) == EncryptString(pw)

NewSecret(pw, existing) == IF pw = "" THEN existing.secret ELSE EncryptString(pw)

\* Update up to its UPDATE: the row is read and the new one put together.
UpdateRead(h, c, ep, opt, pw) ==
  /\ conn[c] # NoRow
  /\ Begin(h, [op |-> "update", c |-> c, pw |-> pw # "",
               row |-> Merged([ep |-> ep, opt |-> opt, caps |-> "none",
                               secret |-> NewSecret(pw, conn[c])], conn[c])])

\* TestConnection up to the probe: the row is read, its password decrypted.
TestRead(h, c) ==
  /\ conn[c] # NoRow /\ Decrypts(conn[c].secret)
  /\ Begin(h, [op |-> "probe", c |-> c, pw |-> FALSE, row |-> conn[c]])

\* What a server may answer to a PROPFIND: a multistatus if it accepts the
\* password, otherwise an error whose body is an XML document or not; in either
\* case the connection may break.
Answers(ep, pw) ==
  {"other"} \cup IF pw \in Accepts[ep] THEN {"multistatus"} ELSE {"xml error"}

\* Probe looks at the body and never at the status code: any XML document will do.
Parses(answer) == answer # "other"

\* Probe, then Update as far as its UPDATE: the row is read a second time, and
\* the one to be written is the first with what was found and the password of
\* the second.
Probe(h) ==
  LET r == req[h]
  IN  /\ r.op = "probe" /\ conn[r.c] # NoRow
      /\ \E answer \in Answers(r.row.ep, r.row.secret.pw) : Parses(answer)
      /\ req' = [req EXCEPT ![h] = [op |-> "test", c |-> r.c, pw |-> FALSE,
                   row |-> Merged([r.row EXCEPT !.caps = r.row.ep,
                                                !.secret = NewSecret("", conn[r.c])], conn[r.c])]]
      /\ UNCHANGED <<conn, used, key, contended>>

\* The UPDATE of Update and of TestConnection; no row, nothing written.
Write(h) ==
  LET r == req[h]
  IN  /\ r.op \in {"update", "test"} /\ Done(h)
      /\ Written(h, r.c, IF conn[r.c] = NoRow THEN NoRow ELSE r.row)

DeleteCheck(h, c) ==
  /\ c \notin used /\ conn[c] # NoRow
  /\ Begin(h, [op |-> "delete", c |-> c, pw |-> FALSE, row |-> conn[c]])

\* The DELETE; the foreign key refuses it when a task was created meanwhile.
Delete(h) ==
  LET r == req[h]
  IN  /\ r.op = "delete" /\ Done(h)
      /\ conn' = IF r.c \in used THEN conn ELSE [conn EXCEPT ![r.c] = NoRow]
      /\ contended' = contended \ {h}
      /\ UNCHANGED <<used, key>>

\* A probe that fails, a row that is gone, a client that hangs up.
GiveUp(h) ==
  /\ req[h] # Idle /\ Done(h)
  /\ contended' = contended \ {h}
  /\ UNCHANGED <<conn, used, key>>

----------------------------------------------------------------------------
(* Tasks and the process.                                                  *)

AddTask(c) ==
  /\ conn[c] # NoRow /\ c \notin used
  /\ used' = used \cup {c}
  /\ UNCHANGED <<conn, key, req, contended>>

RemoveTask(c) ==
  /\ c \in used
  /\ used' = used \ {c}
  /\ UNCHANGED <<conn, key, req, contended>>

\* Started again, perhaps with another key: stored passwords stay as they are.
Restart ==
  /\ key' \in Keys
  /\ req' = [h \in Handlers |-> Idle]
  /\ contended' = {}
  /\ UNCHANGED <<conn, used>>

----------------------------------------------------------------------------
Init ==
  /\ conn = [c \in Conns |-> NoRow]
  /\ used = {}
  /\ key \in Keys
  /\ req = [h \in Handlers |-> Idle]
  /\ contended = {}

Next ==
  \/ \E h \in Handlers, c \in Conns, ep \in Endpoints, opt \in Opts :
       \E pw \in Passwords \cup {""} : Create(h, c, ep, opt, pw) \/ UpdateRead(h, c, ep, opt, pw)
  \/ \E h \in Handlers, c \in Conns : TestRead(h, c) \/ DeleteCheck(h, c)
  \/ \E h \in Handlers : Probe(h) \/ Write(h) \/ Delete(h) \/ GiveUp(h)
  \/ \E c \in Conns : AddTask(c) \/ RemoveTask(c)
  \/ Restart

Spec == Init /\ [][Next]_vars

----------------------------------------------------------------------------
(* Properties.                                                             *)

\* Stored capabilities are those of the server the row points at, whatever
\* updates and tests overlap (Update, TestConnection).
CapsWereProbed == \A c \in Conns : conn[c] # NoRow => conn[c].caps \in {"none", conn[c].ep}

\* A request whose copy of the row nobody outdated changes what it is about and
\* nothing else: a test the capabilities, an update without a password not the
\* password.  So an edit is undone only by a request that overlapped it.
UncontendedWrites ==
  [][\A h \in Handlers \ contended : \A c \in Conns :
       (req[h] # Idle /\ req[h].c = c /\ req'[h] = Idle /\ conn[c] # NoRow /\ conn'[c] # NoRow) =>
         /\ ~req[h].pw => conn'[c].secret = conn[c].secret
         /\ req[h].op # "update" => conn'[c].ep = conn[c].ep /\ conn'[c].opt = conn[c].opt]_vars
=============================================================================
