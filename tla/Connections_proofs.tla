------------------------- MODULE Connections_proofs -------------------------
(***************************************************************************)
(* Theorems about Connections, for any sets of connections, endpoints,     *)
(* passwords, keys and handlers.                                           *)
(*                                                                         *)
(* CapsWereProbed and UncontendedWrites speak of the table; what makes     *)
(* them inductive is the same said of the copies the requests hold.        *)
(***************************************************************************)
EXTENDS Connections, TLAPS

\* A copy a request is going to write has no capabilities but its endpoint's.
CopiesProbed ==
  \A h \in Handlers : req[h] # Idle => req[h].row.caps \in {"none", req[h].row.ep}

\* A copy nobody outdated agrees with the table in what the request leaves alone.
CopiesFresh ==
  \A h \in Handlers \ contended : (req[h] # Idle /\ conn[req[h].c] # NoRow) =>
    /\ ~req[h].pw => req[h].row.secret = conn[req[h].c].secret
    /\ req[h].op # "update" => /\ req[h].row.ep = conn[req[h].c].ep
                               /\ req[h].row.opt = conn[req[h].c].opt

IInv == TypeOK /\ CapsWereProbed /\ CopiesProbed /\ CopiesFresh

----------------------------------------------------------------------------
\* A request and a stored row are told from none by their fields.
LEMMA Shapes ==
  /\ \A r \in Request : r # Idle
  /\ \A r \in Row : r # NoRow
  /\ NoRow \notin Row /\ Idle \notin Request
<1>1. \A r \in Request : r # Idle
  <2>1. \A r \in Request : r.op # "idle"
    BY DEF Request
  <2> QED BY <2>1 DEF Idle
<1>2. \A r \in Row : r # NoRow
  <2>1. \A r \in Row : r.ep # "none"
    BY ConnectionsAssumption DEF Row
  <2> QED BY <2>1 DEF NoRow
<1> QED BY <1>1, <1>2

\* Merging keeps the type, endpoint, secret and capabilities of the new row.
LEMMA MergedRow ==
  ASSUME NEW new \in Row, NEW existing \in Row
  PROVE  /\ Merged(new, existing) \in Row
         /\ Merged(new, existing).ep = new.ep
         /\ Merged(new, existing).secret = new.secret
         /\ Merged(new, existing).caps = new.caps
         /\ Merged(new, existing).opt = IF new.opt = "" THEN existing.opt ELSE new.opt
BY DEF Merged, Row

\* A secret is the stored one or the given password under the present key.
LEMMA NewSecretType ==
  ASSUME TypeOK, NEW pw \in Passwords \cup {""}, NEW existing \in Row
  PROVE  /\ NewSecret(pw, existing) \in Ciphertext
         /\ pw = "" => NewSecret(pw, existing) = existing.secret
BY DEF NewSecret, EncryptString, Ciphertext, Row, TypeOK

LEMMA InitIInv == Init => IInv
BY DEF Init, IInv, TypeOK, CapsWereProbed, CopiesProbed, CopiesFresh

\* A request that begins with a typed, probed copy of the row keeps IInv.
LEMMA BeginIInv ==
  ASSUME IInv, NEW h \in Handlers, NEW r \in Request, Begin(h, r),
         r.row.caps \in {"none", r.row.ep},
         conn[r.c] # NoRow => /\ ~r.pw => r.row.secret = conn[r.c].secret
                              /\ r.op # "update" => /\ r.row.ep = conn[r.c].ep
                                                    /\ r.row.opt = conn[r.c].opt
  PROVE  IInv'
<1>1. TypeOK'
  BY DEF IInv, TypeOK, Begin
<1>2. req' = [req EXCEPT ![h] = r] /\ conn' = conn /\ contended' = contended
  BY DEF Begin
<1>3. CapsWereProbed'
  BY <1>2 DEF IInv, CapsWereProbed
<1>4. CopiesProbed'
  BY <1>2 DEF IInv, CopiesProbed, TypeOK
<1>5. CopiesFresh'
  BY <1>2 DEF IInv, CopiesFresh, TypeOK
<1> QED BY <1>1, <1>3, <1>4, <1>5 DEF IInv

\* A row written to the table outdates every other copy of it.
LEMMA WrittenIInv ==
  ASSUME IInv, NEW h \in Handlers, NEW c \in Conns, NEW row \in Row \cup {NoRow},
         Written(h, c, row), row # NoRow => row.caps \in {"none", row.ep},
         req' \in [Handlers -> Request \cup {Idle}], req'[h] = Idle,
         \A k \in Handlers \ {h} : req'[k] = req[k]
  PROVE  IInv'
<1>1. /\ conn' = [conn EXCEPT ![c] = row]
      /\ contended' = (contended \ {h}) \cup
                      {k \in Handlers \ {h} : req[k] # Idle /\ req[k].c = c}
      /\ used' = used /\ key' = key
  BY DEF Written
<1>2. TypeOK'
  BY <1>1 DEF IInv, TypeOK
<1>3. CapsWereProbed'
  BY <1>1 DEF IInv, CapsWereProbed, TypeOK
<1>4. CopiesProbed'
  BY DEF IInv, CopiesProbed
<1>5. CopiesFresh'
  <2> SUFFICES ASSUME NEW k \in Handlers \ contended', req'[k] # Idle,
                      conn'[req'[k].c] # NoRow
               PROVE  /\ ~req'[k].pw => req'[k].row.secret = conn'[req'[k].c].secret
                      /\ req'[k].op # "update" => /\ req'[k].row.ep = conn'[req'[k].c].ep
                                                  /\ req'[k].row.opt = conn'[req'[k].c].opt
    BY DEF CopiesFresh
  <2>1. k # h /\ req'[k] = req[k] /\ req[k].c # c /\ k \notin contended
    BY <1>1
  <2>2. req[k] \in Request /\ req[k].c \in Conns
    BY <2>1 DEF IInv, TypeOK, Request
  <2>3. conn'[req[k].c] = conn[req[k].c]
    BY <1>1, <2>1, <2>2 DEF IInv, TypeOK
  <2> QED BY <2>1, <2>3 DEF IInv, CopiesFresh
<1> QED BY <1>2, <1>3, <1>4, <1>5 DEF IInv

\* A request that ends without a write.
LEMMA DoneIInv ==
  ASSUME IInv, NEW h \in Handlers, Done(h), contended' = contended \ {h},
         UNCHANGED <<used, key>>,
         conn' \in [Conns -> Row \cup {NoRow}],
         \A c \in Conns : conn'[c] = NoRow \/ conn'[c] = conn[c]
  PROVE  IInv'
<1>1. req' = [req EXCEPT ![h] = Idle]
  BY DEF Done
<1>2. TypeOK'
  BY <1>1 DEF IInv, TypeOK
<1>3. CapsWereProbed'
  BY DEF IInv, CapsWereProbed
<1>4. CopiesProbed'
  BY <1>1 DEF IInv, CopiesProbed, TypeOK
<1>5. CopiesFresh'
  <2> SUFFICES ASSUME NEW k \in Handlers \ contended', req'[k] # Idle,
                      conn'[req'[k].c] # NoRow
               PROVE  /\ ~req'[k].pw => req'[k].row.secret = conn'[req'[k].c].secret
                      /\ req'[k].op # "update" => /\ req'[k].row.ep = conn'[req'[k].c].ep
                                                  /\ req'[k].row.opt = conn'[req'[k].c].opt
    BY DEF CopiesFresh
  <2>1. k # h /\ req'[k] = req[k] /\ k \notin contended
    BY <1>1 DEF IInv, TypeOK
  <2>2. req[k] \in Request /\ req[k].c \in Conns
    BY <2>1 DEF IInv, TypeOK, Request
  <2> QED BY <2>1, <2>2 DEF IInv, CopiesFresh
<1> QED BY <1>2, <1>3, <1>4, <1>5 DEF IInv

----------------------------------------------------------------------------
LEMMA ProbeIInv ==
  ASSUME IInv, NEW h \in Handlers, Probe(h)
  PROVE  IInv'
<1> DEFINE r   == req[h]
           old == conn[r.c]
           new == [r.row EXCEPT !.caps = r.row.ep, !.secret = NewSecret("", old)]
           row == Merged(new, old)
<1>1. r \in Request /\ r.op = "probe" /\ r.c \in Conns /\ r.row \in Row /\ old \in Row
  <2>1. req[h] \in Request \cup {Idle} /\ req[h].op = "probe" /\ conn[req[h].c] # NoRow
    BY DEF Probe, IInv, TypeOK
  <2>2. req[h] \in Request
    BY <2>1 DEF Idle
  <2> QED BY <2>1, <2>2 DEF Request, IInv, TypeOK
<1>2. NewSecret("", old) = old.secret /\ old.secret \in Ciphertext
  BY <1>1 DEF NewSecret, Row
<1>3. new \in Row /\ new.ep = r.row.ep /\ new.caps = r.row.ep /\ new.opt = r.row.opt
      /\ new.secret = old.secret
  BY <1>1, <1>2 DEF Row
<1>4. row \in Row /\ row.ep = r.row.ep /\ row.caps = r.row.ep /\ row.secret = old.secret
      /\ row.opt = IF r.row.opt = "" THEN old.opt ELSE r.row.opt
  BY <1>1, <1>3, MergedRow
<1> HIDE DEF row, new
<1>5. /\ req' = [req EXCEPT ![h] = [op |-> "test", c |-> r.c, pw |-> FALSE, row |-> row]]
      /\ UNCHANGED <<conn, used, key, contended>>
  BY DEF Probe, row, new
<1>6. TypeOK'
  <2>1. [op |-> "test", c |-> r.c, pw |-> FALSE, row |-> row] \in Request
    BY <1>1, <1>4 DEF Request
  <2> QED BY <1>5, <2>1 DEF IInv, TypeOK
<1>7. CapsWereProbed'
  BY <1>5 DEF IInv, CapsWereProbed
<1>8. CopiesProbed'
  BY <1>4, <1>5 DEF IInv, CopiesProbed, TypeOK
<1>9. CopiesFresh'
  <2> SUFFICES ASSUME NEW k \in Handlers \ contended, req'[k] # Idle,
                      conn[req'[k].c] # NoRow
               PROVE  /\ ~req'[k].pw => req'[k].row.secret = conn[req'[k].c].secret
                      /\ req'[k].op # "update" => /\ req'[k].row.ep = conn[req'[k].c].ep
                                                  /\ req'[k].row.opt = conn[req'[k].c].opt
    BY <1>5 DEF CopiesFresh
  <2>1. CASE k # h
    BY <2>1, <1>5 DEF IInv, CopiesFresh, TypeOK
  <2>2. CASE k = h
    <3>1. r.row.ep = old.ep /\ r.row.opt = old.opt
      BY <2>2, <1>1, Shapes DEF IInv, CopiesFresh
    <3>2. req'[k] = [op |-> "test", c |-> r.c, pw |-> FALSE, row |-> row]
      BY <2>2, <1>5 DEF IInv, TypeOK
    <3> QED BY <3>1, <3>2, <1>4
  <2> QED BY <2>1, <2>2
<1> QED BY <1>6, <1>7, <1>8, <1>9 DEF IInv

\* A request about to write.
LEMMA WriteFacts ==
  ASSUME IInv, NEW h \in Handlers, Write(h)
  PROVE  /\ req[h] \in Request
         /\ req' = [req EXCEPT ![h] = Idle]
         /\ Written(h, req[h].c, IF conn[req[h].c] = NoRow THEN NoRow ELSE req[h].row)
<1>1. req[h] \in Request \cup {Idle} /\ req[h].op \in {"update", "test"}
  BY DEF Write, IInv, TypeOK
<1>2. req[h] # Idle
  BY <1>1 DEF Idle
<1> QED BY <1>1, <1>2 DEF Write, Done

\* Every step keeps IInv.
LEMMA NextIInv == IInv /\ [Next]_vars => IInv'
<1> SUFFICES ASSUME IInv, [Next]_vars PROVE IInv'
  OBVIOUS
<1>1. ASSUME NEW h \in Handlers, NEW c \in Conns, NEW ep \in Endpoints, NEW opt \in Opts,
             NEW pw \in Passwords \cup {""}, Create(h, c, ep, opt, pw)
      PROVE  IInv'
  <2> DEFINE row == [ep |-> ep, opt |-> opt, secret |-> EncryptString(pw), caps |-> "none"]
  <2>1. row \in Row /\ row.caps = "none"
    BY DEF EncryptString, Row, Ciphertext, IInv, TypeOK
  <2>2. Written(h, c, row) /\ req[h] = Idle /\ req' = req
    BY <1>1 DEF Create
  <2> HIDE DEF row
  <2> QED BY <2>1, <2>2, WrittenIInv DEF IInv, TypeOK
<1>2. ASSUME NEW h \in Handlers, NEW c \in Conns, NEW ep \in Endpoints, NEW opt \in Opts,
             NEW pw \in Passwords \cup {""}, UpdateRead(h, c, ep, opt, pw)
      PROVE  IInv'
  <2> DEFINE new == [ep |-> ep, opt |-> opt, caps |-> "none", secret |-> NewSecret(pw, conn[c])]
             r   == [op |-> "update", c |-> c, pw |-> pw # "", row |-> Merged(new, conn[c])]
  <2>1. conn[c] \in Row /\ Begin(h, r)
    BY <1>2 DEF UpdateRead, IInv, TypeOK
  <2>2. NewSecret(pw, conn[c]) \in Ciphertext /\ (pw = "" => NewSecret(pw, conn[c]) = conn[c].secret)
    BY <2>1, NewSecretType DEF IInv
  <2>3. new \in Row /\ new.caps = "none" /\ new.secret = NewSecret(pw, conn[c])
    BY <2>2 DEF Row
  <2> HIDE DEF new
  <2>4. Merged(new, conn[c]) \in Row /\ Merged(new, conn[c]).caps = "none"
        /\ Merged(new, conn[c]).secret = NewSecret(pw, conn[c])
    BY <2>1, <2>3, MergedRow
  <2>5. r \in Request /\ r.c = c /\ r.op = "update" /\ r.pw = (pw # "")
        /\ r.row = Merged(new, conn[c])
    BY <2>4 DEF Request
  <2> HIDE DEF r
  <2> QED BY <2>1, <2>2, <2>4, <2>5, BeginIInv
<1>3. ASSUME NEW h \in Handlers, NEW c \in Conns, TestRead(h, c) \/ DeleteCheck(h, c)
      PROVE  IInv'
  <2>1. conn[c] # NoRow /\ conn[c] \in Row
    BY <1>3 DEF TestRead, DeleteCheck, IInv, TypeOK
  <2>2. PICK op \in {"probe", "delete"} :
          Begin(h, [op |-> op, c |-> c, pw |-> FALSE, row |-> conn[c]])
    BY <1>3 DEF TestRead, DeleteCheck
  <2>3. conn[c].caps \in {"none", conn[c].ep}
    BY <2>1 DEF IInv, CapsWereProbed
  <2> DEFINE r == [op |-> op, c |-> c, pw |-> FALSE, row |-> conn[c]]
  <2>4. r \in Request /\ r.c = c /\ r.op # "update" /\ r.row = conn[c]
    BY <2>1 DEF Request
  <2>5. Begin(h, r)
    BY <2>2
  <2> HIDE DEF r
  <2> QED BY <2>3, <2>4, <2>5, BeginIInv
<1>4. ASSUME NEW h \in Handlers, Probe(h) PROVE IInv'
  BY <1>4, ProbeIInv
<1>5. ASSUME NEW h \in Handlers, Write(h) PROVE IInv'
  <2> DEFINE row == IF conn[req[h].c] = NoRow THEN NoRow ELSE req[h].row
  <2>1. req[h] \in Request /\ req' = [req EXCEPT ![h] = Idle] /\ Written(h, req[h].c, row)
    BY <1>5, WriteFacts
  <2>2. req[h].c \in Conns /\ req[h].row \in Row
    BY <2>1 DEF Request
  <2>3. req[h].row.caps \in {"none", req[h].row.ep}
    BY <2>1, Shapes DEF IInv, CopiesProbed
  <2>4. row \in Row \cup {NoRow} /\ (row # NoRow => row.caps \in {"none", row.ep})
    BY <2>2, <2>3
  <2>5. /\ req' \in [Handlers -> Request \cup {Idle}] /\ req'[h] = Idle
        /\ \A k \in Handlers \ {h} : req'[k] = req[k]
    BY <2>1 DEF IInv, TypeOK
  <2> HIDE DEF row
  <2> QED BY <2>1, <2>2, <2>4, <2>5, WrittenIInv
<1>6. ASSUME NEW h \in Handlers, Delete(h) PROVE IInv'
  <2>1. /\ conn' \in [Conns -> Row \cup {NoRow}]
        /\ \A c \in Conns : conn'[c] = NoRow \/ conn'[c] = conn[c]
    BY <1>6 DEF Delete, IInv, TypeOK
  <2> QED BY <1>6, <2>1, DoneIInv DEF Delete
<1>7. ASSUME NEW h \in Handlers, GiveUp(h) PROVE IInv'
  <2>1. conn' \in [Conns -> Row \cup {NoRow}] /\ conn' = conn
    BY <1>7 DEF GiveUp, IInv, TypeOK
  <2> QED BY <1>7, <2>1, DoneIInv DEF GiveUp
<1>8. ASSUME NEW c \in Conns, AddTask(c) \/ RemoveTask(c) PROVE IInv'
  BY <1>8 DEF AddTask, RemoveTask, IInv, TypeOK, CapsWereProbed, CopiesProbed, CopiesFresh
<1>9. CASE Restart
  BY <1>9 DEF Restart, IInv, TypeOK, CapsWereProbed, CopiesProbed, CopiesFresh
<1>10. CASE UNCHANGED vars
  BY <1>10 DEF vars, IInv, TypeOK, CapsWereProbed, CopiesProbed, CopiesFresh
<1> QED BY <1>1, <1>2, <1>3, <1>4, <1>5, <1>6, <1>7, <1>8, <1>9, <1>10 DEF Next

LEMMA IInvInvariant == Spec => []IInv
BY InitIInv, NextIInv, PTL DEF Spec

\* The table and the requests hold well-formed rows, and every stored password is
\* a ciphertext, whichever of Create, Update and TestConnection wrote it.
THEOREM TypeCorrect == Spec => []TypeOK
<1>1. IInv => TypeOK
  BY DEF IInv
<1> QED BY <1>1, IInvInvariant, PTL

\* The stored capabilities are always those of the row's own endpoint
\* (ConnectionService.Update and TestConnection, however they overlap).
THEOREM CapsTheorem == Spec => []CapsWereProbed
<1>1. IInv => CapsWereProbed
  BY DEF IInv
<1> QED BY <1>1, IInvInvariant, PTL

\* A write by a request whose copy nobody outdated changes only what the request
\* is about (ConnectionService.Update and TestConnection).
THEOREM UncontendedTheorem == Spec => UncontendedWrites
<1> DEFINE Harmless ==
      \A h \in Handlers \ contended : \A c \in Conns :
        (req[h] # Idle /\ req[h].c = c /\ req'[h] = Idle /\ conn[c] # NoRow /\ conn'[c] # NoRow) =>
          /\ ~req[h].pw => conn'[c].secret = conn[c].secret
          /\ req[h].op # "update" => conn'[c].ep = conn[c].ep /\ conn'[c].opt = conn[c].opt
<1>1. IInv /\ [Next]_vars => [Harmless]_vars
  <2> SUFFICES ASSUME IInv, Next, NEW h \in Handlers \ contended, NEW c \in Conns,
                      req[h] # Idle, req[h].c = c, req'[h] = Idle,
                      conn[c] # NoRow, conn'[c] # NoRow
               PROVE  /\ ~req[h].pw => conn'[c].secret = conn[c].secret
                      /\ req[h].op # "update" => conn'[c].ep = conn[c].ep /\ conn'[c].opt = conn[c].opt
    OBVIOUS
  <2>1. CASE conn'[c] = conn[c]
    BY <2>1
  <2>2. ASSUME NEW k \in Handlers, Write(k) 
        PROVE  /\ ~req[h].pw => conn'[c].secret = conn[c].secret
               /\ req[h].op # "update" => conn'[c].ep = conn[c].ep /\ conn'[c].opt = conn[c].opt
    <3>1. /\ req[k] \in Request /\ req' = [req EXCEPT ![k] = Idle]
          /\ Written(k, req[k].c, IF conn[req[k].c] = NoRow THEN NoRow ELSE req[k].row)
      BY <2>2, WriteFacts
    <3>2. k = h
      BY <3>1 DEF IInv, TypeOK
    <3>3. conn'[c] = req[h].row
      BY <3>1, <3>2 DEF Written, IInv, TypeOK
    <3> QED BY <3>3 DEF IInv, CopiesFresh
  <2>3. ASSUME NEW k \in Handlers, NEW d \in Conns, NEW ep \in Endpoints, NEW opt \in Opts,
               NEW pw \in Passwords \cup {""},
               Create(k, d, ep, opt, pw) \/ UpdateRead(k, d, ep, opt, pw)
        PROVE  conn'[c] = conn[c]
    BY <2>3 DEF Create, UpdateRead, Begin, Written, IInv, TypeOK
  <2>4. ASSUME NEW k \in Handlers, NEW d \in Conns, TestRead(k, d) \/ DeleteCheck(k, d)
        PROVE  conn'[c] = conn[c]
    BY <2>4 DEF TestRead, DeleteCheck, Begin
  <2>5. ASSUME NEW k \in Handlers, Probe(k) \/ Delete(k) \/ GiveUp(k)
        PROVE  conn'[c] = conn[c]
    BY <2>5 DEF Probe, Delete, GiveUp, IInv, TypeOK
  <2>6. ASSUME NEW d \in Conns, AddTask(d) \/ RemoveTask(d)
        PROVE  conn'[c] = conn[c]
    BY <2>6 DEF AddTask, RemoveTask
  <2>7. CASE Restart
    BY <2>7, <2>1 DEF Restart
  <2> QED BY <2>1, <2>2, <2>3, <2>4, <2>5, <2>6, <2>7 DEF Next
<1>2. (Spec => [][Harmless]_vars) <=> (Spec => UncontendedWrites)
  BY DEF UncontendedWrites
<1> HIDE DEF Harmless
<1> QED BY <1>1, <1>2, IInvInvariant, PTL DEF Spec
=============================================================================
