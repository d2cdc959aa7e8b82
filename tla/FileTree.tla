------------------------------ MODULE FileTree ------------------------------
(***************************************************************************)
(* The two file trees a task synchronises and the calls the executor makes *)
(* on them: package os on the local side, a WebDAV server behind           *)
(* connector/webdav on the remote side.                                    *)
(*                                                                         *)
(* A tree is a function from the paths that exist (below the task's root)  *)
(* to Dir or to the content of a file.  A path is the sequence of its      *)
(* segments, and a segment is a tuple, so that the name of a conflict copy *)
(* is the segment it was made from with a mark appended.                   *)
(***************************************************************************)
EXTENDS Naturals, Sequences, SequencesExt, TLC

Dir     == "dir"
\* The body of an HTTP error answer: the client never looks at the status of
\* a GET, so the body is taken for the content of the file.
ErrBody == "error body"
\* What a file holds after io.Copy was cut off.
Partial == "partial"

IsSeq(p)     == p \in Seq(Range(p))
Ancestors(p) == {SubSeq(p, 1, i) : i \in 1..(Len(p) - 1)}
Under(p, q)  == IsPrefix(p, q)
\* filepath.Join and path.Join drop a trailing slash: a last segment without a name.
Joined(p)    == IF p # <<>> /\ Last(p) = <<>> THEN Front(p) ELSE p
Has(t, p)    == p \in DOMAIN t
IsDir(t, p)  == Has(t, p) /\ t[p] = Dir
IsFile(t, p) == Has(t, p) /\ t[p] # Dir

ParentIsDir(t, p) == \A a \in Ancestors(p) : IsDir(t, a)

\* The tree t with what u holds on top of it.
Over(u, t)       == [q \in DOMAIN u \cup DOMAIN t |-> IF q \in DOMAIN u THEN u[q] ELSE t[q]]
With(t, p, node) == Over([q \in {p} |-> node], t)
Without(t, p)    == [q \in {x \in DOMAIN t : ~Under(p, x)} |-> t[q]]
\* The missing directories of ps are added; what exists is kept.
WithDirs(t, ps)  == Over(t, [q \in ps |-> Dir])
\* The subtree at s, as it looks below d.
Moved(t, s, d)   ==
  [q \in {d \o SubSeq(x, Len(s) + 1, Len(x)) : x \in {y \in DOMAIN t : Under(s, y)}}
     |-> t[s \o SubSeq(q, Len(d) + 1, Len(q))]]

----------------------------------------------------------------------------
(* Local side.  Each operation has a guard (it returns no error) and a     *)
(* result.                                                                 *)

osMkdirAllOK(t, p) == \A q \in Ancestors(p) \cup {p} : ~IsFile(t, q)
osMkdirAll(t, p)   == WithDirs(t, Ancestors(p) \cup {p})

\* os.MkdirAll(filepath.Dir(p)), then os.Create(p).
osParentsOK(t, p)  == \A q \in Ancestors(p) : ~IsFile(t, q)
osCreateOK(t, p)   == ~IsDir(t, p) /\ osParentsOK(t, p)
osCreate(t, p, c)  == With(WithDirs(t, Ancestors(p)), p, c)

osRemoveAll(t, p)  == Without(t, p)

\* os.MkdirAll(filepath.Dir(d)), then os.Rename(s, d).  When only the second
\* call fails the directories stay.
osRenameOK(t, s, d) ==
  Has(t, s) /\ osCreateOK(t, d) /\ ~Under(s, d) /\ (IsDir(t, s) => ~Has(t, d))
osRename(t, s, d)   == Over(Moved(t, s, d), Without(WithDirs(t, Ancestors(d)), s))
osRenameFailed(t, d) == IF osParentsOK(t, d) THEN WithDirs(t, Ancestors(d)) ELSE t

----------------------------------------------------------------------------
(* Remote side.  The server answers every request; the client returns an   *)
(* error only when no answer arrives, so a request the server refuses      *)
(* changes nothing and is reported as done.                                *)

\* One MKCOL per segment: a collection is made where its parent is one and
\* nothing is there yet.
davMkcol(t, p) == IF \E q \in Ancestors(p) \cup {p} : IsFile(t, q)
                  THEN WithDirs(t, {q \in Ancestors(p) :
                                      \A r \in Ancestors(q) \cup {q} : ~IsFile(t, r)})
                  ELSE WithDirs(t, Ancestors(p) \cup {p})

davPut(t, p, c) == IF ParentIsDir(t, p) /\ ~IsDir(t, p) THEN With(t, p, c) ELSE t

davDelete(t, p) == Without(t, p)

\* The entries of the listing of t: href without the root's path and the leading
\* slash.  A server may write the href of a collection with a trailing slash,
\* which stays.
Listed(t, slashed) ==
  [q \in {IF slashed /\ IsDir(t, p) THEN Append(p, <<>>) ELSE p : p \in DOMAIN t} |-> t[Joined(q)]]

davMove(t, s, d) == IF Has(t, s) /\ ParentIsDir(t, d) /\ ~Under(s, d)
                    THEN Over(Moved(t, s, d), Without(Without(t, s), d))
                    ELSE t

davGet(t, p) == IF IsFile(t, p) THEN t[p] ELSE ErrBody

----------------------------------------------------------------------------
(* Names of conflict copies.                                               *)

Marked(p, mark, v)       == Append(Front(p), Last(p) \o <<mark, v>>)
conflictLocalPath(p, v)  == Marked(p, "remote-conflict-v", v)
conflictRemotePath(p, v) == Marked(p, "local-conflict-v", v)

\* fileIndexID: the id of a path's row writes '_' for '/', which is the same as
\* for a path whose segments hold a '_' there.
fileIndexID(p) == FlattenSeq([i \in DOMAIN p |-> IF i = 1 THEN p[i] ELSE <<"_">> \o p[i]])

\* sameFile: os.ReadFile of the local path, a GET of the remote one.
readable(t, p)        == IsFile(t, p)
sameFile(lt, lp, rt, rp) == lt[lp] = davGet(rt, rp)
=============================================================================
