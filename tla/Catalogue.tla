----------------------------- MODULE Catalogue ------------------------------
(***************************************************************************)
(* What the import service promises to everything else that reads the      *)
(* database: the rows without the bookkeeping columns, and the audit log.  *)
(*                                                                         *)
(* An import takes effect in one step or not at all, and at most once.  It *)
(* adds rows under new keys and gives new values to existing ones; it      *)
(* never removes a row, and never changes the identity (table, uuid,       *)
(* endpoints) of one.  In the same step the audit log gains exactly one    *)
(* "create" version per new row, and no "update" version that does not     *)
(* record a change of an updated row to the value it now has.              *)
(*                                                                         *)
(* A web request works on copies of rows that it has loaded.  The log says *)
(* what it had loaded, which by then need not be what it overwrote.        *)
(***************************************************************************)
EXTENDS Naturals

CONSTANTS Imports, Ids, Absent, NoValue

VARIABLES
  rows, history, applied,
  copies    \* what web requests have loaded and not saved or deleted yet

cvars == <<rows, history, applied, copies>>

Entry(r, by, event, before, after) ==
  [item |-> r, by |-> by, event |-> event, before |-> before, after |-> after]

Begin ==
  /\ history = {}
  /\ applied = {}
  /\ copies = {}

SameIdentity(x, y) ==
  /\ x.table = y.table /\ x.uuid = y.uuid
  /\ x.from = y.from /\ x.to = y.to

Creates(i, created) == {Entry(r, i, "create", NoValue, rows'[r].value) : r \in created}

\* e is a change of a row in "updated" to the value that row now has.
IsUpdate(i, updated, e) ==
  \E r \in updated : /\ e = Entry(r, i, "update", e.before, rows'[r].value)
                     /\ e.before # rows'[r].value

Apply(i) ==
  /\ i \notin applied
  /\ applied' = applied \cup {i}
  /\ \E created, updated \in SUBSET Ids :
       /\ \A r \in created : rows[r] = Absent /\ rows'[r] # Absent
       /\ \A r \in updated : /\ rows[r] # Absent /\ rows'[r] # Absent
                             /\ SameIdentity(rows[r], rows'[r])
       /\ \A r \in Ids \ (created \cup updated) : rows'[r] = rows[r]
       /\ history \cup Creates(i, created) \subseteq history'
       /\ \A e \in history' \ (history \cup Creates(i, created)) : IsUpdate(i, updated, e)
  /\ UNCHANGED copies

\* A web request loads rows as they are.
See ==
  /\ copies' \subseteq copies \cup
       {[item |-> r, value |-> rows[r].value] : r \in {x \in Ids : rows[x] # Absent}}
  /\ UNCHANGED <<rows, history, applied>>

\* It gives one of them another value than it has seen, if the row is still there,
\* and logs the change ...
Change(c) ==
  /\ \E e \in history' :
       /\ e = Entry(c.item, "web", "update", c.value, e.after)
       /\ e.after # c.value
       /\ history' = history \cup {e}
       /\ rows' = IF rows[c.item] = Absent THEN rows
                                           ELSE [rows EXCEPT ![c.item].value = e.after]
  /\ copies' \subseteq copies
  /\ UNCHANGED applied

\* ... or removes them and logs every removal.
Remove(seen) ==
  /\ rows' = [r \in Ids |-> IF \E c \in seen : c.item = r THEN Absent ELSE rows[r]]
  /\ history' = history \cup {Entry(c.item, "web", "destroy", c.value, NoValue) : c \in seen}
  /\ copies' \subseteq copies
  /\ UNCHANGED applied

Step == \/ \E i \in Imports : Apply(i)
        \/ See
        \/ \E c \in copies : Change(c)
        \/ \E seen \in SUBSET copies : Remove(seen)

Contract == Begin /\ [][Step]_cvars
=============================================================================
