------------------------------ MODULE AuditLog ------------------------------
(***************************************************************************)
(* The append-only, hash-chained audit log of the results platform         *)
(* (qaplatform/audit.py and the audit part of qaplatform/store.py), as     *)
(* operators on the sequence of rows of the table qap_audit_log.           *)
(*                                                                         *)
(* The rows of all projects share one table and one sequence of numbers;   *)
(* each project has a chain of its own inside it.  SHA-256 is abstracted   *)
(* to an injective function: the hash of a row is the tuple of everything  *)
(* that is hashed, the hash of the previous row included.  The payload of  *)
(* a row (time, target, diff, request id, client address) is `what'.       *)
(***************************************************************************)
EXTENDS Naturals, Sequences

\* The hash the first row of every chain is linked to.
GENESIS == << >>

\* row_hash: sha256(prev_hash + canonical_json(row)).
RowHash(row) == << row.prev_hash, row.seq, row.project, row.actor, row.token, row.action, row.what >>

\* The positions of a project's rows among the first n rows of the table.
RowsOf(log, project, n) == { i \in 1 .. n : log[i].project = project }

\* The hash of the newest of a project's rows among the first n rows.
HashAt(log, project, n) ==
  LET own == RowsOf(log, project, n)
  IN  IF own = {} THEN GENESIS
      ELSE log[CHOOSE i \in own : \A j \in own : j <= i].row_hash

\* audit_head: the hash the project's next row is chained to.  (FaultyAuditHead, the query
\* without its project, is no part of the model: it is what a mistake would make of it.)
FaultyAuditHead(log, project) == IF log = << >> THEN GENESIS ELSE log[Len(log)].row_hash

AuditHead(log, project) == HashAt(log, project, Len(log))

\* audit_next_seq: MAX(seq) + 1 over every project.
NextSeq(log) == IF log = << >> THEN 1 ELSE log[Len(log)].seq + 1

\* The row record builds: chained to `head', numbered `seq'.
NewRow(seq, head, project, actor, token, action, what) ==
  LET open == [seq |-> seq, project |-> project, actor |-> actor, token |-> token,
               action |-> action, what |-> what, prev_hash |-> head]
  IN  [seq |-> seq, project |-> project, actor |-> actor, token |-> token,
       action |-> action, what |-> what, prev_hash |-> head, row_hash |-> RowHash(open)]

\* record: append one row to the project's chain.
Record(log, project, actor, token, action, what) ==
  Append(log, NewRow(NextSeq(log), AuditHead(log, project), project, actor, token, action, what))

-----------------------------------------------------------------------------
\* The number of the newest of a project's rows among the first n rows; 0 if there is none.
SeqAt(log, project, n) ==
  LET own == RowsOf(log, project, n)
  IN  IF own = {} THEN 0 ELSE log[CHOOSE i \in own : \A j \in own : j <= i].seq

\* What verify_chain finds wrong with row i, whose project's earlier rows are all good.
RowIsBad(log, project, i) ==
  \/ log[i].seq <= SeqAt(log, project, i - 1)
  \/ log[i].prev_hash # HashAt(log, project, i - 1)
  \/ RowHash(log[i]) # log[i].row_hash

BadRows(log, project) == { i \in RowsOf(log, project, Len(log)) : RowIsBad(log, project, i) }

\* verify_chain over the rows audit_chain yields, the project's in the order of the table:
\* whether all are good, and otherwise the number of the first that is not.
VerifyChain(log, project) ==
  LET bad == BadRows(log, project)
  IN  [ok |-> bad = {},
       first_bad_seq |-> IF bad = {} THEN 0
                         ELSE log[CHOOSE i \in bad : \A j \in bad : i <= j].seq]

=============================================================================
