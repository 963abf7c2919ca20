----------------------------- MODULE Firestore -----------------------------
(***************************************************************************)
(* What the app uses of Cloud Firestore, a service outside the repository. *)
(* A write (setData, updateData) joins the writer's queue, which outlives  *)
(* the app; the server applies a queue's writes in order.  A write leaves  *)
(* the queue when its result is read, and is applied again if it is sent   *)
(* again before.  A read answers with the server's documents and the       *)
(* reader's own queue on top of them.                                      *)
(***************************************************************************)
EXTENDS SequencesExt

CONSTANT Missing     \* the contents of a document that does not exist

SetData(name, data) == [kind |-> "setData", name |-> name, data |-> data]

UpdateData(name, field, value) ==
  [kind |-> "updateData", name |-> name, field |-> field, data |-> value]

\* A document that does not exist cannot be updated.
Applied(docs, write) ==
  IF write.kind = "setData"
    THEN [docs EXCEPT ![write.name] = write.data]
    ELSE IF docs[write.name] = Missing
      THEN docs
      ELSE [docs EXCEPT ![write.name] = [@ EXCEPT ![write.field] = write.data]]

View(docs, queue) == FoldLeft(Applied, docs, queue)
=============================================================================
