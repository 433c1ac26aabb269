------------------------------ MODULE ApiStore ------------------------------
(***************************************************************************)
(* What the two reconcilers take for granted about the Kubernetes API and  *)
(* controller-runtime: an object has a history of versions, each process   *)
(* reads a cache that lags behind it, and an update that names a version   *)
(* is applied only if that version is still the latest one.  None of it is *)
(* code of src/; it is modelled from the calls of internal/controller      *)
(* (r.Get, r.List, r.Create, r.Update, r.Status().Update).                 *)
(*                                                                         *)
(* The history of one object is a non-empty sequence; position 1 stands    *)
(* for the time before the object first existed.  A resource version is a  *)
(* position of the history.                                                *)
(***************************************************************************)
EXTENDS Naturals, Sequences

\* The stored object: the last version of its history.
Latest(history) == history[Len(history)]

\* The versions a cache that shows version v may move to: the next event of
\* the watch, or a later one when a relist skips the versions in between.
NewerVersions(history, v) == (v + 1) .. Len(history)

\* Optimistic concurrency: may an update made from version v be applied?
IsCurrent(history, v) == v = Len(history)

\* The history after an update.  The API server writes no new version when
\* the object does not change.
Record(history, object) ==
    IF Latest(history) = object THEN history ELSE Append(history, object)
=============================================================================
