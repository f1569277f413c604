----------------------------- MODULE ObjectStore -----------------------------
(***************************************************************************)
(* One object of an object store (object_store.py) as its readers see it.  *)
(* R2 keeps a body and the digest of it together; the local adapter keeps  *)
(* them as two files, each replaced atomically, one after the other.       *)
(***************************************************************************)
EXTENDS Integers

CONSTANT NoContent      \* there is no such file

\* the body that is stored, and the body the metadata describes
NoObject == [body |-> NoContent, meta |-> NoContent]

\* stat, and get which begins with it, raise when one of the two files is
\* missing or when the metadata does not describe the body
StatRaises(object) == object.body # object.meta

\* put: the body first, then its metadata
PutBody(object, content) == [object EXCEPT !.body = content]
PutMeta_IfAbsent(object, content) ==            \* bug: metadata never updated
    IF object.meta = NoContent THEN [object EXCEPT !.meta = content] ELSE object
PutMeta(object, content) == [object EXCEPT !.meta = content]
PutWhole(object, content) == PutMeta(PutBody(object, content), content)

=============================================================================
