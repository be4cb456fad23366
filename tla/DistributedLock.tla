--------------------------- MODULE DistributedLock ---------------------------
(***************************************************************************)
(* DistributedLockManager (app/platform/distributed_lock.py): locks with a *)
(* time to live, kept in a dictionary.                                     *)
(*                                                                         *)
(* Time is abstracted: a record says whether its expires_at has passed.  A *)
(* refused call changes nothing and returns False.                         *)
(***************************************************************************)
CONSTANTS
  Key,       \* the lock keys
  Owner,     \* the owner_ids
  NoOwner    \* there is no record for the key

VARIABLE locks   \* _locks

LockRecord == [owner : Owner \cup {NoOwner}, expired : BOOLEAN]

LockInit == locks = [k \in Key |-> [owner |-> NoOwner, expired |-> TRUE]]

is_locked(k) == locks[k].owner # NoOwner /\ ~locks[k].expired

(* Fault: a lock is granted again as soon as anybody asks for it. *)
AlwaysGrants(k, o) == o \in Owner

(* acquire_lock(k, o) returns True: it grants the lock, or extends it. *)
Grants(k, o) == is_locked(k) => locks[k].owner = o

acquire_lock(k, o) ==
  /\ Grants(k, o)
  /\ locks' = [locks EXCEPT ![k] = [owner |-> o, expired |-> FALSE]]

renew_lock(k, o) ==
  /\ is_locked(k)
  /\ locks[k].owner = o
  /\ locks' = [locks EXCEPT ![k].expired = FALSE]

(* Fault: the lock is released whoever holds it now. *)
ReleasesAny(k, o) == o \in Owner

(* release_lock(k, o) finds a record of o, also one that has expired. *)
Releases(k, o) == locks[k].owner = o

release_lock(k, o) ==
  locks' = IF Releases(k, o)
           THEN [locks EXCEPT ![k] = [owner |-> NoOwner, expired |-> TRUE]]
           ELSE locks

LockExpires(k) ==
  /\ is_locked(k)
  /\ locks' = [locks EXCEPT ![k].expired = TRUE]
==============================================================================
