----------------------------- MODULE RedisLock -----------------------------
(***************************************************************************)
(* The distributed lock of redis.service.ts: one Redis key that holds the  *)
(* token of the run that set it and that Redis deletes after a time to     *)
(* live of 55 s, which no holder ever renews.  The migration job and the   *)
(* statistics job each own one lock of this kind.                          *)
(*                                                                         *)
(* A token is a fresh random UUID, so the run itself stands for it: a run  *)
(* starts again only after its previous use of the lock ended, and then    *)
(* finds the key either absent or still there, never somebody else's token *)
(* that equals its own.                                                    *)
(***************************************************************************)
CONSTANTS
    Runs,   \* the concurrent executions of the job that takes the lock
    Free    \* the key does not exist

VARIABLE lock   \* the value of the lock key: a run's token, or Free

LockTypeOK == lock \in Runs \cup {Free}

LockInit == lock = Free

(* SET key token PX ttl NX answers OK. *)
Acquire(r) ==
    /\ lock = Free
    /\ lock' = r

(* A mutant of ReleaseOwn: DEL without looking at the token. *)
ReleaseAny(r) == lock' = Free

(* The script that deletes the key only while it still holds our token. *)
ReleaseOwn(r) == lock' = IF lock = r THEN Free ELSE lock

(* A mutant of Expire: the key is set without a time to live. *)
ExpireNever == FALSE

(* The time to live runs out: Redis deletes the key, whatever its holder  *)
(* is doing.                                                              *)
Expire ==
    /\ lock # Free
    /\ lock' = Free
=============================================================================
