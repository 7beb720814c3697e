------------------------------ MODULE Realtime ------------------------------
(***************************************************************************)
(* The lock primitives of backend/internal/service/realtime/service.go.    *)
(* A table of Redis lock keys is a function from keys to the random token  *)
(* that SET NX stored there, NoToken when the key does not exist.  Tokens  *)
(* are 16 random bytes, so two acquisitions never share one.               *)
(***************************************************************************)
CONSTANT NoToken

\* SETNX succeeds exactly when the key does not exist.
CanLock(table, key) == table[key] = NoToken

\* TryLock, the case in which SETNX stored the caller's token.
TryLock(table, key, token) == [table EXCEPT ![key] = token]

\* A plain DEL of the key: what Unlock would do without the token check.
UnlockAny(table, key, token) == [table EXCEPT ![key] = NoToken]

\* Unlock evaluates a script that deletes the key only while it still holds
\* the caller's token: a lock that expired and was taken by another run stays.
Unlock(table, key, token) ==
    IF table[key] = token THEN [table EXCEPT ![key] = NoToken] ELSE table

\* Redis deletes the key when its TTL elapses, whoever holds it.
Expire(table, key) == [table EXCEPT ![key] = NoToken]
=============================================================================
