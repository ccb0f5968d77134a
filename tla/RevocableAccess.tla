--------------------------- MODULE RevocableAccess ---------------------------
(***************************************************************************)
(* What the outage contract promises of revocation, without capabilities,  *)
(* keys, issuers or policies: a session that has been revoked may still be *)
(* served for at most Grace seconds.  EdgeFallback implements it.          *)
(***************************************************************************)
EXTENDS Integers

CONSTANTS Sessions, Start, Grace

Never == -1

VARIABLES
    now,
    revokedAt,      \* when each session was revoked
    served          \* the latest service, {} before the first

vars == <<now, revokedAt, served>>

Init ==
    /\ now = Start
    /\ revokedAt = [s \in Sessions |-> Never]
    /\ served = {}

Tick == now' = now + 1 /\ UNCHANGED <<revokedAt, served>>

Revoke(s) ==
    /\ revokedAt[s] = Never
    /\ revokedAt' = [revokedAt EXCEPT ![s] = now]
    /\ UNCHANGED <<now, served>>

Serve(s) ==
    /\ revokedAt[s] # Never => now <= revokedAt[s] + Grace
    /\ served' = {[sid |-> s, at |-> now]}
    /\ UNCHANGED <<now, revokedAt>>

Next == Tick \/ \E s \in Sessions : Revoke(s) \/ Serve(s)

Spec == Init /\ [][Next]_vars
=============================================================================
