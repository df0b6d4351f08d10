----------------------------- MODULE AdminAuth -----------------------------
(***************************************************************************)
(* The credentials of the admin (backend/auth.py, and the handlers of      *)
(* main.py that use it): a name and a hash, in two rows of admin_config.   *)
(*                                                                         *)
(* A request is a thread; a step of it is one statement and its commit, so *)
(* that the rows can change between any two of its reads.  A hash is the   *)
(* password it was made of, and a name stands for all its spellings in     *)
(* upper and lower case.                                                   *)
(***************************************************************************)
EXTENDS Integers

CONSTANTS Requests, Names, Passwords,
          Missing,      \* no such row, nothing read
          MaxRestarts   \* bound: crashes of the backend

ASSUME AuthAssumption == Missing \notin Names \cup Passwords /\ MaxRestarts \in Nat

VARIABLES
    username, hash,   \* admin_config
    up,               \* the backend has started
    pc, req,          \* where each request is, what it asks for and its locals
    restarts          \* history

stored == <<username, hash>>
authVars   == <<username, hash, up, pc, req, restarts>>

\* A login names the admin; the other two replace one row each.
Operations == [op : {"login"}, name : Names, password : Passwords]
              \cup [op : {"password"}, password : Passwords, new : Passwords]
              \cup [op : {"username"}, new : Names]

Frames == [asked : Operations,
           old  : Names \cup {Missing},    \* the name that was read first
           name : Names \cup {Missing},    \* the name to compare with
           ok   : BOOLEAN,                 \* the verdict
           inForce : SUBSET (Names \X Passwords)]  \* history: the pairs stored while it decided

NoFrame  == [asked |-> "nothing"]
Deciding == {"old", "name", "hash", "set"}
Ended    == {"idle", "done"}

AuthInit ==
    /\ username = Missing /\ hash = Missing
    /\ up = FALSE
    /\ pc = [r \in Requests |-> "idle"]
    /\ req = [r \in Requests |-> NoFrame]
    /\ restarts = 0

-----------------------------------------------------------------------------
\* Mutants of seed_admin_config: the environment wins; the hash is left for later.
seed_admin_configAlways(n, p) == username' = n /\ hash' = p

seed_admin_configName(n, p) ==
    /\ username' = IF username = Missing THEN n ELSE username
    /\ UNCHANGED hash

\* Both rows, in one commit, unless the name is there.
seed_admin_config(n, p) ==
    IF username = Missing THEN username' = n /\ hash' = p
                          ELSE UNCHANGED <<username, hash>>

\* lifespan.  The environment may have been edited since the last start.
Start ==
    /\ ~up /\ up' = TRUE
    /\ \E n \in Names, p \in Passwords : seed_admin_config(n, p)
    /\ UNCHANGED <<pc, req, restarts>>

\* The backend dies, and the requests under way with it.
Crash ==
    /\ up /\ restarts < MaxRestarts
    /\ up' = FALSE
    /\ restarts' = restarts + 1
    /\ pc' = [r \in Requests |-> IF pc[r] \in Ended THEN pc[r] ELSE "done"]
    /\ req' = [r \in Requests |-> NoFrame]
    /\ UNCHANGED <<username, hash>>

-----------------------------------------------------------------------------
Step(r, from, to) == pc[r] = from /\ pc' = [pc EXCEPT ![r] = to]

\* A login compares the name it was given; the other handlers read it first.
Begin(r, a) ==
    /\ up
    /\ Step(r, "idle", IF a.op = "login" THEN "name" ELSE "old")
    /\ req' = [req EXCEPT ![r] = [asked |-> a, old |-> Missing, name |-> Missing, ok |-> FALSE,
                                  inForce |-> {stored}]]
    /\ UNCHANGED <<username, hash, up, restarts>>

get_admin_username(r) ==
    /\ Step(r, "old", IF req[r].asked.op = "password" THEN "name" ELSE "set")
    /\ req' = [req EXCEPT ![r].old = username]
    /\ UNCHANGED <<username, hash, up, restarts>>

\* verify_admin: the name, then the hash, each as it is by then.
ReadName(r) ==
    /\ Step(r, "name", "hash")
    /\ req' = [req EXCEPT ![r].name = username]
    /\ UNCHANGED <<username, hash, up, restarts>>

\* The password handler gives the name it has read itself.
Given(r) == <<IF req[r].asked.op = "login" THEN req[r].asked.name ELSE req[r].old,
              req[r].asked.password>>

\* Mutants of Verified: only one half counts.
VerifiedByPassword(r) == hash = req[r].asked.password
VerifiedByName(r)     == req[r].name = Given(r)[1]

Verified(r) == Given(r) = <<req[r].name, hash>>

\* A login goes on to its audit entry, whatever the verdict.
ReadHash(r) ==
    /\ Step(r, "hash", IF req[r].asked.op = "login" THEN "audit"
                       ELSE IF Verified(r) THEN "set" ELSE "refused")
    /\ req' = [req EXCEPT ![r].ok = Verified(r)]
    /\ UNCHANGED <<username, hash, up, restarts>>

\* _set_config writes one row, whatever it holds by now, and commits.
Set(r) ==
    /\ Step(r, "set", "audit")
    /\ IF req[r].asked.op = "password" THEN hash' = req[r].asked.new /\ UNCHANGED username
                                       ELSE username' = req[r].asked.new /\ UNCHANGED hash
    /\ req' = [q \in Requests |-> IF q # r /\ pc[q] \in Deciding
                                  THEN [req[q] EXCEPT !.inForce = @ \cup {stored'}] ELSE req[q]]
    /\ UNCHANGED <<up, restarts>>

\* The audit entry and the answer; or status 401; or, anywhere, a statement
\* that fails and status 500.
End(r) ==
    /\ pc[r] \notin Ended /\ pc' = [pc EXCEPT ![r] = "done"]
    /\ req' = [req EXCEPT ![r] = NoFrame]
    /\ UNCHANGED <<username, hash, up, restarts>>

AuthNext == \/ Start \/ Crash
        \/ \E r \in Requests : \/ \E a \in Operations : Begin(r, a)
                               \/ get_admin_username(r) \/ ReadName(r) \/ ReadHash(r)
                               \/ Set(r) \/ End(r)

AuthSpec == AuthInit /\ [][AuthNext]_authVars

-----------------------------------------------------------------------------
(***************************************************************************)
(* Types; the two rows come together and a backend that has started has    *)
(* them, so that no crash during the first start locks the admin out.      *)
(***************************************************************************)
AuthTypeOK ==
    /\ stored \in (Names \X Passwords) \cup {<<Missing, Missing>>}
    /\ up \in BOOLEAN /\ (up => username # Missing)
    /\ pc \in [Requests -> Deciding \cup Ended \cup {"audit", "refused"}]
    /\ req \in [Requests -> Frames \cup {NoFrame}]
    /\ \A r \in Requests : IF pc[r] \in Ended THEN req[r] = NoFrame ELSE up /\ req[r] \in Frames
    /\ restarts \in Nat

Verifies(r) == pc[r] \notin Ended /\ req[r].asked.op \in {"login", "password"}
Accepted(r) == Verifies(r) /\ req[r].ok /\ pc[r] \in {"set", "audit"}
Rejected(r) == Verifies(r) /\ ~req[r].ok /\ pc[r] \in {"audit", "refused"}

BothChanged(r) == /\ \E p, q \in req[r].inForce : p[1] # q[1]
                  /\ \E p, q \in req[r].inForce : p[2] # q[2]

(***************************************************************************)
(* verify_admin reads two rows in two statements and still decides like    *)
(* one comparison: what it accepts was the stored pair at some moment of   *)
(* the request, unless both rows were changed meanwhile; what it rejects   *)
(* was not the stored pair all the while.                                  *)
(***************************************************************************)
VerdictTrue ==
    \A r \in Requests :
      /\ Accepted(r) => Given(r) \in req[r].inForce \/ BothChanged(r)
      /\ Rejected(r) => req[r].inForce # {Given(r)}

\* Handler r commits its change.
Sets(r) == pc[r] = "set" /\ pc'[r] = "audit"

(***************************************************************************)
(* A change of the password replaces the one that the request proved to    *)
(* know, and a change of the name the one that its audit entry calls old,  *)
(* unless another change came in between.                                  *)
(***************************************************************************)
ReplacesKnown ==
    [][\A r \in Requests :
         Sets(r) /\ req[r].inForce = {stored}
           => IF req[r].asked.op = "password" THEN hash = req[r].asked.password
                                              ELSE username = req[r].old]_authVars

(***************************************************************************)
(* README 308: once seeded, the credentials are changed by the two handlers*)
(* only; the environment of a later start is ignored.                      *)
(***************************************************************************)
EnvIgnored ==
    [][username # Missing /\ stored' # stored => \E r \in Requests : Sets(r)]_authVars
=============================================================================
