-------------------------- MODULE AdminAuthProofs --------------------------
(***************************************************************************)
(* What AdminAuth.tla guarantees for any number of requests, names,        *)
(* passwords and restarts.                                                 *)
(***************************************************************************)
EXTENDS AdminAuth, TLAPS

-----------------------------------------------------------------------------
(***************************************************************************)
(* Where a request is says what it asks for, and only a change of the      *)
(* password that was verified gets to write.  What it has read was stored  *)
(* while it decided: the names it keeps belong to some pair that was in    *)
(* force, and the pair of this moment is one of them.                      *)
(***************************************************************************)
RequestInv(r) ==
    /\ pc[r] = "old" => req[r].asked.op # "login"
    /\ pc[r] \in {"name", "hash"} => req[r].asked.op # "username"
    /\ pc[r] = "set" => /\ req[r].asked.op # "login"
                        /\ req[r].asked.op = "password" => req[r].ok
    /\ pc[r] \in Deciding => stored \in req[r].inForce
    /\ pc[r] = "hash" => \E p \in req[r].inForce : p[1] = req[r].name
    /\ pc[r] = "set" /\ req[r].asked.op = "username" => \E p \in req[r].inForce : p[1] = req[r].old
    /\ Accepted(r) => Given(r) \in req[r].inForce \/ BothChanged(r)
    /\ Rejected(r) => req[r].inForce # {Given(r)}

AuthInv == AuthTypeOK /\ \A r \in Requests : RequestInv(r)

\* What can be asked for: the fields that each operation has.
LEMMA OperationFields ==
    ASSUME NEW a \in Operations
    PROVE  /\ a.op \in {"login", "password", "username"}
           /\ a.op = "login" => a.name \in Names /\ a.password \in Passwords
           /\ a.op = "password" => a.password \in Passwords /\ a.new \in Passwords
           /\ a.op = "username" => a.new \in Names
BY DEF Operations

\* The backend has the types of AuthTypeOK before its first start,
LEMMA AuthTypeInit == AuthInit => AuthTypeOK
<1> SUFFICES ASSUME AuthInit PROVE AuthTypeOK
  OBVIOUS
<1>1. up \in BOOLEAN /\ ~up
  BY Zenon DEF AuthInit
<1>2. pc \in [Requests -> Deciding \cup Ended \cup {"audit", "refused"}] /\ restarts \in Nat
  BY DEF AuthInit, Ended
<1>3. \A r \in Requests : pc[r] \in Ended /\ req[r] = NoFrame
  BY DEF AuthInit, Ended
<1> QED
  BY <1>1, <1>2, <1>3 DEF AuthInit, AuthTypeOK, stored

\* and after every step.
LEMMA AuthTypeStep ==
    AuthInv /\ [AuthNext]_authVars => AuthTypeOK'
<1> SUFFICES ASSUME AuthInv, [AuthNext]_authVars PROVE AuthTypeOK'
  OBVIOUS
<1> USE AuthAssumption
<1> DEFINE Points == Deciding \cup Ended \cup {"audit", "refused"}
<1>type. /\ stored \in (Names \X Passwords) \cup {<<Missing, Missing>>}
         /\ up \in BOOLEAN /\ (up => username \in Names /\ hash \in Passwords)
         /\ pc \in [Requests -> Points] /\ req \in [Requests -> Frames \cup {NoFrame}]
         /\ \A r \in Requests : pc[r] \in Ended => req[r] = NoFrame
         /\ \A r \in Requests : pc[r] \notin Ended => up /\ req[r] \in Frames
         /\ restarts \in Nat
  BY DEF AuthInv, AuthTypeOK, stored
<1>1. CASE Start
  <2>1. stored' \in (Names \X Passwords) \cup {<<Missing, Missing>>} /\ username' # Missing
    BY <1>1, <1>type DEF Start, seed_admin_config, stored
  <2>2. up' \in BOOLEAN /\ up' /\ UNCHANGED <<pc, req, restarts>>
    BY <1>1, Zenon DEF Start
  <2> QED
    BY <1>type, <2>1, <2>2 DEF AuthTypeOK
<1>2. CASE Crash
  <2>1. up' \in BOOLEAN /\ ~up' /\ UNCHANGED stored
    BY <1>2, Zenon DEF Crash, stored
  <2>2. \A r \in Requests : pc'[r] \in Ended /\ req'[r] = NoFrame
    BY <1>2 DEF Crash, Ended
  <2>3. pc' \in [Requests -> Points] /\ req' \in [Requests -> Frames \cup {NoFrame}] /\ restarts' \in Nat
    BY <1>2, <1>type DEF Crash, Ended
  <2> QED
    BY <1>type, <2>1, <2>2, <2>3 DEF AuthTypeOK
<1>3. ASSUME NEW r \in Requests, NEW a \in Operations, Begin(r, a) PROVE AuthTypeOK'
  <2>1. up /\ up' = up /\ username \in Names /\ hash \in Passwords
    BY <1>3, <1>type, Zenon DEF Begin
  <2>2. {stored} \in SUBSET (Names \X Passwords)
    BY <2>1 DEF stored
  <2>3. req'[r] \in Frames
    <3>1. req'[r] = [asked |-> a, old |-> Missing, name |-> Missing, ok |-> FALSE, inForce |-> {stored}]
      BY <1>3, <1>type DEF Begin
    <3> QED
      BY <2>2, <3>1 DEF Frames
  <2>4. pc' \in [Requests -> Points] /\ pc'[r] \in {"name", "old"} /\ \A q \in Requests \ {r} : pc'[q] = pc[q]
    BY <1>3, <1>type DEF Begin, Step, Deciding
  <2>5. req' \in [Requests -> Frames \cup {NoFrame}] /\ \A q \in Requests \ {r} : req'[q] = req[q]
    BY <1>3, <1>type, <2>3 DEF Begin
  <2>6. UNCHANGED <<username, hash, restarts>>
    BY <1>3 DEF Begin
  <2> QED
    BY <1>type, <2>1, <2>3, <2>4, <2>5, <2>6 DEF AuthTypeOK, stored, Ended
<1>4. ASSUME NEW r \in Requests, get_admin_username(r) PROVE AuthTypeOK'
  BY <1>4, <1>type DEF get_admin_username, Step, AuthTypeOK, stored, Ended, Deciding, Frames
<1>5. ASSUME NEW r \in Requests, ReadName(r) PROVE AuthTypeOK'
  BY <1>5, <1>type DEF ReadName, Step, AuthTypeOK, stored, Ended, Deciding, Frames
<1>6. ASSUME NEW r \in Requests, ReadHash(r) PROVE AuthTypeOK'
  <2>1. Verified(r) \in BOOLEAN
    BY DEF Verified
  <2> QED
    BY <1>6, <1>type, <2>1 DEF ReadHash, Step, AuthTypeOK, stored, Ended, Deciding, Frames
<1>7. ASSUME NEW r \in Requests, Set(r) PROVE AuthTypeOK'
  <2>1. pc[r] = "set" /\ up /\ req[r].asked \in Operations /\ req[r].asked.op # "login"
    BY <1>7, <1>type DEF Set, Step, AuthInv, RequestInv, Ended, Frames
  <2>2. username' \in Names /\ hash' \in Passwords
    BY <1>7, <1>type, <2>1, OperationFields DEF Set
  <2>3. stored' \in Names \X Passwords /\ username' # Missing
    BY <2>2 DEF stored
  <2>4. ASSUME NEW q \in Requests
        PROVE  IF pc'[q] \in Ended THEN req'[q] = NoFrame ELSE up' /\ req'[q] \in Frames
    <3>1. CASE q # r /\ pc[q] \in Deciding
      <4>1. req'[q] = [req[q] EXCEPT !.inForce = @ \cup {stored'}] /\ pc'[q] = pc[q]
        BY <1>7, <1>type, <3>1 DEF Set, Step
      <4>2. pc[q] \notin Ended
        BY <3>1 DEF Deciding, Ended
      <4>3. req'[q] \in Frames
        BY <1>type, <2>3, <4>1, <4>2 DEF Frames
      <4> QED
        BY <1>7, <2>1, <4>1, <4>2, <4>3 DEF Set
    <3>2. CASE q = r
      BY <1>7, <1>type, <2>1, <3>2 DEF Set, Step, Ended
    <3>3. CASE q # r /\ pc[q] \notin Deciding
      BY <1>7, <1>type, <3>3 DEF Set, Step, Ended
    <3> QED
      BY <3>1, <3>2, <3>3
  <2> QED
    BY <1>7, <1>type, <2>1, <2>3, <2>4 DEF Set, Step, AuthTypeOK
<1>8. ASSUME NEW r \in Requests, End(r) PROVE AuthTypeOK'
  BY <1>8, <1>type DEF End, AuthTypeOK, stored, Ended, Deciding
<1>9. CASE UNCHANGED authVars
  <2>1. stored' = stored /\ up' = up /\ pc' = pc /\ req' = req /\ restarts' = restarts /\ username' = username
    BY <1>9 DEF authVars, stored
  <2> QED
    BY <2>1, Zenon DEF AuthInv, AuthTypeOK
<1> QED
  BY <1>1, <1>2, <1>3, <1>4, <1>5, <1>6, <1>7, <1>8, <1>9 DEF AuthNext

-----------------------------------------------------------------------------
\* No request is under way before the first start.
LEMMA RequestInit == AuthInit => \A r \in Requests : RequestInv(r)
BY DEF AuthInit, RequestInv, Accepted, Rejected, Verifies, Deciding, Ended

\* A request that does not move keeps what it has read: the pairs in force
\* are those before and, if it still decides, the one of this moment.
LEMMA OthersKeep ==
    ASSUME AuthInv, NEW r \in Requests, pc'[r] = pc[r],
           \/ req'[r] = req[r] /\ (stored' = stored \/ pc[r] \notin Deciding)
           \/ pc[r] \in Deciding /\ req'[r] = [req[r] EXCEPT !.inForce = @ \cup {stored'}]
    PROVE  RequestInv(r)'
<1>frame. pc[r] \in Deciding => req[r] \in Frames
  BY DEF AuthInv, AuthTypeOK, Deciding, Ended
<1>1. CASE req'[r] = req[r] /\ (stored' = stored \/ pc[r] \notin Deciding)
  <2>1. Given(r)' = Given(r) /\ (Accepted(r)' <=> Accepted(r)) /\ (Rejected(r)' <=> Rejected(r))
        /\ (BothChanged(r)' <=> BothChanged(r))
    BY <1>1 DEF Given, Accepted, Rejected, Verifies, BothChanged
  <2> QED
    BY <1>1, <2>1 DEF AuthInv, RequestInv, Deciding
<1>2. CASE pc[r] \in Deciding /\ req'[r] = [req[r] EXCEPT !.inForce = @ \cup {stored'}]
  <2>1. /\ req'[r].asked = req[r].asked /\ req'[r].old = req[r].old /\ req'[r].name = req[r].name
        /\ req'[r].ok = req[r].ok /\ req'[r].inForce = req[r].inForce \cup {stored'}
    BY <1>2, <1>frame DEF Frames
  <2>2. Given(r)' = Given(r) /\ (Accepted(r)' <=> Accepted(r)) /\ ~Rejected(r)'
    BY <1>2, <2>1 DEF Given, Accepted, Rejected, Verifies, Deciding
  <2>3. BothChanged(r) => BothChanged(r)'
    BY <2>1 DEF BothChanged
  <2> QED
    BY <1>2, <2>1, <2>2, <2>3 DEF AuthInv, RequestInv
<1> QED
  BY <1>1, <1>2

(***************************************************************************)
(* The verdict of verify_admin: a pair whose halves were both stored while *)
(* the request decided, or both rows were changed; if it differs from what *)
(* was read, it was not the only pair in force.                            *)
(***************************************************************************)
LEMMA VerdictOfRead ==
    ASSUME AuthInv, NEW r \in Requests, pc[r] = "hash"
    PROVE  /\ Verified(r) => Given(r) \in req[r].inForce \/ BothChanged(r)
           /\ ~Verified(r) => req[r].inForce # {Given(r)}
<1>1. PICK p \in req[r].inForce : p[1] = req[r].name
  BY DEF AuthInv, RequestInv
<1>2. stored \in req[r].inForce /\ req[r].inForce \subseteq Names \X Passwords
  BY DEF AuthInv, AuthTypeOK, RequestInv, Deciding, Ended, Frames
<1>3. /\ stored[1] = username /\ stored[2] = hash
      /\ p = <<p[1], p[2]>> /\ Given(r) = <<Given(r)[1], Given(r)[2]>>
  BY <1>1, <1>2 DEF stored, Given
<1>4. ASSUME Verified(r) PROVE Given(r) \in req[r].inForce \/ BothChanged(r)
  <2>1. Given(r)[1] = p[1] /\ Given(r)[2] = stored[2]
    BY <1>1, <1>3, <1>4 DEF Verified
  <2>2. CASE p[1] = stored[1] \/ p[2] = stored[2]
    BY <1>1, <1>2, <1>3, <2>1, <2>2 DEF stored
  <2>3. CASE p[1] # stored[1] /\ p[2] # stored[2]
    BY <1>1, <1>2, <2>3 DEF BothChanged
  <2> QED
    BY <2>2, <2>3
<1>5. ASSUME req[r].inForce = {Given(r)} PROVE Verified(r)
  <2>1. p = Given(r) /\ stored = Given(r)
    BY <1>1, <1>2, <1>5
  <2> QED
    BY <1>1, <1>3, <2>1 DEF Verified
<1> QED
  BY <1>4, <1>5

\* Every step keeps what AuthInv says of each request: the one that moves
\* by the case of its action, the others by OthersKeep.
LEMMA RequestStep ==
    AuthInv /\ [AuthNext]_authVars => \A r \in Requests : RequestInv(r)'
<1> SUFFICES ASSUME AuthInv, [AuthNext]_authVars, NEW q \in Requests PROVE RequestInv(q)'
  OBVIOUS
<1>type. /\ pc \in [Requests -> Deciding \cup Ended \cup {"audit", "refused"}]
         /\ req \in [Requests -> Frames \cup {NoFrame}]
         /\ \A r \in Requests : pc[r] \notin Ended => req[r] \in Frames
  BY DEF AuthInv, AuthTypeOK
<1>still. ASSUME pc'[q] = pc[q], req'[q] = req[q], stored' = stored PROVE RequestInv(q)'
  BY <1>still, OthersKeep
<1>ended. ASSUME pc'[q] \in Ended PROVE RequestInv(q)'
  BY <1>ended DEF RequestInv, Accepted, Rejected, Verifies, Ended, Deciding
<1>1. CASE Start
  <2>1. CASE pc[q] \in Ended
    BY <1>1, <2>1, <1>ended DEF Start
  <2>2. CASE pc[q] \notin Ended
    BY <1>1, <2>2 DEF Start, AuthInv, AuthTypeOK
  <2> QED
    BY <2>1, <2>2
<1>2. CASE Crash
  BY <1>2, <1>ended DEF Crash, Ended
<1>3. ASSUME NEW r \in Requests, NEW a \in Operations, Begin(r, a) PROVE RequestInv(q)'
  <2>1. CASE q # r
    BY <1>3, <2>1, <1>type, <1>still DEF Begin, Step, stored
  <2>2. CASE q = r
    <3>1. req'[q] = [asked |-> a, old |-> Missing, name |-> Missing, ok |-> FALSE, inForce |-> {stored}]
          /\ stored' = stored
      BY <1>3, <2>2, <1>type DEF Begin, stored
    <3>2. pc'[q] = IF a.op = "login" THEN "name" ELSE "old"
      BY <1>3, <2>2, <1>type DEF Begin, Step
    <3> QED
      BY <3>1, <3>2 DEF RequestInv, Accepted, Rejected
  <2> QED
    BY <2>1, <2>2
<1>4. ASSUME NEW r \in Requests, get_admin_username(r) PROVE RequestInv(q)'
  <2>1. CASE q # r
    BY <1>4, <2>1, <1>type, <1>still DEF get_admin_username, Step, stored
  <2>2. CASE q = r
    <3>1. /\ req'[q] = [req[q] EXCEPT !.old = username] /\ stored' = stored
          /\ pc[q] = "old" /\ pc'[q] = IF req[q].asked.op = "password" THEN "name" ELSE "set"
      BY <1>4, <2>2, <1>type DEF get_admin_username, Step, stored
    <3>2. req[q] \in Frames /\ req[q].asked.op # "login" /\ stored \in req[q].inForce
      BY <3>1, <1>type DEF AuthInv, RequestInv, Ended, Deciding
    <3>3. /\ req'[q].asked = req[q].asked /\ req'[q].inForce = req[q].inForce
          /\ req'[q].old = username
      BY <3>1, <3>2 DEF Frames
    <3>4. req[q].asked.op \in {"password", "username"}
      BY <3>2, OperationFields DEF Frames
    <3>5. ~Accepted(q)' /\ ~Rejected(q)'
      BY <3>1, <3>3, <3>4 DEF Accepted, Rejected, Verifies
    <3>6. stored[1] = username
      BY DEF stored
    <3> QED
      BY <3>1, <3>2, <3>3, <3>4, <3>5, <3>6 DEF RequestInv, Deciding
  <2> QED
    BY <2>1, <2>2
<1>5. ASSUME NEW r \in Requests, ReadName(r) PROVE RequestInv(q)'
  <2>1. CASE q # r
    BY <1>5, <2>1, <1>type, <1>still DEF ReadName, Step, stored
  <2>2. CASE q = r
    <3>1. /\ req'[q] = [req[q] EXCEPT !.name = username] /\ stored' = stored
          /\ pc[q] = "name" /\ pc'[q] = "hash"
      BY <1>5, <2>2, <1>type DEF ReadName, Step, stored
    <3>2. req[q] \in Frames /\ req[q].asked.op # "username" /\ stored \in req[q].inForce
      BY <3>1, <1>type DEF AuthInv, RequestInv, Ended, Deciding
    <3>3. /\ req'[q].asked = req[q].asked /\ req'[q].inForce = req[q].inForce
          /\ req'[q].name = username /\ stored[1] = username
      BY <3>1, <3>2 DEF Frames, stored
    <3> QED
      BY <3>1, <3>2, <3>3 DEF RequestInv, Accepted, Rejected, Deciding
  <2> QED
    BY <2>1, <2>2
<1>6. ASSUME NEW r \in Requests, ReadHash(r) PROVE RequestInv(q)'
  <2>1. CASE q # r
    BY <1>6, <2>1, <1>type, <1>still DEF ReadHash, Step, stored
  <2>2. CASE q = r
    <3>1. /\ req'[q] = [req[q] EXCEPT !.ok = Verified(q)] /\ stored' = stored
          /\ pc[q] = "hash"
          /\ pc'[q] = IF req[q].asked.op = "login" THEN "audit"
                      ELSE IF Verified(q) THEN "set" ELSE "refused"
      BY <1>6, <2>2, <1>type DEF ReadHash, Step, stored
    <3>2. req[q] \in Frames /\ req[q].asked.op # "username" /\ stored \in req[q].inForce
      BY <3>1, <1>type DEF AuthInv, RequestInv, Ended, Deciding
    <3>3. /\ req'[q].asked = req[q].asked /\ req'[q].inForce = req[q].inForce
          /\ req'[q].old = req[q].old /\ (req'[q].ok <=> Verified(q))
      BY <3>1, <3>2 DEF Frames
    <3>4. Given(q)' = Given(q) /\ (BothChanged(q)' <=> BothChanged(q))
      BY <3>3 DEF Given, BothChanged
    <3>5. /\ Verified(q) => Given(q) \in req[q].inForce \/ BothChanged(q)
          /\ ~Verified(q) => req[q].inForce # {Given(q)}
      BY <3>1, VerdictOfRead
    <3> QED
      BY <3>1, <3>2, <3>3, <3>4, <3>5 DEF RequestInv, Accepted, Rejected, Deciding
  <2> QED
    BY <2>1, <2>2
<1>7. ASSUME NEW r \in Requests, Set(r) PROVE RequestInv(q)'
  <2>1. CASE q # r /\ pc[q] \in Deciding
    BY <1>7, <2>1, <1>type, OthersKeep DEF Set, Step
  <2>2. CASE q # r /\ pc[q] \notin Deciding
    BY <1>7, <2>2, <1>type, OthersKeep DEF Set, Step
  <2>3. CASE q = r
    <3>1. req'[q] = req[q] /\ pc[q] = "set" /\ pc'[q] = "audit"
      BY <1>7, <2>3, <1>type DEF Set, Step
    <3>2. Given(q)' = Given(q) /\ (BothChanged(q)' <=> BothChanged(q))
      BY <3>1 DEF Given, BothChanged
    <3>3. Verifies(q) => req[q].asked.op = "password" /\ req[q].ok
      BY <3>1 DEF AuthInv, RequestInv, Verifies
    <3>4. Accepted(q)' => Accepted(q)
      BY <3>1 DEF Accepted, Verifies, Ended
    <3>5. ~Rejected(q)'
      BY <3>1, <3>3 DEF Rejected, Verifies, Ended
    <3> QED
      BY <3>1, <3>2, <3>4, <3>5 DEF AuthInv, RequestInv, Deciding
  <2> QED
    BY <2>1, <2>2, <2>3
<1>8. ASSUME NEW r \in Requests, End(r) PROVE RequestInv(q)'
  <2>1. CASE q # r
    BY <1>8, <2>1, <1>type, <1>still DEF End, stored
  <2>2. CASE q = r
    BY <1>8, <2>2, <1>type, <1>ended DEF End, Ended
  <2> QED
    BY <2>1, <2>2
<1>9. CASE UNCHANGED authVars
  BY <1>9, <1>still DEF authVars, stored
<1> QED
  BY <1>1, <1>2, <1>3, <1>4, <1>5, <1>6, <1>7, <1>8, <1>9 DEF AuthNext

-----------------------------------------------------------------------------
\* The inductive invariant holds at every moment.
LEMMA AuthInvHolds == AuthSpec => []AuthInv
<1>1. AuthInit => AuthInv
  BY AuthTypeInit, RequestInit DEF AuthInv
<1>2. AuthInv /\ [AuthNext]_authVars => AuthInv'
  BY AuthTypeStep, RequestStep DEF AuthInv
<1> QED
  BY <1>1, <1>2, PTL DEF AuthSpec

(***************************************************************************)
(* AuthTypeOK: both rows of the credentials come together, and a backend   *)
(* that has started has them (seed_admin_config, auth.py 41-60).           *)
(***************************************************************************)
THEOREM AuthTypesHold == AuthSpec => []AuthTypeOK
<1>1. AuthInv => AuthTypeOK
  BY DEF AuthInv
<1> QED
  BY <1>1, AuthInvHolds, PTL

(***************************************************************************)
(* VerdictTrue: verify_admin reads two rows in two statements and decides  *)
(* like one comparison, for any number of handlers that change them.       *)
(***************************************************************************)
THEOREM VerdictIsTrue == AuthSpec => []VerdictTrue
<1>1. AuthInv => VerdictTrue
  BY DEF AuthInv, RequestInv, VerdictTrue
<1> QED
  BY <1>1, AuthInvHolds, PTL

(***************************************************************************)
(* ReplacesKnown: what a handler replaces is what it read or verified,     *)
(* unless another change came in between (main.py 441-466).                *)
(***************************************************************************)
THEOREM ReplacesWhatIsKnown == AuthSpec => ReplacesKnown
<1> DEFINE Known(r) == Sets(r) /\ req[r].inForce = {stored}
                         => IF req[r].asked.op = "password" THEN hash = req[r].asked.password
                                                            ELSE username = req[r].old
<1>1. AuthInv /\ [AuthNext]_authVars => \A r \in Requests : Known(r)
  <2> SUFFICES ASSUME AuthInv, NEW r \in Requests, pc[r] = "set", req[r].inForce = {stored}
               PROVE  IF req[r].asked.op = "password" THEN hash = req[r].asked.password
                                                      ELSE username = req[r].old
    BY DEF Sets
  <2>1. /\ req[r].asked.op \in {"password", "username"}
        /\ req[r].asked.op = "password" => req[r].ok
    BY OperationFields DEF AuthInv, AuthTypeOK, RequestInv, Frames, Ended
  <2>2. CASE req[r].asked.op = "password"
    <3>1. Accepted(r)
      BY <2>1, <2>2 DEF Accepted, Verifies, Ended
    <3>2. ~BothChanged(r)
      BY DEF BothChanged
    <3>3. Given(r) = stored
      BY <3>1, <3>2 DEF AuthInv, RequestInv
    <3> QED
      BY <2>2, <3>3 DEF Given, stored
  <2>3. CASE req[r].asked.op = "username"
    BY <2>3 DEF AuthInv, RequestInv, stored
  <2> QED
    BY <2>1, <2>2, <2>3
<1>2. AuthInv /\ [AuthNext]_authVars => [\A r \in Requests : Known(r)]_authVars
  BY <1>1
<1> QED
  BY <1>2, AuthInvHolds, PTL DEF AuthSpec, ReplacesKnown

(***************************************************************************)
(* EnvIgnored: once seeded, only the two handlers change the credentials;  *)
(* the environment of a later start does not (auth.py 46-48).              *)
(***************************************************************************)
THEOREM EnvIsIgnored == AuthSpec => EnvIgnored
<1>1. AuthInv /\ [AuthNext]_authVars
        => [username # Missing /\ stored' # stored => \E r \in Requests : Sets(r)]_authVars
  <2> SUFFICES ASSUME AuthInv, AuthNext, username # Missing, stored' # stored
               PROVE  \E r \in Requests : Sets(r)
    OBVIOUS
  <2>1. PICK r \in Requests : Set(r)
    BY DEF AuthNext, Start, seed_admin_config, Crash, Begin, get_admin_username, ReadName, ReadHash, End, stored
  <2>2. Sets(r)
    BY <2>1 DEF Set, Step, Sets, AuthInv, AuthTypeOK
  <2> QED
    BY <2>2
<1> QED
  BY <1>1, AuthInvHolds, PTL DEF AuthSpec, EnvIgnored
=============================================================================
