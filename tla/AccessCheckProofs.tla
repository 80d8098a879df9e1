------------------------- MODULE AccessCheckProofs -------------------------
(***************************************************************************)
(* What stands between a request and its handler, for any replicas, tokens, *)
(* requests, lives of entries and bound on the time a request takes, with   *)
(* every fault.  A change of the row begins a new age of all copies; from   *)
(* then on a copy and the request that will store it can only fall behind   *)
(* by the time that is left to them.                                        *)
(***************************************************************************)
EXTENDS AccessCheck, TLAPS

USE TimeAssumption
-----------------------------------------------------------------------------
(* The inductive invariants.                                                *)

Moving(c) == req[c].step # "idle"

\* What the tiers owe to the tokens that were reported as revoked.
DeniedWhileAlive == \A t \in out : redis.denied[t] >= life[t]
RevokedRequests  ==
  \A c \in Requests : Moving(c) /\ req[c].revoked =>
    /\ req[c].token \in out
    /\ req[c].step # "jti" => req[c].excused

DenyInv == TypeOK /\ DeniedWhileAlive /\ RevokedRequests

\* How far a copy, and a request, may be behind the row.
CopyInTime(copy) ==
  copy = NoCopy \/ (copy.left >= 1 /\ (copy.user = row \/ since + copy.left <= Slowness + UserTTL))
CopiesInTime   == CopyInTime(redis.copy) /\ \A r \in Replicas : CopyInTime(l1[r].copy)
RequestsInTime ==
  \A c \in Requests :
    /\ req[c].step = "set" => req[c].user = row \/ since <= req[c].age
    /\ req[c].step \in {"decide", "guard"} =>
         req[c].user = row \/ since <= Slowness + UserTTL - 1 + req[c].age

LagInv == TypeOK /\ CopiesInTime /\ RequestsInTime

\* What a replica that has invalidated the last change can still meet.
IsFresh(copy) == copy = NoCopy \/ copy.user = row
SettledTiers    == /\ \A r \in settled : IsFresh(l1[r].copy)
                   /\ settled # {} => IsFresh(redis.copy)
SettledRequests ==
  \A c \in Requests : Moving(c) =>
    /\ req[c].step = "set" /\ settled # {} => req[c].user = row
    /\ req[c].settled => req[c].replica \in settled
    /\ req[c].settled /\ req[c].step \in {"decide", "guard"} => req[c].user = row

FreshInv == TypeOK /\ SettledTiers /\ SettledRequests
-----------------------------------------------------------------------------
(* 1. Types.                                                                *)

LEMMA UserValues ==
  /\ Nobody \in Users /\ \A k \in Roles : UserWith(k) \in Users
  /\ \A u \in Users : Unlocked(u) \in Users
  /\ \A u \in Users, op \in Changes \ {"logout"} : Changed(op, u) \in Users
  BY ChangesAssumption DEF Nobody, Users, UserWith, Roles, Unlocked, Changed

LEMMA TierFields ==
  ASSUME NEW tier \in Tier
  PROVE  /\ \A u \in Users, n \in 0 .. UserTTL :
              [tier EXCEPT !.copy = [user |-> u, left |-> n]] \in Tier
         /\ \A d \in [Tokens -> 0 .. TokenTTL] : [tier EXCEPT !.denied = d] \in Tier
         /\ [tier EXCEPT !.copy.user = Unlocked(@)] \in Tier
         /\ Older(tier) \in Tier
  <1>1. /\ tier.copy.user \in Users /\ tier.copy.left \in 0 .. UserTTL
        /\ tier.denied \in [Tokens -> 0 .. TokenTTL]
    BY DEF Tier
  <1>2. [tier EXCEPT !.copy.user = Unlocked(@)] \in Tier
    BY <1>1, UserValues DEF Tier
  <1>3. Older(tier) \in Tier
    <2>1. (IF tier.copy.left <= 1 THEN NoCopy ELSE [tier.copy EXCEPT !.left = @ - 1])
            \in [user : Users, left : 0 .. UserTTL]
      BY <1>1, UserValues DEF NoCopy, Tier
    <2>2. [t \in Tokens |-> IF tier.denied[t] = 0 THEN 0 ELSE tier.denied[t] - 1]
            \in [Tokens -> 0 .. TokenTTL]
      BY <1>1
    <2> QED  BY <2>1, <2>2 DEF Older, Tier
  <1> QED  BY <1>1, <1>2, <1>3 DEF Tier

LEMMA InitialTiers == EmptyTier \in Tier
  BY UserValues DEF EmptyTier, NoCopy, Tier

LEMMA PutCopyTypes ==
  ASSUME TypeOK, NEW r \in Replicas, NEW u \in Users, NEW n \in 0 .. UserTTL,
         PutCopy(r, [user |-> u, left |-> n])
  PROVE  l1' \in [Replicas -> Tier] /\ redis' \in Tier
  <1>1. /\ [l1[r] EXCEPT !.copy = [user |-> u, left |-> n]] \in Tier
        /\ [redis EXCEPT !.copy = [user |-> u, left |-> n]] \in Tier
    BY TierFields DEF TypeOK
  <1> QED  BY <1>1 DEF TypeOK, PutCopy

LEMMA PutDeniedTypes ==
  ASSUME TypeOK, NEW r \in Replicas, NEW T \in SUBSET Tokens, PutDenied(r, T, TokenTTL)
  PROVE  l1' \in [Replicas -> Tier] /\ redis' \in Tier
  <1> DEFINE longer(tier) == [t \in Tokens |-> IF t \in T THEN TokenTTL ELSE tier.denied[t]]
  <1>1. ASSUME NEW tier \in Tier  PROVE [tier EXCEPT !.denied = longer(tier)] \in Tier
    <2>1. longer(tier) \in [Tokens -> 0 .. TokenTTL]
      BY DEF Tier
    <2> QED  BY <2>1, TierFields
  <1>2. /\ l1' = [l1 EXCEPT ![r] = [@ EXCEPT !.denied = longer(l1[r])]]
        /\ redis' = IF up THEN [redis EXCEPT !.denied = longer(redis)] ELSE redis
    BY DEF PutDenied
  <1> QED  BY <1>1, <1>2 DEF TypeOK

\* A request that makes a step stays a request.
LEMMA RequestFields ==
  ASSUME TypeOK, NEW c \in Requests, Moving(c)
  PROVE  /\ req[c] \in UnderWay
         /\ \A u \in Users, s \in {"user", "row", "set", "decide", "guard"} :
              [req EXCEPT ![c].step = s, ![c].user = u] \in [Requests -> UnderWay \union {Idle}]
  <1>1. req[c] \in UnderWay /\ req \in [Requests -> UnderWay \union {Idle}]
    BY DEF TypeOK, Moving, Idle
  <1>2. \A u \in Users, s \in {"user", "row", "set", "decide", "guard"} :
          [req[c] EXCEPT !.step = s, !.user = u] \in UnderWay
    BY <1>1 DEF UnderWay
  <1> QED  BY <1>1, <1>2

LEMMA GoesToTypes ==
  ASSUME TypeOK, NEW c \in Requests, Moving(c), NEW u \in Users,
         NEW s \in {"user", "row", "set", "decide", "guard"}, GoesTo(c, s, u)
  PROVE  req' \in [Requests -> UnderWay \union {Idle}]
  BY RequestFields DEF GoesTo

LEMMA EndsTypes ==
  ASSUME TypeOK, NEW c \in Requests, Ends(c)
  PROVE  req' \in [Requests -> UnderWay \union {Idle}]
  BY DEF TypeOK, Ends

LEMMA RequestTypes ==
  ASSUME TypeOK, NEW c \in Requests, RequestStep(c)
  PROVE  TypeOK'
  <1> USE DEF At, Moving
  <1> SUFFICES /\ l1' \in [Replicas -> Tier] /\ redis' \in Tier
               /\ req' \in [Requests -> UnderWay \union {Idle}]
    BY DEF TypeOK, RequestStep, Arrive, LookupJti, LookupUser, FindById, StoreCopy, Decide,
           Served, history, AdminIdle
  <1>1. CASE \E r \in Replicas, t \in Tokens : Arrive(c, r, t)
    <2>1. PICK r \in Replicas, t \in Tokens : Arrive(c, r, t)
      BY <1>1
    <2>2. [step |-> "jti", replica |-> r, token |-> t, user |-> Nobody, age |-> 0,
           revoked |-> t \in out, settled |-> r \in settled, excused |-> FALSE] \in UnderWay
      BY UserValues DEF UnderWay
    <2> QED  BY <2>1, <2>2 DEF Arrive, TypeOK, cacheVars
  <1>2. CASE LookupJti(c)
    <2>1. ASSUME NEW b \in BOOLEAN, req' = [req EXCEPT ![c].step = "user", ![c].excused = b]
          PROVE  req' \in [Requests -> UnderWay \union {Idle}]
      <3>1. req[c] \in UnderWay
        BY <1>2, RequestFields DEF LookupJti
      <3>2. [req[c] EXCEPT !.step = "user", !.excused = b] \in UnderWay
        BY <3>1 DEF UnderWay
      <3> QED  BY <2>1, <3>2 DEF TypeOK
    <2> QED  BY <1>2, <2>1, EndsTypes DEF LookupJti, TypeOK, cacheVars
  <1>3. CASE LookupUser(c)
    <2>1. req[c].replica \in Replicas
      BY <1>3, RequestFields DEF LookupUser, UnderWay
    <2>2. l1[req[c].replica].copy.user \in Users /\ redis.copy.user \in Users
      BY <2>1 DEF TypeOK, Tier
    <2>3. \/ \E u \in Users : GoesTo(c, "decide", u) \/ GoesTo(c, "row", u)
          \/ Ends(c)
      BY <1>3, <2>2, UserValues DEF LookupUser, Hit
    <2>4. Moving(c) /\ cacheVars' = cacheVars
      BY <1>3 DEF LookupUser
    <2>5. req' \in [Requests -> UnderWay \union {Idle}]
      BY <2>3, <2>4, GoesToTypes, EndsTypes
    <2> QED  BY <2>4, <2>5 DEF TypeOK, cacheVars
  <1>4. CASE FindById(c)
    <2>1. row \in Users /\ Moving(c) /\ GoesTo(c, "set", row)
      BY <1>4 DEF FindById, TypeOK
    <2> QED  BY <1>4, <2>1, GoesToTypes DEF FindById, TypeOK, cacheVars
  <1>5. CASE StoreCopy(c)
    <2>1. req[c].replica \in Replicas /\ req[c].user \in Users /\ CopyTTL \in 0 .. UserTTL
      <3>1. req[c] \in UnderWay
        BY <1>5, RequestFields DEF StoreCopy
      <3> QED  BY <3>1 DEF UnderWay, CopyTTL
    <2>2. l1' \in [Replicas -> Tier] /\ redis' \in Tier
      BY <1>5, <2>1, PutCopyTypes DEF StoreCopy
    <2>3. Moving(c) /\ (GoesTo(c, "decide", req[c].user) \/ Ends(c))
      BY <1>5 DEF StoreCopy
    <2> QED  BY <2>1, <2>2, <2>3, GoesToTypes, EndsTypes
  <1>6. CASE Decide(c)
    <2>1. req[c].user \in Users
      BY <1>6, RequestFields DEF Decide, UnderWay
    <2>2. Moving(c) /\ cacheVars' = cacheVars /\ (GoesTo(c, "guard", req[c].user) \/ Ends(c))
      BY <1>6 DEF Decide
    <2>3. req' \in [Requests -> UnderWay \union {Idle}]
      BY <2>1, <2>2, GoesToTypes, EndsTypes
    <2> QED  BY <2>2, <2>3 DEF TypeOK, cacheVars
  <1>7. CASE Served(c)
    BY <1>7, EndsTypes DEF Served, TypeOK, cacheVars
  <1> QED  BY <1>1, <1>2, <1>3, <1>4, <1>5, <1>6, <1>7 DEF RequestStep

LEMMA AdminTypes ==
  ASSUME TypeOK, NEW a \in Admins, AdminStep(a)
  PROVE  TypeOK'
  <1>1. CASE \E r \in Replicas, op \in Changes : UpdateRow(a, r, op)
    <2>1. PICK r \in Replicas, op \in Changes : UpdateRow(a, r, op)
      BY <1>1
    <2>2. row' \in Users
      BY <2>1, UserValues DEF UpdateRow, TypeOK
    <2>3. req' \in [Requests -> UnderWay \union {Idle}]
      <3>1. ASSUME NEW c \in Requests, Moving(c)
            PROVE  [req[c] EXCEPT !.settled = FALSE] \in UnderWay
        BY <3>1, RequestFields DEF UnderWay
      <3> QED  BY <2>1, <3>1 DEF UpdateRow, At, Moving
    <2>4. adm' \in [Admins -> Invalidating \union {AdminIdle}]
      <3>1. [step |-> "del", replica |-> r, op |-> op] \in Invalidating
        BY DEF Invalidating
      <3> QED  BY <2>1, <3>1 DEF UpdateRow, TypeOK
    <2> QED  BY <2>1, <2>2, <2>3, <2>4 DEF UpdateRow, TypeOK, cacheVars, Staleness
  <1>2. CASE InvalidateUserCache(a)
    <2>1. adm[a] \in Invalidating
      BY <1>2 DEF InvalidateUserCache, TypeOK, AdminIdle
    <2>2. adm[a].replica \in Replicas /\ [adm[a] EXCEPT !.step = "deny"] \in Invalidating
      BY <2>1 DEF Invalidating
    <2>3. PutCopy(adm[a].replica, [user |-> Nobody, left |-> 0])
      BY <1>2 DEF InvalidateUserCache, Forget, NoCopy
    <2>4. l1' \in [Replicas -> Tier] /\ redis' \in Tier
      BY <2>2, <2>3, PutCopyTypes, UserValues
    <2>5. adm' \in [Admins -> Invalidating \union {AdminIdle}]
      BY <1>2, <2>2 DEF InvalidateUserCache, TypeOK
    <2> QED  BY <1>2, <2>2, <2>4, <2>5 DEF InvalidateUserCache, TypeOK
  <1>3. ASSUME NEW r \in Replicas, NEW T \in SUBSET Tokens, Denylist(a, r, T)
        PROVE  TypeOK'
    <2>1. l1' \in [Replicas -> Tier] /\ redis' \in Tier
      BY <1>3, PutDeniedTypes DEF Denylist, DenyFor
    <2> QED  BY <1>3, <2>1 DEF Denylist, TypeOK
  <1>4. CASE RevokeAllUserSessions(a)
    <2>1. adm[a].replica \in Replicas
      BY <1>4 DEF RevokeAllUserSessions, TypeOK, AdminIdle, Invalidating
    <2> QED  BY <1>3, <1>4, <2>1 DEF RevokeAllUserSessions
  <1>5. CASE \E r \in Replicas, t \in Tokens : Logout(a, r, t)
    BY <1>3, <1>5 DEF Logout
  <1> QED  BY <1>1, <1>2, <1>4, <1>5 DEF AdminStep

LEMMA WorldTypes ==
  ASSUME TypeOK, (\E t \in Tokens : Refresh(t)) \/ (\E r \in Replicas : Restart(r))
                 \/ Tick \/ LockExpires \/ RedisFails
  PROVE  TypeOK'
  <1>1. CASE \E t \in Tokens : Refresh(t)
    BY <1>1 DEF Refresh, TypeOK, cacheVars
  <1>2. CASE \E r \in Replicas : Restart(r)
    <2>1. PICK r \in Replicas : Restart(r)
      BY <1>2
    <2>2. /\ l1' \in [Replicas -> Tier]
          /\ req' \in [Requests -> UnderWay \union {Idle}]
          /\ adm' \in [Admins -> Invalidating \union {AdminIdle}]
      BY <2>1, InitialTiers DEF Restart, TypeOK
    <2> QED  BY <2>1, <2>2 DEF Restart, TypeOK, history
  <1>3. CASE Tick
    <2>1. ASSUME NEW c \in Requests, Moving(c)
          PROVE  [req[c] EXCEPT !.age = @ + 1] \in UnderWay
      <3>1. req[c] \in UnderWay /\ req[c].age < Slowness
        BY <1>3, <2>1, RequestFields DEF Tick, At, Moving
      <3> QED  BY <3>1 DEF UnderWay
    <2>2. req' \in [Requests -> UnderWay \union {Idle}]
      BY <1>3, <2>1 DEF Tick, At, Moving
    <2>3. l1' \in [Replicas -> Tier] /\ redis' \in Tier
      BY <1>3, TierFields DEF Tick, TypeOK
    <2>4. life' \in [Tokens -> 0 .. TokenTTL] /\ since' \in 0 .. Staleness + 1
      BY <1>3 DEF Tick, TypeOK, Staleness
    <2> QED  BY <1>3, <2>2, <2>3, <2>4 DEF Tick, TypeOK
  <1>4. CASE LockExpires
    <2>1. ASSUME NEW c \in Requests, Moving(c)
          PROVE  [req[c] EXCEPT !.user = Unlocked(@)] \in UnderWay
      BY <2>1, RequestFields, UserValues DEF UnderWay
    <2>2. req' \in [Requests -> UnderWay \union {Idle}]
      BY <1>4, <2>1 DEF LockExpires, At, Moving
    <2>3. l1' \in [Replicas -> Tier] /\ redis' \in Tier
      BY <1>4, TierFields DEF LockExpires, TypeOK
    <2> QED  BY <1>4, <2>2, <2>3, UserValues DEF LockExpires, TypeOK, history
  <1>5. CASE RedisFails
    BY <1>5 DEF RedisFails, TypeOK, cacheVars, history
  <1> QED  BY <1>1, <1>2, <1>3, <1>4, <1>5

LEMMA InitTypes == Init => TypeOK
  BY UserValues, InitialTiers DEF Init, TypeOK, Staleness

LEMMA TypeStep == TypeOK /\ [Next]_vars => TypeOK'
  <1> SUFFICES ASSUME TypeOK, [Next]_vars  PROVE TypeOK'
    OBVIOUS
  <1>1. CASE Next
    BY <1>1, RequestTypes, AdminTypes, WorldTypes DEF Next
  <1>2. CASE UNCHANGED vars
    BY <1>2 DEF vars, cacheVars, history, TypeOK
  <1> QED  BY <1>1, <1>2

\* Every variable of AccessCheck keeps its type: no copy outlives USER_CACHE_TTL_MS and
\* no entry of the denylist the life of a token, whoever wrote it.
THEOREM AccessTypes == Spec => []TypeOK
  BY InitTypes, TypeStep, PTL DEF Spec
-----------------------------------------------------------------------------
(* 2. The denylist.                                                         *)

\* What a request carries along while it moves.
LEMMA RequestOf ==
  ASSUME TypeOK, NEW c \in Requests, Moving(c)
  PROVE  /\ req[c].replica \in Replicas /\ req[c].token \in Tokens /\ req[c].user \in Users
         /\ req[c].age \in 0 .. Slowness
         /\ req[c].revoked \in BOOLEAN /\ req[c].settled \in BOOLEAN /\ req[c].excused \in BOOLEAN
  <1>1. req[c] \in UnderWay
    BY RequestFields
  <1> QED  BY <1>1 DEF UnderWay

LEMMA DenyRequests ==
  ASSUME DenyInv, NEW c \in Requests, RequestStep(c)
  PROVE  DeniedWhileAlive' /\ RevokedRequests'
  <1> USE DEF DenyInv, At, Moving
  <1>1. /\ req \in [Requests -> UnderWay \union {Idle}]
        /\ \A t \in Tokens : life[t] \in Nat /\ redis.denied[t] \in Nat
        /\ out \subseteq Tokens
    BY DEF TypeOK, Tier
  <1>2. /\ out' = out /\ life' = life
        /\ redis'.denied = redis.denied
        /\ \A d \in Requests : d # c => req'[d] = req[d]
    BY <1>1 DEF RequestStep, Arrive, LookupJti, LookupUser, FindById, StoreCopy, Decide, Served,
                cacheVars, history, PutCopy, TypeOK, Tier, Ends, GoesTo, Hit
  <1>3. DeniedWhileAlive'
    BY <1>2 DEF DeniedWhileAlive
  <1>4. ASSUME Moving(c)', req'[c].revoked
        PROVE  req'[c].token \in out /\ (req'[c].step # "jti" => req'[c].excused)
    <2>1. CASE \E r \in Replicas, t \in Tokens : Arrive(c, r, t)
      <3>1. PICK r \in Replicas, t \in Tokens : Arrive(c, r, t)
        BY <2>1
      <3>2. /\ req'[c].step = "jti" /\ req'[c].token = t
            /\ req'[c].revoked = (t \in out)
        BY <1>1, <3>1 DEF Arrive
      <3> QED  BY <1>4, <3>2
    <2>2. CASE LookupJti(c)
      <3>1. Moving(c) /\ ~Ends(c)
        BY <1>1, <1>4, <2>2 DEF LookupJti, Ends, Idle
      <3>2. /\ req'[c].token = req[c].token /\ req'[c].revoked = req[c].revoked
            /\ req'[c].excused = (~up \/ life[req[c].token] = 0)
            /\ up => ~(redis.denied[req[c].token] > 0)
        <4>1. req[c] \in UnderWay
          BY <3>1, RequestFields
        <4> QED  BY <1>1, <2>2, <3>1, <4>1 DEF LookupJti, UnderWay
      <3>3. req[c].token \in out
        BY <1>4, <3>1, <3>2 DEF RevokedRequests
      <3>4. redis.denied[req[c].token] >= life[req[c].token]
        BY <3>3 DEF DeniedWhileAlive
      <3>5. ~up \/ life[req[c].token] = 0
        BY <1>1, <3>2, <3>3, <3>4
      <3> QED  BY <3>2, <3>3, <3>5
    <2>3. ASSUME NEW s \in {"row", "set", "decide", "guard"}, NEW u, GoesTo(c, s, u), Moving(c),
                 req[c].step # "jti"
          PROVE  req'[c].token \in out /\ req'[c].excused
      <3>1. req[c] \in UnderWay
        BY <2>3, RequestFields
      <3>2. /\ req'[c].token = req[c].token /\ req'[c].revoked = req[c].revoked
            /\ req'[c].excused = req[c].excused
        BY <1>1, <2>3, <3>1 DEF GoesTo, UnderWay
      <3> QED  BY <1>4, <2>3, <3>2 DEF RevokedRequests
    <2>4. ~Ends(c)
      BY <1>1, <1>4 DEF Ends, Idle
    <2> QED  BY <2>1, <2>2, <2>3, <2>4
             DEF RequestStep, LookupUser, Hit, FindById, StoreCopy, Decide, Served
  <1>5. RevokedRequests'
    BY <1>2, <1>4 DEF RevokedRequests
  <1> QED  BY <1>3, <1>5

LEMMA DenyAdmins ==
  ASSUME DenyInv, NEW a \in Admins, AdminStep(a)
  PROVE  DeniedWhileAlive' /\ RevokedRequests'
  <1> USE DEF DenyInv, At, Moving
  <1>1. CASE \E r \in Replicas, op \in Changes : UpdateRow(a, r, op)
    <2>1. /\ out' = out /\ life' = life /\ redis' = redis
          /\ \A c \in Requests : Moving(c)' =>
               /\ Moving(c) /\ req'[c].step = req[c].step /\ req'[c].token = req[c].token
               /\ req'[c].revoked = req[c].revoked /\ req'[c].excused = req[c].excused
      <3>1. ASSUME NEW c \in Requests, Moving(c)
            PROVE  req[c] \in UnderWay
        BY <3>1, RequestFields
      <3> QED  BY <1>1, <3>1 DEF UpdateRow, cacheVars, UnderWay, Idle
    <2> QED  BY <2>1 DEF DeniedWhileAlive, RevokedRequests
  <1>2. CASE InvalidateUserCache(a)
    <2>1. out' = out /\ life' = life /\ req' = req /\ redis'.denied = redis.denied
      BY <1>2 DEF InvalidateUserCache, Forget, PutCopy, TypeOK, Tier
    <2> QED  BY <2>1 DEF DeniedWhileAlive, RevokedRequests
  <1>3. ASSUME NEW r \in Replicas, NEW T \in SUBSET Tokens, Denylist(a, r, T)
        PROVE  DeniedWhileAlive' /\ RevokedRequests'
    <2>1. /\ life' = life /\ req' = req /\ out' = IF up THEN out \union T ELSE out
          /\ out \subseteq Tokens /\ life \in [Tokens -> 0 .. TokenTTL]
      BY <1>3 DEF Denylist, TypeOK
    <2>2. redis'.denied = IF up THEN [t \in Tokens |-> IF t \in T THEN TokenTTL ELSE redis.denied[t]]
                                ELSE redis.denied
      BY <1>3 DEF Denylist, PutDenied, DenyFor, TypeOK, Tier
    <2> QED  BY <2>1, <2>2 DEF DeniedWhileAlive, RevokedRequests
  <1>4. CASE RevokeAllUserSessions(a)
    <2>1. adm[a].replica \in Replicas
      BY <1>4 DEF RevokeAllUserSessions, TypeOK, AdminIdle, Invalidating
    <2> QED  BY <1>3, <1>4, <2>1 DEF RevokeAllUserSessions
  <1>5. CASE \E r \in Replicas, t \in Tokens : Logout(a, r, t)
    BY <1>3, <1>5 DEF Logout
  <1> QED  BY <1>1, <1>2, <1>4, <1>5 DEF AdminStep

LEMMA DenyWorld ==
  ASSUME DenyInv, (\E t \in Tokens : Refresh(t)) \/ (\E r \in Replicas : Restart(r))
                  \/ Tick \/ LockExpires \/ RedisFails
  PROVE  DeniedWhileAlive' /\ RevokedRequests'
  <1> USE DEF DenyInv, At, Moving
  <1>0. /\ life \in [Tokens -> 0 .. TokenTTL] /\ out \subseteq Tokens
        /\ redis.denied \in [Tokens -> 0 .. TokenTTL]
    BY DEF TypeOK, Tier
  <1>1. CASE \E t \in Tokens : Refresh(t)
    BY <1>0, <1>1 DEF Refresh, cacheVars, DeniedWhileAlive, RevokedRequests
  <1>2. CASE \E r \in Replicas : Restart(r)
    BY <1>2 DEF Restart, history, DeniedWhileAlive, RevokedRequests, Idle
  <1>3. CASE Tick
    <2>1. redis'.denied = [t \in Tokens |-> IF redis.denied[t] = 0 THEN 0 ELSE redis.denied[t] - 1]
      BY <1>3 DEF Tick, Older
    <2>2. DeniedWhileAlive'
      BY <1>0, <1>3, <2>1 DEF Tick, DeniedWhileAlive
    <2>3. \A c \in Requests : Moving(c)' =>
               /\ Moving(c) /\ req'[c].step = req[c].step /\ req'[c].token = req[c].token
               /\ req'[c].revoked = req[c].revoked /\ req'[c].excused = req[c].excused
      <3>1. ASSUME NEW c \in Requests, Moving(c)
            PROVE  req[c] \in UnderWay
        BY <3>1, RequestFields
      <3> QED  BY <1>3, <3>1 DEF Tick, UnderWay, Idle
    <2> QED  BY <1>3, <2>2, <2>3 DEF Tick, RevokedRequests
  <1>4. CASE LockExpires
    <2>1. redis'.denied = redis.denied /\ life' = life /\ out' = out
      BY <1>4 DEF LockExpires, history, TypeOK, Tier
    <2>2. \A c \in Requests : Moving(c)' =>
               /\ Moving(c) /\ req'[c].step = req[c].step /\ req'[c].token = req[c].token
               /\ req'[c].revoked = req[c].revoked /\ req'[c].excused = req[c].excused
      <3>1. ASSUME NEW c \in Requests, Moving(c)
            PROVE  req[c] \in UnderWay
        BY <3>1, RequestFields
      <3> QED  BY <1>4, <3>1 DEF LockExpires, UnderWay, Idle
    <2> QED  BY <2>1, <2>2 DEF DeniedWhileAlive, RevokedRequests
  <1>5. CASE RedisFails
    BY <1>5 DEF RedisFails, cacheVars, history, DeniedWhileAlive, RevokedRequests
  <1> QED  BY <1>1, <1>2, <1>3, <1>4, <1>5

LEMMA InitDeny == Init => DenyInv
  BY InitTypes DEF Init, DenyInv, DeniedWhileAlive, RevokedRequests, Moving, Idle

LEMMA DenyStep == DenyInv /\ [Next]_vars => DenyInv'
  <1> SUFFICES ASSUME DenyInv, [Next]_vars  PROVE DeniedWhileAlive' /\ RevokedRequests'
    BY TypeStep DEF DenyInv
  <1>1. CASE Next
    BY <1>1, DenyRequests, DenyAdmins, DenyWorld DEF Next
  <1>2. CASE UNCHANGED vars
    BY <1>2 DEF vars, cacheVars, history, DenyInv, DeniedWhileAlive, RevokedRequests, Moving
  <1> QED  BY <1>1, <1>2

\* A token that was reported as revoked before the request came is refused on every
\* replica, unless Redis could not be asked or the token has expired meanwhile: what
\* JwtStrategy asks of the denylist meets what logout and the mass revocation enter.
THEOREM RevokedRefused == Spec => []RevokedIsRefused
  <1>1. DenyInv => RevokedIsRefused
    BY DEF DenyInv, RevokedRequests, RevokedIsRefused, LetIn, At, Moving
  <1> QED  BY <1>1, InitDeny, DenyStep, PTL DEF Spec
-----------------------------------------------------------------------------
(* 3. The copies of the user.                                               *)

LEMMA PutCopyTiers ==
  ASSUME TypeOK, NEW r \in Replicas, NEW copy, PutCopy(r, copy)
  PROVE  /\ \A q \in Replicas : l1'[q].copy = IF q = r THEN copy ELSE l1[q].copy
         /\ redis'.copy = IF up THEN copy ELSE redis.copy
  BY DEF TypeOK, Tier, PutCopy

LEMMA PutDeniedTiers ==
  ASSUME TypeOK, NEW r \in Replicas, NEW T \in SUBSET Tokens, PutDenied(r, T, TokenTTL)
  PROVE  /\ \A q \in Replicas : l1'[q].copy = l1[q].copy
         /\ redis'.copy = redis.copy
  BY DEF TypeOK, Tier, PutDenied

\* What a step of a request does to the copies, and where it takes its own user from.
LEMMA RequestCopies ==
  ASSUME TypeOK, NEW c \in Requests, RequestStep(c)
  PROVE  /\ row' = row /\ since' = since /\ settled' = settled
         /\ \A d \in Requests \ {c} : req'[d] = req[d]
         /\ \/ /\ \A q \in Replicas : l1'[q].copy = l1[q].copy
               /\ redis'.copy = redis.copy
            \/ /\ req[c].step = "set" /\ req[c].replica \in Replicas
               /\ PutCopy(req[c].replica, [user |-> req[c].user, left |-> UserTTL])
  <1>1. CASE StoreCopy(c)
    <2>1. req[c].replica \in Replicas
      BY <1>1, RequestOf DEF StoreCopy, At, Moving
    <2> QED  BY <1>1, <2>1 DEF StoreCopy, At, CopyTTL, history, GoesTo, Ends, TypeOK
  <1>2. CASE ~StoreCopy(c)
    BY <1>2 DEF RequestStep, Arrive, LookupJti, LookupUser, FindById, Decide, Served,
                cacheVars, history, TypeOK, Ends, GoesTo, Hit
  <1> QED  BY <1>1, <1>2

LEMMA RequestMoves ==
  ASSUME TypeOK, NEW c \in Requests, RequestStep(c), Moving(c)'
  PROVE  \/ \E r \in Replicas, t \in Tokens : Arrive(c, r, t)
         \/ LookupJti(c) /\ req'[c].step = "user" /\ req'[c].settled = req[c].settled
                         /\ req'[c].replica = req[c].replica
         \/ /\ Moving(c) /\ req'[c].age = req[c].age
            /\ req'[c].settled = req[c].settled /\ req'[c].replica = req[c].replica
            /\ \/ req'[c].step = "row"
               \/ req'[c].step = "set" /\ req'[c].user = row
               \/ /\ req'[c].step = "decide" /\ req'[c].user = req[c].user
                  /\ req[c].step = "set"
               \/ /\ req'[c].step = "decide" /\ req'[c].user = l1[req[c].replica].copy.user
                  /\ l1[req[c].replica].copy # NoCopy
               \/ /\ req'[c].step = "decide" /\ req'[c].user = redis.copy.user
                  /\ redis.copy # NoCopy
               \/ /\ req'[c].step = "guard" /\ req'[c].user = req[c].user
                  /\ req[c].step = "decide"
  <1> USE DEF At, Moving
  <1>0. req \in [Requests -> UnderWay \union {Idle}]
    BY DEF TypeOK
  <1>1. ~Ends(c)
    BY <1>0 DEF Ends, Idle
  <1>2. ASSUME Moving(c), NEW s, NEW u, GoesTo(c, s, u)
        PROVE  /\ req'[c].step = s /\ req'[c].user = u /\ req'[c].age = req[c].age
               /\ req'[c].settled = req[c].settled /\ req'[c].replica = req[c].replica
    <2>1. req[c] \in UnderWay
      BY <1>2, RequestFields
    <2> QED  BY <1>0, <1>2, <2>1 DEF GoesTo, UnderWay
  <1>3. CASE LookupJti(c)
    <2>1. req[c] \in UnderWay
      BY <1>3, RequestFields DEF LookupJti
    <2> QED  BY <1>0, <1>1, <1>3, <2>1 DEF LookupJti, UnderWay
  <1>4. CASE LookupUser(c)
    BY <1>1, <1>2, <1>4 DEF LookupUser, Hit, HasCopy
  <1>5. CASE FindById(c)
    BY <1>2, <1>5 DEF FindById
  <1>6. CASE StoreCopy(c)
    BY <1>1, <1>2, <1>6 DEF StoreCopy
  <1>7. CASE Decide(c)
    BY <1>1, <1>2, <1>7 DEF Decide
  <1> QED  BY <1>1, <1>3, <1>4, <1>5, <1>6, <1>7 DEF RequestStep, Served

LEMMA LagRequests ==
  ASSUME LagInv, NEW c \in Requests, RequestStep(c)
  PROVE  CopiesInTime' /\ RequestsInTime'
  <1> USE DEF LagInv, Moving
  <1>0. /\ row' = row /\ since' = since /\ since \in Nat
        /\ \A d \in Requests \ {c} : req'[d] = req[d]
    <2>1. since \in Nat
      BY DEF TypeOK
    <2> QED  BY <2>1, RequestCopies
  <1>1. CopiesInTime'
    <2>1. CASE /\ \A q \in Replicas : l1'[q].copy = l1[q].copy
               /\ redis'.copy = redis.copy
      BY <1>0, <2>1 DEF CopiesInTime, CopyInTime
    <2>2. CASE /\ req[c].step = "set" /\ req[c].replica \in Replicas
               /\ PutCopy(req[c].replica, [user |-> req[c].user, left |-> UserTTL])
      <3> DEFINE copy == [user |-> req[c].user, left |-> UserTTL]
      <3>1. req[c].user = row \/ since <= Slowness
        <4>1. req[c].age \in 0 .. Slowness
          BY <2>2, RequestOf
        <4> QED  BY <1>0, <2>2, <4>1 DEF RequestsInTime
      <3>2. CopyInTime(copy)
        BY <1>0, <3>1 DEF CopyInTime
      <3>3. /\ \A q \in Replicas : l1'[q].copy = copy \/ l1'[q].copy = l1[q].copy
            /\ redis'.copy = copy \/ redis'.copy = redis.copy
        BY <2>2, PutCopyTiers
      <3> HIDE DEF copy
      <3> QED  BY <1>0, <3>2, <3>3 DEF CopiesInTime, CopyInTime
    <2> QED  BY <2>1, <2>2, RequestCopies
  <1>2. RequestsInTime'
    <2>1. ASSUME NEW copy \in {redis.copy} \union {l1[r].copy : r \in Replicas}, copy # NoCopy
          PROVE  copy.user = row \/ since <= Slowness + UserTTL - 1
      <3>1. CopyInTime(copy)
        BY <2>1 DEF CopiesInTime
      <3>2. copy.left \in Nat
        BY <2>1 DEF TypeOK, Tier
      <3> QED  BY <1>0, <2>1, <3>1, <3>2 DEF CopyInTime
    <2>2. ASSUME Moving(c)', Moving(c), req'[c].age = req[c].age,
                 req'[c].step \in {"set", "decide", "guard"}
          PROVE  /\ req'[c].step = "set" => req'[c].user = row \/ since <= req'[c].age
                 /\ req'[c].step \in {"decide", "guard"} =>
                      req'[c].user = row \/ since <= Slowness + UserTTL - 1 + req'[c].age
      <3>1. req[c].age \in Nat /\ req[c].replica \in Replicas
        BY <2>2, RequestOf
      <3>2. CASE \E r \in Replicas, t \in Tokens : Arrive(c, r, t)
        BY <2>2, <3>2 DEF Arrive, At
      <3>3. CASE \/ req'[c].step = "set" /\ req'[c].user = row
                 \/ /\ req'[c].step = "decide" /\ req'[c].user = req[c].user
                    /\ req[c].step = "set"
                 \/ /\ req'[c].step = "guard" /\ req'[c].user = req[c].user
                    /\ req[c].step = "decide"
        BY <1>0, <2>2, <3>1, <3>3 DEF RequestsInTime
      <3>4. CASE \/ /\ req'[c].step = "decide" /\ req'[c].user = l1[req[c].replica].copy.user
                    /\ l1[req[c].replica].copy # NoCopy
                 \/ /\ req'[c].step = "decide" /\ req'[c].user = redis.copy.user
                    /\ redis.copy # NoCopy
        BY <1>0, <2>1, <2>2, <3>1, <3>4
      <3> QED  BY <2>2, <3>2, <3>3, <3>4, RequestMoves
    <2>3. req'[c].step \in {"set", "decide", "guard"} => Moving(c)' /\ Moving(c) /\ req'[c].age = req[c].age
      <3>1. (\E r \in Replicas, t \in Tokens : Arrive(c, r, t)) => req'[c].step = "jti"
        BY DEF Arrive, TypeOK
      <3> QED  BY <3>1, RequestMoves
    <2> QED  BY <1>0, <2>2, <2>3 DEF RequestsInTime
  <1> QED  BY <1>1, <1>2

\* A copy and a request keep their distance when the row and the time stay.
LEMMA LagKept ==
  ASSUME LagInv, row' = row, since' = since,
         \A r \in Replicas : l1'[r].copy \in {l1[r].copy, NoCopy},
         redis'.copy \in {redis.copy, NoCopy},
         \A c \in Requests : req'[c] = req[c] \/ req'[c] = Idle
  PROVE  CopiesInTime' /\ RequestsInTime'
  <1>1. CopiesInTime'
    BY DEF LagInv, CopiesInTime, CopyInTime
  <1>2. RequestsInTime'
    BY DEF LagInv, RequestsInTime, Idle
  <1> QED  BY <1>1, <1>2

LEMMA LagAdmins ==
  ASSUME LagInv, NEW a \in Admins, AdminStep(a)
  PROVE  CopiesInTime' /\ RequestsInTime'
  <1> USE DEF LagInv, At, Moving
  <1>1. CASE \E r \in Replicas, op \in Changes : UpdateRow(a, r, op)
    <2>1. since' = 0 /\ l1' = l1 /\ redis' = redis
      BY <1>1 DEF UpdateRow, cacheVars
    <2>2. CopiesInTime'
      <3>1. ASSUME NEW tier \in Tier, CopyInTime(tier.copy)
            PROVE  tier.copy = NoCopy \/ (tier.copy.left >= 1 /\ tier.copy.left <= UserTTL)
        BY <3>1 DEF Tier, CopyInTime
      <3>2. redis \in Tier /\ \A r \in Replicas : l1[r] \in Tier
        BY DEF TypeOK
      <3>3. ASSUME NEW tier \in Tier, CopyInTime(tier.copy)
            PROVE  \/ tier.copy = NoCopy
                   \/ tier.copy.left >= 1 /\ 0 + tier.copy.left <= Slowness + UserTTL
        BY <3>1, <3>3 DEF Tier
      <3> QED  BY <2>1, <3>2, <3>3 DEF CopiesInTime, CopyInTime
    <2>3. \A c \in Requests : Moving(c)' => req'[c].age \in 0 .. Slowness
      <3>1. TypeOK'
        BY AdminTypes
      <3> QED  BY <3>1 DEF TypeOK, UnderWay, Idle
    <2> QED  BY <2>1, <2>2, <2>3 DEF RequestsInTime
  <1>2. CASE InvalidateUserCache(a)
    <2>1. adm[a].replica \in Replicas
      BY <1>2 DEF InvalidateUserCache, TypeOK, AdminIdle, Invalidating
    <2>2. /\ \A q \in Replicas : l1'[q].copy = IF q = adm[a].replica THEN NoCopy ELSE l1[q].copy
          /\ redis'.copy = IF up THEN NoCopy ELSE redis.copy
      BY <1>2, <2>1, PutCopyTiers DEF InvalidateUserCache, Forget
    <2> QED  BY <1>2, <2>2, LagKept DEF InvalidateUserCache
  <1>3. ASSUME NEW r \in Replicas, NEW T \in SUBSET Tokens, Denylist(a, r, T)
        PROVE  CopiesInTime' /\ RequestsInTime'
    <2>1. /\ \A q \in Replicas : l1'[q].copy = l1[q].copy
          /\ redis'.copy = redis.copy
      BY <1>3, PutDeniedTiers DEF Denylist, DenyFor
    <2> QED  BY <1>3, <2>1, LagKept DEF Denylist
  <1>4. CASE RevokeAllUserSessions(a)
    <2>1. adm[a].replica \in Replicas
      BY <1>4 DEF RevokeAllUserSessions, TypeOK, AdminIdle, Invalidating
    <2> QED  BY <1>3, <1>4, <2>1 DEF RevokeAllUserSessions
  <1>5. CASE \E r \in Replicas, t \in Tokens : Logout(a, r, t)
    BY <1>3, <1>5 DEF Logout
  <1> QED  BY <1>1, <1>2, <1>4, <1>5 DEF AdminStep

\* One more tick since the change, one less of the copy's life.
LEMMA LagTick ==
  ASSUME LagInv, Tick
  PROVE  CopiesInTime' /\ RequestsInTime'
  <1> USE DEF LagInv, At, Moving
  <1>0. /\ row' = row /\ since \in Nat
        /\ since' = IF since > Staleness THEN since ELSE since + 1
        /\ redis \in Tier /\ \A r \in Replicas : l1[r] \in Tier
    BY DEF Tick, TypeOK
  <1>1. ASSUME NEW tier \in Tier, CopyInTime(tier.copy)
        PROVE  \/ Older(tier).copy = NoCopy
               \/ /\ Older(tier).copy.left >= 1
                  /\ \/ Older(tier).copy.user = row
                     \/ since' + Older(tier).copy.left <= Slowness + UserTTL
    <2>1. /\ Older(tier).copy = IF tier.copy.left <= 1 THEN NoCopy
                                ELSE [tier.copy EXCEPT !.left = @ - 1]
          /\ tier.copy.left \in Nat
          /\ tier.copy \in [user : Users, left : 0 .. UserTTL]
      BY DEF Older, Tier
    <2>2. CASE tier.copy.left <= 1
      BY <2>1, <2>2
    <2>3. CASE tier.copy.left >= 2
      <3>1. tier.copy # NoCopy
        BY <2>3 DEF NoCopy
      <3>2. Older(tier).copy.left = tier.copy.left - 1 /\ Older(tier).copy.user = tier.copy.user
        BY <2>1, <2>3
      <3> QED  BY <1>0, <1>1, <2>1, <2>3, <3>1, <3>2 DEF CopyInTime
    <2> QED  BY <2>1, <2>2, <2>3
  <1>2. CopiesInTime'
    <2>1. redis' = Older(redis) /\ \A r \in Replicas : l1'[r] = Older(l1[r])
      BY DEF Tick
    <2> QED  BY <1>0, <1>1, <2>1 DEF CopiesInTime, CopyInTime
  <1>3. RequestsInTime'
    <2>1. ASSUME NEW c \in Requests, Moving(c)'
          PROVE  /\ Moving(c) /\ req'[c].step = req[c].step /\ req'[c].user = req[c].user
                 /\ req'[c].age = req[c].age + 1 /\ req[c].age \in Nat
      <3>1. Moving(c)
        BY <2>1 DEF Tick, Idle
      <3>2. req[c] \in UnderWay
        BY <3>1, RequestFields
      <3> QED  BY <3>1, <3>2 DEF Tick, UnderWay
    <2> QED  BY <1>0, <2>1 DEF RequestsInTime
  <1> QED  BY <1>2, <1>3

LEMMA UnlockedTiers ==
  ASSUME TypeOK, LockExpires
  PROVE  /\ \A r \in Replicas : l1'[r].copy.user = Unlocked(l1[r].copy.user)
                                /\ l1'[r].copy.left = l1[r].copy.left
                                /\ (l1[r].copy = NoCopy => l1'[r].copy = NoCopy)
         /\ redis'.copy.user = Unlocked(redis.copy.user) /\ redis'.copy.left = redis.copy.left
         /\ redis.copy = NoCopy => redis'.copy = NoCopy
         /\ \A c \in Requests : Moving(c)' =>
              /\ Moving(c) /\ req'[c].step = req[c].step /\ req'[c].age = req[c].age
              /\ req'[c].user = Unlocked(req[c].user)
              /\ req'[c].settled = req[c].settled /\ req'[c].replica = req[c].replica
         /\ row' = Unlocked(row) /\ since' = since /\ settled' = settled
  <1>1. ASSUME NEW tier \in Tier
        PROVE  LET new == [tier EXCEPT !.copy.user = Unlocked(@)] IN
               /\ new.copy.user = Unlocked(tier.copy.user) /\ new.copy.left = tier.copy.left
               /\ tier.copy = NoCopy => new.copy = NoCopy
    <2>1. Unlocked(Nobody) = Nobody
      <3>1. Unlocked(Nobody) \in Users /\ Nobody \in Users
        BY UserValues
      <3>2. /\ Unlocked(Nobody).active = Nobody.active /\ Unlocked(Nobody).locked = Nobody.locked
            /\ Unlocked(Nobody).role = Nobody.role
        BY DEF Unlocked, Nobody
      <3> QED  BY <3>1, <3>2 DEF Users
    <2> QED  BY <2>1 DEF Tier, NoCopy
  <1>2. /\ \A r \in Replicas : l1[r] \in Tier /\ l1'[r] = [l1[r] EXCEPT !.copy.user = Unlocked(@)]
        /\ redis \in Tier /\ redis' = [redis EXCEPT !.copy.user = Unlocked(@)]
    BY DEF LockExpires, TypeOK
  <1>3. ASSUME NEW c \in Requests, Moving(c)'
        PROVE  /\ Moving(c) /\ req'[c].step = req[c].step /\ req'[c].age = req[c].age
               /\ req'[c].user = Unlocked(req[c].user)
               /\ req'[c].settled = req[c].settled /\ req'[c].replica = req[c].replica
    <2>1. Moving(c)
      BY <1>3 DEF LockExpires, Idle, Moving, At
    <2>2. req[c] \in UnderWay
      BY <2>1, RequestFields
    <2> QED  BY <2>1, <2>2 DEF LockExpires, UnderWay, Moving, At
  <1>4. ASSUME NEW r \in Replicas
        PROVE  /\ l1'[r].copy.user = Unlocked(l1[r].copy.user)
               /\ l1'[r].copy.left = l1[r].copy.left
               /\ l1[r].copy = NoCopy => l1'[r].copy = NoCopy
    <2>1. l1[r] \in Tier /\ l1'[r] = [l1[r] EXCEPT !.copy.user = Unlocked(@)]
      BY <1>2
    <2> QED  BY <1>1, <2>1
  <1>5. /\ redis'.copy.user = Unlocked(redis.copy.user) /\ redis'.copy.left = redis.copy.left
        /\ redis.copy = NoCopy => redis'.copy = NoCopy
    BY <1>1, <1>2
  <1>6. row' = Unlocked(row) /\ since' = since /\ settled' = settled
    BY DEF LockExpires, history
  <1> QED  BY <1>3, <1>4, <1>5, <1>6

LEMMA LagWorld ==
  ASSUME LagInv, (\E t \in Tokens : Refresh(t)) \/ (\E r \in Replicas : Restart(r))
                 \/ LockExpires \/ RedisFails
  PROVE  CopiesInTime' /\ RequestsInTime'
  <1> USE DEF LagInv, Moving
  <1>1. CASE (\E t \in Tokens : Refresh(t)) \/ RedisFails
    BY <1>1, LagKept DEF Refresh, RedisFails, cacheVars, history
  <1>2. CASE \E r \in Replicas : Restart(r)
    <2>1. \A r \in Replicas : l1'[r].copy \in {l1[r].copy, NoCopy}
      BY <1>2 DEF Restart, TypeOK, EmptyTier
    <2> QED  BY <1>2, <2>1, LagKept DEF Restart, history
  <1>3. CASE LockExpires
    <2>1. CopiesInTime'
      BY <1>3, UnlockedTiers DEF CopiesInTime, CopyInTime
    <2>2. RequestsInTime'
      BY <1>3, UnlockedTiers DEF RequestsInTime
    <2> QED  BY <2>1, <2>2
  <1> QED  BY <1>1, <1>2, <1>3

LEMMA InitLag == Init => LagInv
  <1> SUFFICES ASSUME Init  PROVE CopiesInTime /\ RequestsInTime
    BY InitTypes DEF LagInv
  <1> QED  BY DEF Init, CopiesInTime, CopyInTime, RequestsInTime, EmptyTier, Idle

LEMMA LagStep == LagInv /\ [Next]_vars => LagInv'
  <1> SUFFICES ASSUME LagInv, [Next]_vars  PROVE CopiesInTime' /\ RequestsInTime'
    BY TypeStep DEF LagInv
  <1>1. CASE Next
    BY <1>1, LagRequests, LagAdmins, LagTick, LagWorld DEF Next
  <1>2. CASE UNCHANGED vars
    BY <1>2, LagKept DEF vars, cacheVars, history
  <1> QED  BY <1>1, <1>2

\* No request is decided on a copy that is further behind the row than a copy lives and
\* two requests are under way: the one of validate that stores it, and the one that
\* finds it.  No order of invalidations, failures or restarts makes it longer.
THEOREM DecisionsAreRecent == Spec => []DecidedOnRecentRow
  <1>1. LagInv => DecidedOnRecentRow
    <2> SUFFICES ASSUME LagInv, NEW c \in Requests, req[c].step \in {"decide", "guard"}
                 PROVE  req[c].user = row \/ since <= Staleness
      BY DEF DecidedOnRecentRow, LetIn, At
    <2>1. req[c].age \in 0 .. Slowness /\ since \in Nat
      <3>1. TypeOK /\ Moving(c)
        BY DEF LagInv, Moving
      <3> QED  BY <3>1, RequestOf DEF TypeOK
    <2> QED  BY <2>1 DEF LagInv, RequestsInTime, Staleness
  <1> QED  BY <1>1, InitLag, LagStep, PTL DEF Spec
-----------------------------------------------------------------------------
(* 4. A replica that has invalidated the last change.                       *)

LEMMA FreshRequests ==
  ASSUME FreshInv, NEW c \in Requests, RequestStep(c)
  PROVE  SettledTiers' /\ SettledRequests'
  <1> USE DEF FreshInv, Moving
  <1>0. row' = row /\ settled' = settled /\ \A d \in Requests \ {c} : req'[d] = req[d]
    BY RequestCopies
  <1>1. SettledTiers'
    <2>1. CASE /\ \A q \in Replicas : l1'[q].copy = l1[q].copy
               /\ redis'.copy = redis.copy
      BY <1>0, <2>1 DEF SettledTiers, IsFresh, TypeOK
    <2>2. CASE /\ req[c].step = "set" /\ req[c].replica \in Replicas
               /\ PutCopy(req[c].replica, [user |-> req[c].user, left |-> UserTTL])
      <3> DEFINE copy == [user |-> req[c].user, left |-> UserTTL]
      <3>1. settled # {} => IsFresh(copy)
        BY <2>2 DEF SettledRequests, IsFresh
      <3>2. /\ \A q \in Replicas : l1'[q].copy = copy \/ l1'[q].copy = l1[q].copy
            /\ redis'.copy = copy \/ redis'.copy = redis.copy
        BY <2>2, PutCopyTiers
      <3> HIDE DEF copy
      <3> QED  BY <1>0, <3>1, <3>2 DEF SettledTiers, IsFresh, TypeOK
    <2> QED  BY <2>1, <2>2, RequestCopies
  <1>2. ASSUME Moving(c)'
        PROVE  /\ req'[c].step = "set" /\ settled # {} => req'[c].user = row
               /\ req'[c].settled => req'[c].replica \in settled
               /\ req'[c].settled /\ req'[c].step \in {"decide", "guard"} => req'[c].user = row
    <2>1. CASE \E r \in Replicas, t \in Tokens : Arrive(c, r, t)
      <3>1. PICK r \in Replicas, t \in Tokens : Arrive(c, r, t)
        BY <2>1
      <3>2. /\ req'[c].step = "jti" /\ req'[c].replica = r
            /\ req'[c].settled = (r \in settled)
        BY <3>1 DEF Arrive, TypeOK
      <3> QED  BY <3>2
    <2>2. CASE ~ \E r \in Replicas, t \in Tokens : Arrive(c, r, t)
      <3>1. Moving(c) /\ req'[c].settled = req[c].settled /\ req'[c].replica = req[c].replica
        BY <1>2, <2>2, RequestMoves DEF LookupJti, At
      <3>2. req'[c].settled => req'[c].replica \in settled
        BY <3>1 DEF SettledRequests
      <3>3. ASSUME req'[c].settled, req'[c].step \in {"decide", "guard"}
            PROVE  req'[c].user = row
        <4>1. req[c].replica \in settled
          BY <3>1, <3>2, <3>3
        <4> QED  BY <1>2, <2>2, <3>1, <3>3, <4>1, RequestMoves
                 DEF SettledRequests, SettledTiers, IsFresh
      <3>4. req'[c].step = "set" => req'[c].user = row
        BY <1>2, <2>2, RequestMoves
      <3> QED  BY <3>2, <3>3, <3>4
    <2> QED  BY <2>1, <2>2
  <1>3. SettledRequests'
    BY <1>0, <1>2 DEF SettledRequests
  <1> QED  BY <1>1, <1>3

\* A step that lets no copy in and changes no request but to end it.
LEMMA FreshKept ==
  ASSUME FreshInv, row' = row, settled' = settled,
         \A r \in Replicas : l1'[r].copy \in {l1[r].copy, NoCopy},
         redis'.copy \in {redis.copy, NoCopy},
         \A c \in Requests : req'[c] = req[c] \/ req'[c] = Idle
  PROVE  SettledTiers' /\ SettledRequests'
  <1>1. SettledTiers'
    BY DEF FreshInv, TypeOK, SettledTiers, IsFresh
  <1>2. SettledRequests'
    BY DEF FreshInv, SettledRequests, Idle, Moving
  <1> QED  BY <1>1, <1>2

LEMMA FreshAdmins ==
  ASSUME FreshInv, NEW a \in Admins, AdminStep(a)
  PROVE  SettledTiers' /\ SettledRequests'
  <1> USE DEF FreshInv, At, Moving
  <1>1. CASE \E r \in Replicas, op \in Changes : UpdateRow(a, r, op)
    <2>1. settled' = {}
      BY <1>1 DEF UpdateRow
    <2>2. \A c \in Requests : Moving(c)' => ~req'[c].settled
      <3>1. ASSUME NEW c \in Requests, Moving(c)
            PROVE  req[c] \in UnderWay
        BY <3>1, RequestFields
      <3> QED  BY <1>1, <3>1 DEF UpdateRow, UnderWay, Idle
    <2> QED  BY <2>1, <2>2 DEF SettledTiers, SettledRequests
  <1>2. CASE InvalidateUserCache(a)
    <2>1. adm[a].replica \in Replicas /\ row' = row /\ req' = req
      BY <1>2 DEF InvalidateUserCache, TypeOK, AdminIdle, Invalidating
    <2>2. /\ \A q \in Replicas : l1'[q].copy = IF q = adm[a].replica THEN NoCopy ELSE l1[q].copy
          /\ redis'.copy = IF up THEN NoCopy ELSE redis.copy
      BY <1>2, <2>1, PutCopyTiers DEF InvalidateUserCache, Forget
    <2>3. CASE up /\ ~WritesBack /\ settled' = settled \union {adm[a].replica}
      <3>1. SettledTiers'
        BY <2>1, <2>2, <2>3 DEF SettledTiers, IsFresh, TypeOK
      <3>2. SettledRequests'
        BY <2>1, <2>3 DEF SettledRequests, WritesBack
      <3> QED  BY <3>1, <3>2
    <2>4. CASE settled' = settled
      BY <2>1, <2>2, <2>4, FreshKept
    <2> QED  BY <1>2, <2>3, <2>4 DEF InvalidateUserCache
  <1>3. ASSUME NEW r \in Replicas, NEW T \in SUBSET Tokens, Denylist(a, r, T)
        PROVE  SettledTiers' /\ SettledRequests'
    <2>1. /\ \A q \in Replicas : l1'[q].copy = l1[q].copy
          /\ redis'.copy = redis.copy
      BY <1>3, PutDeniedTiers DEF Denylist, DenyFor
    <2> QED  BY <1>3, <2>1, FreshKept DEF Denylist
  <1>4. CASE RevokeAllUserSessions(a)
    <2>1. adm[a].replica \in Replicas
      BY <1>4 DEF RevokeAllUserSessions, TypeOK, AdminIdle, Invalidating
    <2> QED  BY <1>3, <1>4, <2>1 DEF RevokeAllUserSessions
  <1>5. CASE \E r \in Replicas, t \in Tokens : Logout(a, r, t)
    BY <1>3, <1>5 DEF Logout
  <1> QED  BY <1>1, <1>2, <1>4, <1>5 DEF AdminStep

LEMMA FreshWorld ==
  ASSUME FreshInv, (\E t \in Tokens : Refresh(t)) \/ (\E r \in Replicas : Restart(r))
                   \/ Tick \/ LockExpires \/ RedisFails
  PROVE  SettledTiers' /\ SettledRequests'
  <1> USE DEF FreshInv, At, Moving
  <1>1. CASE (\E t \in Tokens : Refresh(t)) \/ RedisFails
    BY <1>1, FreshKept DEF Refresh, RedisFails, cacheVars, history
  <1>2. CASE \E r \in Replicas : Restart(r)
    <2>1. \A r \in Replicas : l1'[r].copy \in {l1[r].copy, NoCopy}
      BY <1>2 DEF Restart, TypeOK, EmptyTier
    <2> QED  BY <1>2, <2>1, FreshKept DEF Restart, history
  <1>3. CASE Tick
    <2>1. /\ row' = row /\ settled' = settled /\ settled \subseteq Replicas
          /\ redis' = Older(redis) /\ \A r \in Replicas : l1'[r] = Older(l1[r])
          /\ redis \in Tier /\ \A r \in Replicas : l1[r] \in Tier
      BY <1>3 DEF Tick, TypeOK
    <2>2. ASSUME NEW tier \in Tier, IsFresh(tier.copy)
          PROVE  Older(tier).copy = NoCopy \/ Older(tier).copy.user = row
      <3>1. /\ Older(tier).copy = IF tier.copy.left <= 1 THEN NoCopy
                                  ELSE [tier.copy EXCEPT !.left = @ - 1]
            /\ tier.copy \in [user : Users, left : 0 .. UserTTL]
        BY DEF Older, Tier
      <3> QED  BY <2>2, <3>1 DEF IsFresh, NoCopy
    <2>3. SettledTiers'
      BY <2>1, <2>2 DEF SettledTiers, IsFresh
    <2>4. ASSUME NEW c \in Requests, Moving(c)'
          PROVE  /\ Moving(c) /\ req'[c].step = req[c].step /\ req'[c].user = req[c].user
                 /\ req'[c].settled = req[c].settled /\ req'[c].replica = req[c].replica
      <3>1. Moving(c)
        BY <1>3, <2>4 DEF Tick, Idle
      <3>2. req[c] \in UnderWay
        BY <3>1, RequestFields
      <3> QED  BY <1>3, <3>1, <3>2 DEF Tick, UnderWay
    <2>5. SettledRequests'
      BY <2>1, <2>4 DEF SettledRequests
    <2> QED  BY <2>3, <2>5
  <1>4. CASE LockExpires
    <2>1. SettledTiers'
      BY <1>4, UnlockedTiers DEF SettledTiers, IsFresh, TypeOK
    <2>2. SettledRequests'
      BY <1>4, UnlockedTiers DEF SettledRequests
    <2> QED  BY <2>1, <2>2
  <1> QED  BY <1>1, <1>2, <1>3, <1>4

LEMMA InitFresh == Init => FreshInv
  <1> SUFFICES ASSUME Init  PROVE SettledTiers /\ SettledRequests
    BY InitTypes DEF FreshInv
  <1> QED  BY DEF Init, SettledTiers, SettledRequests, Idle, Moving

LEMMA FreshStep == FreshInv /\ [Next]_vars => FreshInv'
  <1> SUFFICES ASSUME FreshInv, [Next]_vars  PROVE SettledTiers' /\ SettledRequests'
    BY TypeStep DEF FreshInv
  <1>1. CASE Next
    BY <1>1, FreshRequests, FreshAdmins, FreshWorld DEF Next
  <1>2. CASE UNCHANGED vars
    BY <1>2, FreshKept DEF vars, cacheVars, history
  <1> QED  BY <1>1, <1>2

\* After invalidateUserCache has run on a replica, with Redis in reach and no request
\* about to store an older row, no request that comes to that replica is decided on
\* anything but the row, until the row changes again.
THEOREM InvalidatorIsFresh == Spec => []OwnReplicaIsFresh
  <1>1. FreshInv => OwnReplicaIsFresh
    BY DEF FreshInv, SettledRequests, OwnReplicaIsFresh, LetIn, At, Moving
  <1> QED  BY <1>1, InitFresh, FreshStep, PTL DEF Spec
-----------------------------------------------------------------------------
(* 5. The routes.                                                           *)

LEMMA EveryRouteAsks ==
  \A h \in AdminRoutes \union {x \in AuthRoutes : x.guarded} :
    h.guarded /\ h.needs # {} /\ h.needs \subseteq SeededPermissions
  <1>1. \A N, P : \A h \in Guarded(N, P) : h.guarded = TRUE /\ h.needs = N
    BY DEF Guarded, Handler
  <1>2. \A P : \A h \in SignedIn(P) \union Public(P) : h.guarded = FALSE
    BY DEF SignedIn, Public, Handler
  <1>3. ASSUME NEW h \in AdminRoutes
        PROVE  h.guarded /\ \E p \in SeededPermissions : h.needs = {p}
    <2>1. \E p \in SeededPermissions : \E P : h \in Guarded({p}, P)
      BY DEF AdminRoutes, UserRoutes, RoleRoutes, PermissionRoutes, FeatureRoutes,
             AssignmentRoute, SeededPermissions
    <2> QED  BY <1>1, <2>1
  <1>4. ASSUME NEW h \in AuthRoutes, h.guarded
        PROVE  \E p \in SeededPermissions : h.needs = {p}
    <2>1. "users:create" \in SeededPermissions
      BY DEF SeededPermissions
    <2>2. \E P : h \in Guarded({"users:create"}, P)
      BY <1>2, <1>4 DEF AuthRoutes
    <2> QED  BY <1>1, <2>1, <2>2
  <1> QED  BY <1>3, <1>4

\* With the grants of the seed, whoever passes PermissionGuard to a handler of the
\* administration, or to registration, has the role Super Admin in the copy it was
\* decided on, and the Super Admin passes everywhere.
THEOREM SeedDecides == Spec => []RolesDecide
  <1>1. ASSUME TypeOK, NEW c \in Requests, LetIn(c),
               NEW h \in AdminRoutes \union {x \in AuthRoutes : x.guarded}
        PROVE  CanActivate(req[c].user, h) <=> req[c].user.role = "Super Admin"
    <2>1. req[c].user.role \in {"Super Admin", "Viewer", "none"}
      <3>1. req[c].user \in Users
        BY <1>1, RequestOf DEF LetIn, At, Moving
      <3> QED  BY <3>1 DEF Users, Roles
    <2>2. /\ DOMAIN SeededGrants = {"Super Admin", "Manager", "Viewer"}
          /\ SeededGrants["Super Admin"] = SeededPermissions /\ SeededGrants["Viewer"] = {}
      BY DEF SeededGrants
    <2>3. h.guarded /\ h.needs # {} /\ h.needs \subseteq SeededPermissions
      BY EveryRouteAsks
    <2> QED  BY <2>1, <2>2, <2>3 DEF CanActivate
  <1>2. TypeOK => RolesDecide
    BY <1>1 DEF RolesDecide
  <1> QED  BY <1>2, AccessTypes, PTL
=============================================================================
