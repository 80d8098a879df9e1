---------------------------- MODULE AccessCheck ----------------------------
(***************************************************************************)
(* What stands between a request and its handler: JwtStrategy with the       *)
(* denylist and the 30 s copy of the user, JwtAuthGuard, PermissionGuard;    *)
(* and the calls that change what they look at: UsersService, logout, the    *)
(* mass revocation.                                                         *)
(*                                                                         *)
(* One user, several of its access tokens, several replicas.  Each replica   *)
(* has a tier in its memory, and all share Redis.  Time is counted in ticks, *)
(* to which the lives of tokens and cache entries are rounded.              *)
(***************************************************************************)
EXTENDS Naturals, Routes

CONSTANTS
  Replicas, Requests, Admins,   \* processes; requests and admin calls in progress
  Tokens,                       \* jtis of the user's access tokens
  UserTTL,                      \* USER_CACHE_TTL_MS, in ticks
  TokenTTL,                     \* ACCESS_TOKEN_EXPIRES_MS, in ticks
  Slowness,                     \* bound: ticks for which a request is under way
  Changes,                      \* what is done to the user in this instance
  Faults                        \* "redis" is unreachable, a replica does "restart"

ASSUME TimeAssumption    == UserTTL \in Nat \ {0} /\ TokenTTL \in Nat \ {0} /\ Slowness \in Nat
ASSUME ChangesAssumption ==
  Changes \subseteq {"deactivate", "activate", "lock", "reset", "loseRole", "logout"}
ASSUME FaultsAssumption  == Faults \subseteq {"redis", "restart"}

VARIABLES
  row,       \* of the user
  life,      \* ticks until each token expires
  l1,        \* the tier of each replica
  redis, up, \* the shared tier, and whether it can be reached
  req,       \* a request on its way to its handler
  adm,       \* a call that changes the user
  since,     \* history: ticks since the last change of the row
  settled,   \* history: replicas that have invalidated the last change
  out        \* history: tokens reported as revoked

cacheVars == <<l1, redis>>
history   == <<since, settled, out>>
vars      == <<row, life, cacheVars, up, req, adm, history>>
-----------------------------------------------------------------------------
(* The cache: KeyvCacheableMemory in front of Redis.                        *)

Nobody == [active |-> FALSE, locked |-> FALSE, role |-> "none"]
NoCopy == [user |-> Nobody, left |-> 0]

\* A tier holds a copy of the user and the ticks for which each jti stays denied.
EmptyTier == [copy |-> NoCopy, denied |-> [t \in Tokens |-> 0]]

\* set and del go to both tiers.
PutCopyInMemory(r, copy) == l1' = [l1 EXCEPT ![r].copy = copy] /\ UNCHANGED redis
PutCopy(r, copy) ==
  /\ l1' = [l1 EXCEPT ![r].copy = copy]
  /\ redis' = IF up THEN [redis EXCEPT !.copy = copy] ELSE redis

PutDenied(r, T, ttl) ==
  LET denied(tier) == [tier EXCEPT !.denied = [t \in Tokens |-> IF t \in T THEN ttl ELSE @[t]]] IN
  l1' = [l1 EXCEPT ![r] = denied(@)] /\ redis' = IF up THEN denied(redis) ELSE redis

\* get takes the first tier that has the key.  When Redis cannot be reached, a key
\* that the replica does not have is missed or the call is rejected.
HasCopy(tier) == tier.copy # NoCopy
-----------------------------------------------------------------------------
Roles == {"Super Admin", "Viewer"}
UserWith(role) == [active |-> TRUE, locked |-> FALSE, role |-> role]

Idle      == [step |-> "idle"]
AdminIdle == [step |-> "idle"]

Init ==
  /\ row \in {UserWith(k) : k \in Roles}
  /\ life = [t \in Tokens |-> TokenTTL]
  /\ l1 = [r \in Replicas |-> EmptyTier] /\ redis = EmptyTier /\ up = TRUE
  /\ req = [c \in Requests |-> Idle] /\ adm = [a \in Admins |-> AdminIdle]
  /\ since = 0 /\ settled = {} /\ out = {}

At(c, step) == req[c].step = step
Ends(c)     == req' = [req EXCEPT ![c] = Idle]
GoesTo(c, step, user) == req' = [req EXCEPT ![c].step = step, ![c].user = user]
-----------------------------------------------------------------------------
(* JwtStrategy.validate                                                     *)

\* passport has verified the token; a refresh token is refused here.  What the
\* history knows of the token and of the replica at this moment is remembered.
Arrive(c, r, t) ==
  /\ At(c, "idle") /\ life[t] > 0
  /\ req' = [req EXCEPT ![c] =
       [step |-> "jti", replica |-> r, token |-> t, user |-> Nobody, age |-> 0,
        revoked |-> t \in out, settled |-> r \in settled, excused |-> FALSE]]
  /\ UNCHANGED <<row, life, cacheVars, up, adm, history>>

\* The denylist.
LookupJti(c) ==
  LET r == req[c].replica  t == req[c].token IN
  /\ At(c, "jti")
  /\ IF l1[r].denied[t] > 0 THEN Ends(c)
     ELSE IF up /\ redis.denied[t] > 0 THEN Ends(c)
     ELSE req' = [req EXCEPT ![c].step = "user", ![c].excused = ~up \/ life[t] = 0] \/ (~up /\ Ends(c))
  /\ UNCHANGED <<row, life, cacheVars, up, adm, history>>

HitStored(c, user) == GoesTo(c, "set", user)
Hit(c, user)       == GoesTo(c, "decide", user)

\* The copy of the user.
LookupUser(c) ==
  LET r == req[c].replica IN
  /\ At(c, "user")
  /\ IF HasCopy(l1[r]) THEN Hit(c, l1[r].copy.user)
     ELSE IF up /\ HasCopy(redis) THEN Hit(c, redis.copy.user)
     ELSE GoesTo(c, "row", Nobody) \/ (~up /\ Ends(c))
  /\ UNCHANGED <<row, life, cacheVars, up, adm, history>>

\* findById, and cacheManager.set with what it has found.
FindById(c) ==
  /\ At(c, "row") /\ GoesTo(c, "set", row)
  /\ UNCHANGED <<row, life, cacheVars, up, adm, history>>

DefaultTTL == TokenTTL   \* set without a time: the one of the cache module
CopyTTL    == UserTTL

StoreCopy(c) ==
  /\ At(c, "set")
  /\ PutCopy(req[c].replica, [user |-> req[c].user, left |-> CopyTTL])
  /\ GoesTo(c, "decide", req[c].user) \/ (~up /\ Ends(c))
  /\ UNCHANGED <<row, life, up, adm, history>>

\* isActive and lockedUntil, here and once more in JwtAuthGuard.handleRequest.
Decide(c) ==
  /\ At(c, "decide")
  /\ IF req[c].user.active /\ ~req[c].user.locked
     THEN GoesTo(c, "guard", req[c].user) ELSE Ends(c)
  /\ UNCHANGED <<row, life, cacheVars, up, adm, history>>

\* PermissionGuard, with what the role has been granted in the database.
CanActivate(user, h) ==
  h.guarded /\ h.needs # {} =>
    user.role \in DOMAIN SeededGrants /\ h.needs \subseteq SeededGrants[user.role]

Served(c) ==
  /\ At(c, "guard") /\ Ends(c)
  /\ UNCHANGED <<row, life, cacheVars, up, adm, history>>
-----------------------------------------------------------------------------
(* What is done to the user.                                                *)

Changed(op, u) ==
  CASE op = "deactivate" -> [u EXCEPT !.active = FALSE]   \* setActive
    [] op = "activate"   -> [u EXCEPT !.active = TRUE]
    [] op = "lock"       -> [u EXCEPT !.locked = TRUE]    \* recordFailedLogin
    [] op = "reset"      -> [u EXCEPT !.locked = FALSE]   \* resetFailedLogin
    [] op = "loseRole"   -> [u EXCEPT !.role = "none"]    \* DELETE of the role: SET NULL

\* The row is written; all but the deletion of the role then invalidate the copy.
UpdateRow(a, r, op) ==
  /\ adm[a].step = "idle" /\ op \in Changes \ {"logout"} /\ Changed(op, row) # row
  /\ row' = Changed(op, row) /\ since' = 0 /\ settled' = {}
  /\ adm' = IF op = "loseRole" THEN adm
            ELSE [adm EXCEPT ![a] = [step |-> "del", replica |-> r, op |-> op]]
  /\ req' = [c \in Requests |-> IF At(c, "idle") THEN Idle ELSE [req[c] EXCEPT !.settled = FALSE]]
  /\ UNCHANGED <<life, cacheVars, up, out>>

\* A request that has read the row before its last change and will store it.
WritesBack == \E c \in Requests : At(c, "set") /\ req[c].user # row

ForgetInMemory(r) == PutCopyInMemory(r, NoCopy)
Forget(r)         == PutCopy(r, NoCopy)

InvalidateUserCache(a) ==
  LET r == adm[a].replica IN
  /\ adm[a].step = "del" /\ Forget(r)
  /\ \/ /\ adm' = IF adm[a].op = "deactivate"
                  THEN [adm EXCEPT ![a].step = "deny"] ELSE [adm EXCEPT ![a] = AdminIdle]
        /\ settled' = IF up /\ ~WritesBack THEN settled \union {r} ELSE settled
     \/ ~up /\ adm' = [adm EXCEPT ![a] = AdminIdle] /\ UNCHANGED settled
  /\ UNCHANGED <<row, life, up, req, since, out>>

DenyForCopy == UserTTL
DenyFor     == TokenTTL

\* The denylist is written, and the call reports that the tokens are revoked: the one
\* of a logout, those of the user's sessions in a mass revocation.
Denylist(a, r, T) ==
  /\ PutDenied(r, T, DenyFor)
  /\ out' = IF up THEN out \union T ELSE out
  /\ adm' = [adm EXCEPT ![a] = AdminIdle]
  /\ UNCHANGED <<row, life, up, req, since, settled>>

Logout(a, r, t) ==
  "logout" \in Changes /\ adm[a].step = "idle" /\ life[t] > 0 /\ Denylist(a, r, {t})

RevokeAllUserSessions(a) ==
  adm[a].step = "deny" /\ \E T \in SUBSET {t \in Tokens : life[t] > 0} : Denylist(a, adm[a].replica, T)
-----------------------------------------------------------------------------
(* Time and failures.                                                       *)

Older(tier) ==
  [copy |-> IF tier.copy.left <= 1 THEN NoCopy ELSE [tier.copy EXCEPT !.left = @ - 1],
   denied |-> [t \in Tokens |-> IF tier.denied[t] = 0 THEN 0 ELSE tier.denied[t] - 1]]

\* How long a copy can be behind the row: a request reads it and stores it, another
\* takes it from the cache and is decided.
Staleness == 2 * Slowness + UserTTL - 1

\* BOUND: no request is under way for more than Slowness ticks.
Tick ==
  /\ \A c \in Requests : ~At(c, "idle") => req[c].age < Slowness
  /\ req' = [c \in Requests |-> IF At(c, "idle") THEN Idle ELSE [req[c] EXCEPT !.age = @ + 1]]
  /\ life' = [t \in Tokens |-> IF life[t] = 0 THEN 0 ELSE life[t] - 1]
  /\ l1' = [r \in Replicas |-> Older(l1[r])] /\ redis' = Older(redis)
  /\ since' = IF since > Staleness THEN since ELSE since + 1
  /\ UNCHANGED <<row, up, adm, settled, out>>

\* A new token of the user, when the entries of the old one are gone.
Refresh(t) ==
  /\ life[t] = 0 /\ \A c \in Requests : ~At(c, "idle") => req[c].token # t
  /\ redis.denied[t] = 0 /\ \A r \in Replicas : l1[r].denied[t] = 0
  /\ life' = [life EXCEPT ![t] = TokenTTL] /\ out' = out \ {t}
  /\ UNCHANGED <<row, cacheVars, up, req, adm, since, settled>>

\* lockedUntil is a moment: it passes for the row and for every copy of it.
Unlocked(u) == [u EXCEPT !.locked = FALSE]
LockExpires ==
  LET unlocked(tier) == [tier EXCEPT !.copy.user = Unlocked(@)] IN
  /\ row.locked /\ row' = Unlocked(row)
  /\ l1' = [r \in Replicas |-> unlocked(l1[r])] /\ redis' = unlocked(redis)
  /\ req' = [c \in Requests |->
       IF At(c, "idle") THEN Idle ELSE [req[c] EXCEPT !.user = Unlocked(@)]]
  /\ UNCHANGED <<life, up, adm, history>>

RedisFails   == "redis" \in Faults /\ up' = ~up /\ UNCHANGED <<row, life, cacheVars, req, adm, history>>

Restart(r) ==
  /\ "restart" \in Faults
  /\ l1' = [l1 EXCEPT ![r] = EmptyTier]
  /\ req' = [c \in Requests |-> IF ~At(c, "idle") /\ req[c].replica = r THEN Idle ELSE req[c]]
  /\ adm' = [a \in Admins |->
       IF adm[a].step # "idle" /\ adm[a].replica = r THEN AdminIdle ELSE adm[a]]
  /\ UNCHANGED <<row, life, redis, up, history>>
-----------------------------------------------------------------------------
RequestStep(c) ==
  \/ LookupJti(c) \/ LookupUser(c) \/ FindById(c) \/ StoreCopy(c) \/ Decide(c) \/ Served(c)
  \/ \E r \in Replicas, t \in Tokens : Arrive(c, r, t)

AdminStep(a) ==
  \/ InvalidateUserCache(a) \/ RevokeAllUserSessions(a)
  \/ \E r \in Replicas : \/ \E op \in Changes : UpdateRow(a, r, op)
                         \/ \E t \in Tokens : Logout(a, r, t)

Next ==
  \/ \E c \in Requests : RequestStep(c)
  \/ \E a \in Admins : AdminStep(a)
  \/ \E t \in Tokens : Refresh(t)
  \/ \E r \in Replicas : Restart(r)
  \/ Tick \/ LockExpires \/ RedisFails

Spec == Init /\ [][Next]_vars
-----------------------------------------------------------------------------
(* Properties.                                                              *)

Users == [active : BOOLEAN, locked : BOOLEAN, role : Roles \union {"none"}]
Tier  == [copy : [user : Users, left : 0 .. UserTTL], denied : [Tokens -> 0 .. TokenTTL]]
UnderWay == [step : {"jti", "user", "row", "set", "decide", "guard"}, replica : Replicas,
             token : Tokens, user : Users, age : 0 .. Slowness,
             revoked : BOOLEAN, settled : BOOLEAN, excused : BOOLEAN]
Invalidating == [step : {"del", "deny"}, replica : Replicas, op : Changes]

TypeOK ==
  /\ row \in Users /\ up \in BOOLEAN /\ life \in [Tokens -> 0 .. TokenTTL]
  /\ redis \in Tier /\ l1 \in [Replicas -> Tier]
  /\ req \in [Requests -> UnderWay \union {Idle}]
  /\ adm \in [Admins -> Invalidating \union {AdminIdle}]
  /\ since \in 0 .. Staleness + 1 /\ settled \subseteq Replicas /\ out \subseteq Tokens

\* The user that a decision is made on: the one who is let in.
LetIn(c) == At(c, "guard")

\* A token that was reported as revoked before the request came is refused on every
\* replica, unless Redis could not be asked or the token has expired since passport
\* looked at it.
RevokedIsRefused == \A c \in Requests : LetIn(c) /\ req[c].revoked => req[c].excused

\* A request is never decided on a copy that is further behind the row than a copy
\* lives and the two requests it passes through are under way, late write-backs after
\* an invalidation, outages and restarts included.
DecidedOnRecentRow ==
  \A c \in Requests : At(c, "decide") \/ LetIn(c) => req[c].user = row \/ since <= Staleness

\* Once a replica has invalidated the copy, with no older row about to be written back
\* anywhere and Redis in reach, it decides on the row itself.
OwnReplicaIsFresh ==
  \A c \in Requests : (At(c, "decide") \/ LetIn(c)) /\ req[c].settled /\ req[c].replica \in settled
    => req[c].user = row

\* With the roles as the seed leaves them, whoever is let in reaches a handler that
\* asks for a permission, and every handler of the administration does, only as the
\* Super Admin of the copy; and there is none that the Super Admin cannot reach.
RolesDecide ==
  \A c \in Requests : LetIn(c) =>
    \A h \in AdminRoutes \union {x \in AuthRoutes : x.guarded} :
      CanActivate(req[c].user, h) <=> req[c].user.role = "Super Admin"
=============================================================================
