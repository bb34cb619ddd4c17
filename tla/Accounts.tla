------------------------------- MODULE Accounts --------------------------------
(*****************************************************************************)
(* How a user of the API is known: the guards of a login, the tokens handed  *)
(* out for it and by email, and the API keys. The three share the user and   *)
(* no state.                                                                 *)
(*****************************************************************************)
EXTENDS Integers, FiniteSets, Sequences

--------------------------------------------------------------------------------
(* Logins *)

(***************************************************************************)
(* What guards the password of one account: LoginRateLimiter               *)
(* (middleware/ratelimit.go) in front of loginHandler (router.go), and the *)
(* Lockout of middleware/lockout.go inside it.  Each takes its own lock    *)
(* for its check and again for recording the outcome, so attempts overlap  *)
(* between a check and the outcome of another one.  Times are the ticks    *)
(* that are left; NoTime is the zero time.                                 *)
(***************************************************************************)

CONSTANTS
    LoginClients,
    LockStores,     \* "memory", and "redis" when the server has a Redis client
    MaxAttempts,    \* 5 for both guards
    LockFor,        \* lockoutDuration
    Window,         \* window of the rate limiter
    LockoutDurations

ASSUME LoginGuardAssumption ==
    /\ IsFiniteSet(LoginClients)
    /\ LockStores \subseteq { "memory", "redis" }
    /\ { MaxAttempts, LockFor, Window } \subseteq Nat \ { 0 }
    /\ LockoutDurations \in Seq(Nat \ { 0 }) /\ LockoutDurations # <<>>

VARIABLES
    store,          \* which Lockout NewLockout built
    attempt,        \* [LoginClients -> where its login is]
    failed,         \* FailedAttempts
    lockLeft,       \* LockedUntil
    quiet,          \* time since LastAttempt
    lim,            \* loginAttemptState of the limiter
    tested,         \* history: wrong passwords recorded since the account last was
                    \*  unlocked, logged in to or left alone
    refused         \* history: the lockout refused a login after fewer failures

loginVars == <<store, attempt, failed, lockLeft, quiet, lim, tested, refused>>

NoTime == -1
NoState == [count |-> 0, windowLeft |-> NoTime, lockLeft |-> NoTime, level |-> 0]

LoginGuardInit ==
    /\ store \in LockStores
    /\ attempt = [c \in LoginClients |-> "idle"]
    /\ failed = 0 /\ lockLeft = NoTime /\ quiet = 0 /\ lim = NoState
    /\ tested = 0 /\ refused = FALSE

At(c, from, to) == attempt[c] = from /\ attempt' = [attempt EXCEPT ![c] = to]

------------------------------------------------------------------------------

\* LoginRateLimiter.IsLocked, in the middleware; wired without Redis.
LimiterCheck(c) ==
    /\ IF lim.lockLeft > 0 THEN UNCHANGED attempt /\ attempt[c] = "idle" ELSE At(c, "idle", "lockout")
    /\ UNCHANGED <<store, failed, lockLeft, quiet, lim, tested, refused>>

Expired == lockLeft = 0

\* AccountLockout.IsLocked, and RedisAccountLockout.IsLocked, which takes the
\* redis.Nil of an account without a lock for an outage.
IsLocked == (store = "memory" /\ lockLeft > 0) \/ store = "redis"

LockoutCheck(c) ==
    /\ IF IsLocked THEN At(c, "lockout", "idle") /\ refused' = (refused \/ tested < MaxAttempts)
                   ELSE At(c, "lockout", "password") /\ UNCHANGED refused
    /\ failed' = IF Expired THEN 0 ELSE failed
    /\ lockLeft' = IF Expired THEN NoTime ELSE lockLeft
    /\ tested' = IF lockLeft = 0 THEN 0 ELSE tested
    /\ UNCHANGED <<store, quiet, lim>>

\* CheckPassword; an unknown email or a disabled account records nothing.
ComparePassword(c) ==
    /\ \E outcome \in { "wrong", "right", "idle" } : At(c, "password", outcome)
    /\ UNCHANGED <<store, failed, lockLeft, quiet, lim, tested, refused>>

\* AccountLockout.RecordFailure
RecordFailure(c) ==
    /\ At(c, "wrong", "limit")
    /\ failed' = failed + 1 /\ quiet' = 0 /\ tested' = tested + 1
    /\ lockLeft' = IF failed' >= MaxAttempts THEN LockFor ELSE lockLeft
    /\ UNCHANGED <<store, lim, refused>>

\* recordFailureMemory: a window that is over starts again and drops the lock;
\* the level is kept and names the next duration.
RecordLimiterFailure(c) ==
    /\ At(c, "limit", "idle")
    /\ LET base == IF lim.windowLeft <= 0
                   THEN [lim EXCEPT !.count = 0, !.windowLeft = Window, !.lockLeft = NoTime] ELSE lim
           level == IF base.level >= Len(LockoutDurations) THEN Len(LockoutDurations) - 1 ELSE base.level
           next == [base EXCEPT !.count = @ + 1]
       IN  lim' = IF next.count >= MaxAttempts
                  THEN [next EXCEPT !.lockLeft = LockoutDurations[level + 1], !.level = level + 1]
                  ELSE next
    /\ UNCHANGED <<store, failed, lockLeft, quiet, tested, refused>>

\* RecordSuccess of both.
RecordSuccess(c) ==
    /\ At(c, "right", "idle")
    /\ failed' = 0 /\ lockLeft' = NoTime /\ lim' = NoState /\ tested' = 0
    /\ UNCHANGED <<store, quiet, refused>>

\* The cleanup loops.
CleanupLockout ==
    /\ \/ lockLeft = 0
       \/ lockLeft = NoTime /\ failed > 0 /\ quiet >= LockFor
    /\ failed' = 0 /\ lockLeft' = NoTime /\ tested' = 0
    /\ UNCHANGED <<store, attempt, quiet, lim, refused>>

CleanupLimiter ==
    /\ lim # NoState
    /\ lim.lockLeft = 0 \/ (lim.lockLeft = NoTime /\ lim.windowLeft <= 0)
    /\ lim' = NoState
    /\ UNCHANGED <<store, attempt, failed, lockLeft, quiet, tested, refused>>

Aged(t) == IF t > 0 THEN t - 1 ELSE t

Tick ==
    /\ lockLeft' = Aged(lockLeft)
    /\ quiet' = IF quiet < LockFor THEN quiet + 1 ELSE quiet
    /\ lim' = [lim EXCEPT !.windowLeft = Aged(@), !.lockLeft = Aged(@)]
    /\ UNCHANGED <<store, attempt, failed, tested, refused>>

LoginStep(c) ==
    \/ LimiterCheck(c) \/ LockoutCheck(c) \/ ComparePassword(c) \/ RecordFailure(c)
    \/ RecordLimiterFailure(c) \/ RecordSuccess(c)

LoginGuardNext == CleanupLockout \/ CleanupLimiter \/ Tick \/ \E c \in LoginClients : LoginStep(c)

LoginGuardSpec == LoginGuardInit /\ [][LoginGuardNext]_loginVars

------------------------------------------------------------------------------

(***************************************************************************)
(* middleware/lockout.go:76-113.  Attempts that were past the check when    *)
(* the lock came are all that is compared beyond MaxAttempts: no            *)
(* interleaving of logins, expiries and cleanups lets more wrong passwords  *)
(* through.  And with the lockout in memory nobody is refused by it before  *)
(* MaxAttempts wrong passwords.                                             *)
(***************************************************************************)
GuessesBounded ==
    /\ tested <= MaxAttempts - 1 + Cardinality(LoginClients)
    /\ store = "memory" => ~refused

--------------------------------------------------------------------------------
(* Tokens *)

(***************************************************************************)
(* The credentials of one user: JWTs (auth/jwt.go) with the blacklist of   *)
(* middleware/blacklist.go, and the emailed tokens that verify the address *)
(* or reset the password (email/email.go).  A request passes the           *)
(* blacklist, then authMiddleware, then its handler; the handlers of the   *)
(* emailed tokens validate one long before they delete it.  Ages are ticks *)
(* that are left, 0 is over.                                               *)
(***************************************************************************)

CONSTANTS
    Callers,        \* requests that can be under way together
    Tokens,         \* JWTs that can be issued
    ResetTokens,    \* emailed tokens
    TokenLife,      \* jwt_expiration
    BlacklistTTL,   \* the 24 hours of logoutHandler
    ResetLife,      \* an hour, the validity of a reset token
    VerifyLife,     \* 24 hours, the validity of a verification token
    NoToken

ASSUME SessionsAssumption ==
    /\ IsFiniteSet(Callers)
    /\ { TokenLife, BlacklistTTL, ResetLife, VerifyLife } \subseteq Nat \ { 0 }
    /\ TokenLife <= BlacklistTTL        \* both 24 hours as shipped
    /\ NoToken \notin Tokens \cup ResetTokens

VARIABLES
    life,           \* [Tokens -> ticks a JWT is still valid]
    issued,         \* JWTs handed out so far
    black,          \* [Tokens -> ticks its blacklist entry still lasts]
    resetLife,      \* [ResetTokens -> ticks the stored token still lasts]
    purpose,        \* [ResetTokens -> "unsent", or the Purpose stored with it]
    account,        \* "none", "registered" (its mail is being sent), "mailed", "verified"
    caller,         \* [Callers -> the request]
    loggedOut,      \* history: tokens whose logout was answered
    resets,         \* history: [ResetTokens -> passwords set with it]
    wronglyServed   \* history: a request began after the logout and was served

sessionVars == <<life, issued, black, resetLife, purpose, account, caller, loggedOut, resets, wronglyServed>>

Quiet == [at |-> "idle", with |-> NoToken, out |-> FALSE]

SessionsInit ==
    /\ life = [t \in Tokens |-> 0] /\ issued = {} /\ black = [t \in Tokens |-> 0]
    /\ resetLife = [r \in ResetTokens |-> 0]
    /\ purpose = [r \in ResetTokens |-> "unsent"] /\ account = "none"
    /\ caller = [c \in Callers |-> Quiet] /\ loggedOut = {}
    /\ resets = [r \in ResetTokens |-> 0] /\ wronglyServed = FALSE

Becomes(c, at) == caller' = [caller EXCEPT ![c].at = at]
Ends(c) == caller' = [caller EXCEPT ![c] = Quiet]

(* Mutants *)

\* The entry is written for less time than the token lives.
RevokeBriefly(t) == black' = [black EXCEPT ![t] = BlacklistTTL - 1]

------------------------------------------------------------------------------

\* A new JWT, for login, registration and the handlers that renew one.
GenerateToken(t) ==
    /\ t \in Tokens \ issued
    /\ issued' = issued \cup { t } /\ life' = [life EXCEPT ![t] = TokenLife]

\* registerHandler answers while the mail is still being sent.
RegisterUser(c) ==
    /\ caller[c] = Quiet /\ account = "none" /\ \E t \in Tokens : GenerateToken(t)
    /\ account' = "registered"
    /\ UNCHANGED <<black, resetLife, purpose, caller, loggedOut, resets, wronglyServed>>

Login(c) ==
    /\ caller[c] = Quiet /\ account # "none" /\ \E t \in Tokens : GenerateToken(t)
    /\ UNCHANGED <<black, resetLife, purpose, account, caller, loggedOut, resets, wronglyServed>>

\* Blacklist.Middleware; a Redis error counts as revoked.
IsRevoked(t) == black[t] > 0

PassBlacklist(c, t) ==
    /\ caller[c] = Quiet /\ t \in issued /\ ~IsRevoked(t)
    /\ caller' = [caller EXCEPT ![c] = [at |-> "auth", with |-> t, out |-> t \in loggedOut]]
    /\ UNCHANGED <<life, issued, black, resetLife, purpose, account, loggedOut, resets, wronglyServed>>

\* authMiddleware: ValidateToken looks at signature and expiry; no code calls
\* RevokeAllUserTokens, so there is no revocation time to compare with.
ValidateToken(c) ==
    /\ caller[c].at = "auth"
    /\ IF life[caller[c].with] > 0
       THEN Becomes(c, "handler") /\ wronglyServed' = (wronglyServed \/ caller[c].out)
       ELSE Ends(c) /\ UNCHANGED wronglyServed
    /\ UNCHANGED <<life, issued, black, resetLife, purpose, account, loggedOut, resets>>

\* Any handler but the ones below; changePasswordHandler stores a user-level
\* revocation nobody reads where it could matter.
Serve(c) ==
    /\ caller[c].at = "handler" /\ Ends(c)
    /\ UNCHANGED <<life, issued, black, resetLife, purpose, account, loggedOut, resets, wronglyServed>>

Revoke(t) == black' = [black EXCEPT ![t] = BlacklistTTL]

Logout(c) ==
    /\ caller[c].at = "handler" /\ Revoke(caller[c].with) /\ Ends(c)
    /\ loggedOut' = loggedOut \cup { caller[c].with }
    /\ UNCHANGED <<life, issued, resetLife, purpose, account, resets, wronglyServed>>

\* refreshTokenHandler copies the claims, the role too, into a new token.
Refresh(c) ==
    /\ caller[c].at = "handler" /\ \E t \in Tokens : GenerateToken(t)
    /\ Ends(c)
    /\ UNCHANGED <<black, resetLife, purpose, account, loggedOut, resets, wronglyServed>>

\* In front of updateProfileHandler: a new token goes out in a header, whatever becomes
\* of the update, and the old one stays valid.
RequireJWTRefresh(c) == caller[c].at = "handler" /\ \E t \in Tokens : GenerateToken(t)

UpdateProfile(c) ==
    /\ RequireJWTRefresh(c) /\ Ends(c)
    /\ UNCHANGED <<black, resetLife, purpose, account, loggedOut, resets, wronglyServed>>

------------------------------------------------------------------------------
(* Emailed tokens: one store, the purpose told apart by the handlers *)

\* The token is stored before the mail is sent, and stays if the sending fails.
GenerateVerificationToken(r, for, ttl) ==
    /\ purpose[r] = "unsent"
    /\ purpose' = [purpose EXCEPT ![r] = for] /\ resetLife' = [resetLife EXCEPT ![r] = ttl]

\* The goroutine of registerHandler, or its failure.
SendVerificationEmail ==
    /\ account = "registered" /\ account' = "mailed"
    /\ \/ \E r \in ResetTokens : GenerateVerificationToken(r, "verify", VerifyLife)
       \/ UNCHANGED <<purpose, resetLife>>
    /\ UNCHANGED <<life, issued, black, caller, loggedOut, resets, wronglyServed>>

SendPasswordResetEmail(r) == GenerateVerificationToken(r, "reset", ResetLife)

\* forgotPasswordHandler: the answer does not tell whether a token was stored.
ForgotPassword(c) ==
    /\ caller[c] = Quiet /\ account # "none"
    /\ \E r \in ResetTokens : SendPasswordResetEmail(r)
    /\ UNCHANGED <<life, issued, black, account, caller, loggedOut, resets, wronglyServed>>

\* The stored token, if it has not expired and is for the handler's purpose.
Valid(r, for) == resetLife[r] > 0 /\ purpose[r] = for

\* resetPasswordHandler: the token is looked up ...
ValidateReset(c, r) ==
    /\ caller[c] = Quiet /\ Valid(r, "reset")
    /\ caller' = [caller EXCEPT ![c] = [at |-> "reset", with |-> r, out |-> FALSE]]
    /\ UNCHANGED <<life, issued, black, resetLife, purpose, account, loggedOut, resets, wronglyServed>>

\* ... the password is written after bcrypt, or the statement fails ...
UpdatePassword(c) ==
    /\ caller[c].at = "reset"
    /\ \/ Becomes(c, "spend") /\ resets' = [resets EXCEPT ![caller[c].with] = @ + 1]
       \/ Ends(c) /\ UNCHANGED resets
    /\ UNCHANGED <<life, issued, black, resetLife, purpose, account, loggedOut, wronglyServed>>

\* ... and the token goes.
InvalidateToken(r) == resetLife' = [resetLife EXCEPT ![r] = 0]

FinishReset(c) ==
    /\ caller[c].at = "spend" /\ InvalidateToken(caller[c].with) /\ Ends(c)
    /\ UNCHANGED <<life, issued, black, purpose, account, loggedOut, resets, wronglyServed>>

\* verifyEmailHandler: the token is looked up ...
ValidateEmail(c, r) ==
    /\ caller[c] = Quiet /\ Valid(r, "verify")
    /\ caller' = [caller EXCEPT ![c] = [at |-> "verify", with |-> r, out |-> FALSE]]
    /\ UNCHANGED <<life, issued, black, resetLife, purpose, account, loggedOut, resets, wronglyServed>>

\* ... and the user marked, or the statement fails; the token goes as above.
UpdateEmailVerified(c) ==
    /\ caller[c].at = "verify"
    /\ \/ Becomes(c, "spend") /\ account' = "verified"
       \/ Ends(c) /\ UNCHANGED account
    /\ UNCHANGED <<life, issued, black, resetLife, purpose, loggedOut, resets, wronglyServed>>

Older(f) == [x \in DOMAIN f |-> IF f[x] > 0 THEN f[x] - 1 ELSE 0]

SessionsTick ==
    /\ life' = Older(life) /\ black' = Older(black) /\ resetLife' = Older(resetLife)
    /\ UNCHANGED <<issued, purpose, account, caller, loggedOut, resets, wronglyServed>>

SessionsNext ==
    \/ SessionsTick \/ SendVerificationEmail
    \/ \E c \in Callers :
          \/ RegisterUser(c) \/ Login(c) \/ ValidateToken(c) \/ Serve(c) \/ Logout(c) \/ Refresh(c)
          \/ UpdateProfile(c) \/ ForgotPassword(c) \/ UpdatePassword(c) \/ FinishReset(c)
          \/ UpdateEmailVerified(c)
          \/ \E t \in Tokens : PassBlacklist(c, t)
          \/ \E r \in ResetTokens : ValidateReset(c, r) \/ ValidateEmail(c, r)

SessionsSpec == SessionsInit /\ [][SessionsNext]_sessionVars

------------------------------------------------------------------------------

(***************************************************************************)
(* A token is not served to a request that began after its logout was      *)
(* answered, at any later time: the blacklist entry outlives the token     *)
(* (logoutHandler).  A reset token sets one password, or as many as there  *)
(* were requests under way with it at once (resetPasswordHandler), and a   *)
(* token mailed for one purpose does not serve the other.                  *)
(***************************************************************************)
CredentialsSpent ==
    /\ ~wronglyServed
    /\ \A r \in ResetTokens :
          /\ resets[r] <= Cardinality(Callers)
          /\ resets[r] > 0 => purpose[r] = "reset"
    /\ account = "verified" => \E r \in ResetTokens : purpose[r] = "verify"

--------------------------------------------------------------------------------
(* API keys *)

(***************************************************************************)
(* The API keys of one user: createAPIKeyHandler behind                     *)
(* APIKeyCreateRateLimiter (Allow before the handler, Record after the      *)
(* INSERT), rotation with a grace period, deletion, the cleanup of expired  *)
(* keys and APIKeyAuth.Authenticate.                                        *)
(***************************************************************************)

CONSTANTS
    KeyClients,     \* requests under way together
    Keys,           \* key rows
    MaxKeys,        \* creations per window
    Grace           \* ticks a rotated key lives on

ASSUME APIKeysAssumption == IsFiniteSet(KeyClients) /\ { MaxKeys, Grace } \subseteq Nat \ { 0 }

VARIABLES
    keyRow,         \* [Keys -> "free", "active", "inactive" or "deleted"]
    expires,        \* [Keys -> ticks to expires_at, 0 when past, Never for NULL]
    rotated,        \* keys with rotated_at
    creatingKey,    \* [KeyClients -> where its creation is]
    recorded,       \* the limiter's count in this window
    madeInWindow,   \* history: keys created in this window
    revoked         \* history: the user deleted a key

keyVars == <<keyRow, expires, rotated, creatingKey, recorded, madeInWindow, revoked>>

Never == -1

APIKeysInit ==
    /\ keyRow = [k \in Keys |-> "free"] /\ expires = [k \in Keys |-> Never] /\ rotated = {}
    /\ creatingKey = [c \in KeyClients |-> "idle"] /\ recorded = 0
    /\ madeInWindow = 0 /\ revoked = FALSE

\* findAPIKeyByHash looks among the active rows; Authenticate then at the expiry.
FindAPIKeyByHash(k) == keyRow[k] = "active"
Usable(k) == FindAPIKeyByHash(k) /\ expires[k] # 0

------------------------------------------------------------------------------

Allow == recorded < MaxKeys

AllowCreate(c) ==
    /\ creatingKey[c] = "idle" /\ Allow
    /\ creatingKey' = [creatingKey EXCEPT ![c] = "allowed"]
    /\ UNCHANGED <<keyRow, expires, rotated, recorded, madeInWindow, revoked>>

Create(k) == keyRow[k] = "free" /\ keyRow' = [keyRow EXCEPT ![k] = "active"]

CreateAPIKey(c, k) ==
    /\ creatingKey[c] = "allowed" /\ keyRow[k] = "free"
    /\ \/ /\ Create(k) /\ madeInWindow' = madeInWindow + 1
          /\ creatingKey' = [creatingKey EXCEPT ![c] = "created"]
       \/ /\ creatingKey' = [creatingKey EXCEPT ![c] = "idle"] /\ UNCHANGED <<keyRow, madeInWindow>>
    /\ UNCHANGED <<expires, rotated, recorded, revoked>>

RecordCreate(c) ==
    /\ creatingKey[c] = "created" /\ creatingKey' = [creatingKey EXCEPT ![c] = "idle"]
    /\ recorded' = recorded + 1
    /\ UNCHANGED <<keyRow, expires, rotated, madeInWindow, revoked>>

\* The window is over; no creation is under way across its end.
WindowOver ==
    /\ \A c \in KeyClients : creatingKey[c] = "idle"
    /\ recorded' = 0 /\ madeInWindow' = 0
    /\ UNCHANGED <<keyRow, expires, rotated, creatingKey, revoked>>

NewKeyExpiry(k) == Never

\* RotateAPIKey: neither the expiry nor is_active of the old key is looked at;
\* one transaction marks the old key and inserts the new one.
RotateAPIKey(old, new) ==
    /\ keyRow[old] \in { "active", "inactive" } /\ keyRow[new] = "free"
    /\ keyRow' = [keyRow EXCEPT ![new] = "active"]
    /\ expires' = [expires EXCEPT ![old] = Grace, ![new] = NewKeyExpiry(new)]
    /\ rotated' = rotated \cup { old }
    /\ UNCHANGED <<creatingKey, recorded, madeInWindow, revoked>>

DeleteAPIKey(k) ==
    /\ keyRow[k] \in { "active", "inactive" }
    /\ keyRow' = [keyRow EXCEPT ![k] = "deleted"] /\ revoked' = TRUE
    /\ UNCHANGED <<expires, rotated, creatingKey, recorded, madeInWindow>>

\* CleanupExpiredKeys: deactivate what has expired, and delete what expired long
\* ago and is inactive.
CleanupExpiredKeys ==
    /\ \E long \in SUBSET { k \in Keys : keyRow[k] = "inactive" /\ expires[k] = 0 } :
          keyRow' = [k \in Keys |-> IF k \in long THEN "deleted"
                                    ELSE IF keyRow[k] = "active" /\ expires[k] = 0 THEN "inactive"
                                    ELSE keyRow[k]]
    /\ UNCHANGED <<expires, rotated, creatingKey, recorded, madeInWindow, revoked>>

KeysTick ==
    /\ expires' = [k \in Keys |-> IF expires[k] > 0 THEN expires[k] - 1 ELSE expires[k]]
    /\ UNCHANGED <<keyRow, rotated, creatingKey, recorded, madeInWindow, revoked>>

APIKeysNext ==
    \/ \E c \in KeyClients : AllowCreate(c) \/ RecordCreate(c) \/ \E k \in Keys : CreateAPIKey(c, k)
    \/ \E old, new \in Keys : RotateAPIKey(old, new)
    \/ \E k \in Keys : DeleteAPIKey(k)
    \/ WindowOver \/ CleanupExpiredKeys \/ KeysTick

APIKeysSpec == APIKeysInit /\ [][APIKeysNext]_keyVars

------------------------------------------------------------------------------

(***************************************************************************)
(* A user who only creates and rotates keys always has one that             *)
(* Authenticate accepts and that does not expire, through every rotation,   *)
(* expiry and cleanup; and a window sees no more creations than MaxKeys     *)
(* and those that were past Allow together (APIKeyCreateRateLimiter).       *)
(***************************************************************************)
KeysKept ==
    /\ (\E k \in Keys : keyRow[k] # "free") /\ ~revoked =>
          \E k \in Keys : Usable(k) /\ expires[k] = Never
    /\ madeInWindow <= MaxKeys - 1 + Cardinality(KeyClients)

\* A token that was revoked or used up opens nothing more (logoutHandler,
\* resetPasswordHandler), rotation never leaves a user without a key (RotateAPIKey), and
\* wrong passwords are limited (middleware/lockout.go).
CredentialsSound == CredentialsSpent /\ KeysKept /\ GuessesBounded
================================================================================
