---------------------------- MODULE AuthSession ----------------------------
(***************************************************************************)
(* Accounts and sessions of src/auth: AuthService registers accounts, has  *)
(* one-time codes mailed and answered, hands out refresh tokens, exchanges *)
(* them, ends sessions and replaces passwords.  An account lives in one    *)
(* user document (UsersService); every write of it is one update, but a    *)
(* call reads, checks and hashes before it writes, and writes without a    *)
(* condition on what it read.                                              *)
(*                                                                         *)
(* The codes are kept here in a form of their own: those that can still be *)
(* answered; they are issued, found by an answer, retired and gone.  Which *)
(* of them is the newest and how often it was answered is EmailOtp's; no   *)
(* refinement connects the two modules.                                    *)
(***************************************************************************)
EXTENDS Integers

CONSTANTS
    Users,          \* email addresses, one account each at most
    SuperAdmin,     \* SUPER_ADMIN_EMAIL
    Calls,          \* calls of the endpoints, and starts of an instance
    Passwords,      \* passwords
    NoUser, NoPassword, NoToken, NoCode

ASSUME SuperAdminAssumption == SuperAdmin \in Users
ASSUME NoUserAssumption == NoUser \notin Users
ASSUME NoPasswordAssumption == NoPassword \notin Passwords
ASSUME NoTokenAssumption == NoToken \notin Calls
ASSUME NoCodeAssumption == NoCode \notin Calls

Purposes == {"email_verification", "password_reset", "login"}

\* The purposes whose codes open a session.
Opening == {"email_verification", "login"}

\* A code and a token are named by the call that made them.
Code == [id : Calls, user : Users, purpose : Purposes]
Token == [id : Calls, user : Users]

VARIABLES
    password,       \* password of every account, NoPassword without one
    verified,       \* accounts with emailVerifiedAt
    hash,           \* refreshTokenHash: the token that was hashed, if any
    live,           \* codes that can be answered
    tokens,         \* refresh tokens handed out and not expired
    pc,             \* where each call is
    who,            \* the account it is about
    purpose,        \* the purpose of the code it asks for or answers
    held,           \* the code it found
    checked,        \* the password it compared, or is to store
    proved,         \* history: purposes of the codes accepted for a user
    ended,          \* history: users without a code accepted since the last
                    \* logout or password change
    raced,          \* history: users whose session was ended while a call
                    \* that may open one was under way
    cut,            \* history: tokens handed out before such an end
    contended       \* history: users whose password was replaced while a
                    \* call was changing it

account == <<password, verified, hash>>
locals == <<who, purpose, held, checked>>
history == <<proved, ended, raced, cut, contended>>
vars == <<password, verified, hash, live, tokens, pc, who, purpose, held,
          checked, proved, ended, raced, cut, contended>>

Running == {"create", "seed", "retire", "issue", "consume", "verify", "load", "reset",
            "change", "grant"}
PC == {"idle", "done", "failed"} \cup Running

Registered(u) == password[u] # NoPassword

\* MUTANT: only the token hashed last is accepted.
AcceptsLastOnly(t) == hash[t.user] = t.id

\* MUTANT: a valid signature is enough.
AcceptsSigned(t) == TRUE

\* bcrypt.compare of a refresh token with refreshTokenHash.  bcrypt reads 72
\* bytes, and the first 72 bytes of a token are its header and the start of
\* its subject: they are the same in every token of one user, so any of them
\* matches any hash of that user.
Accepts(t) == hash[t.user] # NoToken

\* The call is over: its locals are gone.
Return(c, outcome) ==
    /\ pc' = [pc EXCEPT ![c] = outcome]
    /\ who' = [who EXCEPT ![c] = NoUser]
    /\ purpose' = [purpose EXCEPT ![c] = "login"]
    /\ held' = [held EXCEPT ![c] = NoCode]
    /\ checked' = [checked EXCEPT ![c] = NoPassword]

-----------------------------------------------------------------------------
Init ==
    /\ password = [u \in Users |-> NoPassword]
    /\ verified = {}
    /\ hash = [u \in Users |-> NoToken]
    /\ live = {}
    /\ tokens = {}
    /\ pc = [c \in Calls |-> "idle"]
    /\ who = [c \in Calls |-> NoUser]
    /\ purpose = [c \in Calls |-> "login"]
    /\ held = [c \in Calls |-> NoCode]
    /\ checked = [c \in Calls |-> NoPassword]
    /\ proved = [u \in Users |-> {}]
    /\ ended = {}
    /\ raced = {}
    /\ cut = {}
    /\ contended = {}

-----------------------------------------------------------------------------
(* Registration.                                                           *)

\* register: UsersService.create finds no account of this email.
Register(c, u, p) ==
    /\ pc[c] = "idle"
    /\ ~Registered(u)
    /\ pc' = [pc EXCEPT ![c] = "create"]
    /\ who' = [who EXCEPT ![c] = u]
    /\ checked' = [checked EXCEPT ![c] = p]
    /\ UNCHANGED <<account, live, tokens, purpose, held, history>>

\* MUTANT: without the unique index of the email the second account wins.
CreateUserUnindexed(c) ==
    /\ pc[c] = "create"
    /\ password' = [password EXCEPT ![who[c]] = checked[c]]
    /\ pc' = [pc EXCEPT ![c] = "retire"]
    /\ purpose' = [purpose EXCEPT ![c] = "email_verification"]
    /\ checked' = [checked EXCEPT ![c] = NoPassword]
    /\ UNCHANGED <<verified, hash, live, tokens, who, held, history>>

\* The insert; a verification code is requested next.
CreateUser(c) ==
    /\ pc[c] = "create"
    /\ ~Registered(who[c])
    /\ password' = [password EXCEPT ![who[c]] = checked[c]]
    /\ pc' = [pc EXCEPT ![c] = "retire"]
    /\ purpose' = [purpose EXCEPT ![c] = "email_verification"]
    /\ checked' = [checked EXCEPT ![c] = NoPassword]
    /\ UNCHANGED <<verified, hash, live, tokens, who, held, history>>

\* SuperAdminSeeder, which every start of an instance runs: existsByEmail finds
\* no account, and the password of the configuration is hashed.
Seed(c, p) ==
    /\ pc[c] = "idle"
    /\ ~Registered(SuperAdmin)
    /\ pc' = [pc EXCEPT ![c] = "seed"]
    /\ who' = [who EXCEPT ![c] = SuperAdmin]
    /\ checked' = [checked EXCEPT ![c] = p]
    /\ UNCHANGED <<account, live, tokens, purpose, held, history>>

\* UsersService.create inserts the account; no code is requested for it.
SeedUser(c) ==
    /\ pc[c] = "seed"
    /\ ~Registered(who[c])
    /\ password' = [password EXCEPT ![who[c]] = checked[c]]
    /\ Return(c, "done")
    /\ UNCHANGED <<verified, hash, live, tokens, history>>

\* The email is taken by now: the second look of create finds it, or else the
\* unique index refuses the insert.  (An instance does not start, then.)
CreateDuplicate(c) ==
    /\ pc[c] \in {"create", "seed"}
    /\ Registered(who[c])
    /\ Return(c, "failed")
    /\ UNCHANGED <<account, live, tokens, history>>

-----------------------------------------------------------------------------
(* One-time codes.                                                         *)

\* Ask for a code: login (after the password matched), resendLoginOtp,
\* resendVerificationOtp and forgotPassword do for an account, and the
\* endpoint of OtpController does for any email and purpose.  The date and
\* place of the last login, which login records first, are left out.
RequestCode(c, u, use) ==
    /\ pc[c] = "idle"
    /\ pc' = [pc EXCEPT ![c] = "retire"]
    /\ who' = [who EXCEPT ![c] = u]
    /\ purpose' = [purpose EXCEPT ![c] = use]
    /\ UNCHANGED <<account, live, tokens, held, checked, history>>

\* The first half of requestOtp: the codes of this key are consumed.
RetireCodes(c) ==
    /\ pc[c] = "retire"
    /\ live' = {k \in live : k.user # who[c] \/ k.purpose # purpose[c]}
    /\ pc' = [pc EXCEPT ![c] = "issue"]
    /\ UNCHANGED <<account, tokens, locals, history>>

\* The second half: the new code is stored, and mailed or not.
IssueCode(c) ==
    /\ pc[c] = "issue"
    /\ live' = live \cup {[id |-> c, user |-> who[c], purpose |-> purpose[c]]}
    /\ \E outcome \in {"done", "failed"} : Return(c, outcome)
    /\ UNCHANGED <<account, tokens, history>>

\* consumeOtp finds the code and the answer is right.
AnswerCode(c, k) ==
    /\ pc[c] = "idle"
    /\ k \in live
    /\ pc' = [pc EXCEPT ![c] = "consume"]
    /\ who' = [who EXCEPT ![c] = k.user]
    /\ purpose' = [purpose EXCEPT ![c] = k.purpose]
    /\ held' = [held EXCEPT ![c] = k.id]
    /\ UNCHANGED <<account, live, tokens, checked, history>>

\* MUTANT: a code of any purpose opens a session.
NextStepAny(use) == "load"

\* What verifyEmail, verifyLogin and resetPassword do after consumeOtp.
NextStep(use) ==
    CASE use = "email_verification" -> "verify"
      [] use = "login" -> "load"
      [] use = "password_reset" -> "reset"

\* The code is consumed.  OtpController's verifyOtp ends here; the other
\* answers go on with the account.
ConsumeCode(c) ==
    LET u == who[c]
    IN  /\ pc[c] = "consume"
        /\ live' = {k \in live : k.id # held[c]}
        /\ proved' = [proved EXCEPT ![u] = @ \cup {purpose[c]}]
        /\ ended' = IF purpose[c] \in Opening THEN ended \ {u} ELSE ended
        /\ \/ /\ pc' = [pc EXCEPT ![c] = NextStep(purpose[c])]
              /\ held' = [held EXCEPT ![c] = NoCode]
              /\ UNCHANGED <<who, purpose, checked>>
           \/ Return(c, "done")
        /\ UNCHANGED <<account, tokens, raced, cut, contended>>

\* The TTL index, a later request or too many attempts: a code is over.
CodeEnds(k) ==
    /\ k \in live
    /\ live' = live \ {k}
    /\ UNCHANGED <<account, tokens, pc, locals, history>>

\* No account has the email of an accepted code: 404 or 401.
NoAccount(c) ==
    /\ pc[c] \in {"verify", "load", "reset"}
    /\ ~Registered(who[c])
    /\ Return(c, "failed")
    /\ UNCHANGED <<account, live, tokens, history>>

-----------------------------------------------------------------------------
(* Sessions.                                                               *)

\* markEmailVerified.
MarkEmailVerified(c) ==
    /\ pc[c] = "verify"
    /\ Registered(who[c])
    /\ verified' = verified \cup {who[c]}
    /\ pc' = [pc EXCEPT ![c] = "grant"]
    /\ UNCHANGED <<password, hash, live, tokens, locals, history>>

\* verifyLogin loads the account.
LoadUser(c) ==
    /\ pc[c] = "load"
    /\ Registered(who[c])
    /\ pc' = [pc EXCEPT ![c] = "grant"]
    /\ UNCHANGED <<account, live, tokens, locals, history>>

\* refresh: the token is signed and not expired, the account has a hash, and
\* the two match.
Refresh(c, t) ==
    /\ pc[c] = "idle"
    /\ t \in tokens
    /\ Accepts(t)
    /\ pc' = [pc EXCEPT ![c] = "grant"]
    /\ who' = [who EXCEPT ![c] = t.user]
    /\ UNCHANGED <<account, live, tokens, purpose, held, checked, history>>

\* buildAuthResponse signs and hashes new tokens, which touches nothing, and
\* stores the hash; the caller gets the tokens unless the instance stops.
Grant(c) ==
    /\ pc[c] = "grant"
    /\ hash' = [hash EXCEPT ![who[c]] = c]
    /\ \/ /\ tokens' = tokens \cup {[id |-> c, user |-> who[c]]}
          /\ Return(c, "done")
       \/ UNCHANGED tokens /\ Return(c, "failed")
    /\ UNCHANGED <<password, verified, live, history>>

\* A refresh token expires (JWT_REFRESH_EXPIRY).
TokenExpires(t) ==
    /\ t \in tokens
    /\ tokens' = tokens \ {t}
    /\ UNCHANGED <<account, live, pc, locals, history>>

\* The caller has an access token; it comes with a refresh token.
SignedIn(u) == \E t \in tokens : t.user = u

\* Call d may still open a session for u.
MayOpen(d, u) ==
    /\ who[d] = u
    /\ \/ pc[d] \in {"verify", "load", "grant"}
       \/ pc[d] = "consume" /\ purpose[d] \in Opening

\* What logout and every password change do to the session of u.
EndSession(u) ==
    /\ hash' = [hash EXCEPT ![u] = NoToken]
    /\ ended' = ended \cup {u}
    /\ raced' = IF \E d \in Calls : MayOpen(d, u) THEN raced \cup {u}
                ELSE raced \ {u}
    /\ cut' = cut \cup {t.id : t \in {s \in tokens : s.user = u}}
    /\ UNCHANGED <<verified, live, tokens, proved>>

\* logout.
Logout(c, u) ==
    /\ pc[c] = "idle"
    /\ SignedIn(u)
    /\ EndSession(u)
    /\ pc' = [pc EXCEPT ![c] = "done"]
    /\ UNCHANGED <<password, locals, contended>>

-----------------------------------------------------------------------------
(* Passwords.                                                              *)

\* changePassword reads the account and the current password matches.
ChangePassword(c, u) ==
    /\ pc[c] = "idle"
    /\ SignedIn(u)
    /\ Registered(u)
    /\ pc' = [pc EXCEPT ![c] = "change"]
    /\ who' = [who EXCEPT ![c] = u]
    /\ checked' = [checked EXCEPT ![c] = password[u]]
    /\ UNCHANGED <<account, live, tokens, purpose, held, history>>

\* Store a password and end the session, in one update.
StorePassword(c, p) ==
    LET u == who[c]
    IN  /\ password' = [password EXCEPT ![u] = p]
        /\ EndSession(u)
        /\ contended' =
                IF \E d \in Calls \ {c} : pc[d] = "change" /\ who[d] = u
                THEN contended \cup {u} ELSE contended
        /\ Return(c, "done")

\* changePassword has hashed the new password, which differs from the one
\* the caller gave as the current one, and stores it.
UpdatePassword(c, p) ==
    /\ pc[c] = "change"
    /\ p # checked[c]
    /\ StorePassword(c, p)

\* resetPassword has hashed the new password and stores it.
ResetPassword(c, p) ==
    /\ pc[c] = "reset"
    /\ Registered(who[c])
    /\ StorePassword(c, p)

-----------------------------------------------------------------------------
\* The call is refused before it does anything: a taken email, an unknown
\* one, a wrong password or code, a token that is expired or not accepted; or
\* there is nothing to seed.
\* (The attempt that a wrong code counts is in EmailOtp.)
Refuse(c) ==
    /\ pc[c] = "idle"
    /\ pc' = [pc EXCEPT ![c] = "failed"]
    /\ UNCHANGED <<account, live, tokens, locals, history>>

\* A database call fails or the instance stops.
Abort(c) ==
    /\ pc[c] \in Running
    /\ Return(c, "failed")
    /\ UNCHANGED <<account, live, tokens, history>>

Next ==
    \/ \E c \in Calls, u \in Users, p \in Passwords : Register(c, u, p)
    \/ \E c \in Calls, p \in Passwords : Seed(c, p)
    \/ \E c \in Calls : CreateUser(c) \/ SeedUser(c) \/ CreateDuplicate(c)
    \/ \E c \in Calls, u \in Users, use \in Purposes : RequestCode(c, u, use)
    \/ \E c \in Calls : RetireCodes(c) \/ IssueCode(c)
    \/ \E c \in Calls, k \in live : AnswerCode(c, k)
    \/ \E c \in Calls : ConsumeCode(c) \/ NoAccount(c)
    \/ \E k \in live : CodeEnds(k)
    \/ \E c \in Calls : MarkEmailVerified(c) \/ LoadUser(c) \/ Grant(c)
    \/ \E c \in Calls, t \in tokens : Refresh(c, t)
    \/ \E t \in tokens : TokenExpires(t)
    \/ \E c \in Calls, u \in Users : Logout(c, u) \/ ChangePassword(c, u)
    \/ \E c \in Calls, p \in Passwords : UpdatePassword(c, p) \/ ResetPassword(c, p)
    \/ \E c \in Calls : Refuse(c) \/ Abort(c)

Spec == Init /\ [][Next]_vars

-----------------------------------------------------------------------------
(* Properties of every interleaving, with failures at any await.           *)

TypeOK ==
    /\ password \in [Users -> Passwords \cup {NoPassword}]
    /\ verified \subseteq Users
    /\ hash \in [Users -> Calls \cup {NoToken}]
    /\ live \subseteq Code
    /\ tokens \subseteq Token
    /\ pc \in [Calls -> PC]
    /\ who \in [Calls -> Users \cup {NoUser}]
    /\ purpose \in [Calls -> Purposes]
    /\ held \in [Calls -> Calls \cup {NoCode}]
    /\ checked \in [Calls -> Passwords \cup {NoPassword}]
    /\ proved \in [Users -> SUBSET Purposes]
    /\ ended \subseteq Users
    /\ raced \subseteq Users
    /\ cut \subseteq Calls
    /\ contended \subseteq Users
    /\ \A c \in Calls : pc[c] \in Running => who[c] \in Users

\* A session exists only for an account that answered a code which opens
\* one, however many refreshes lie in between, and an email is verified only
\* after a code of that purpose.  (verifyEmail, verifyLogin, refresh.)
SessionsComeFromCodes ==
    \A u \in Users :
        /\ (hash[u] # NoToken \/ SignedIn(u)) =>
                Registered(u) /\ proved[u] \cap Opening # {}
        /\ u \in verified => "email_verification" \in proved[u]

\* A session that was ended by a logout or a password change stays ended
\* until a code is answered, when no call that may open one was under way.
\* (refresh, lines 181 to 191; clearRefreshToken.)
EndedStaysEnded == \A u \in ended \ raced : hash[u] = NoToken

\* A token that was handed out is accepted until the session is ended or it
\* expires: refreshing on one device does not sign out another.
TokensWorkUntilEnded == \A t \in tokens : t.id \notin cut => Accepts(t)

\* The password of an account is replaced only by a call that matched it, or
\* that answered a reset code; never by another registration.  Another
\* password may have come in between only when the two changes met.
PasswordReplacedByOwner ==
    [][\A u \in Users :
        (Registered(u) /\ password'[u] # password[u]) =>
            \E c \in Calls :
                /\ who[c] = u
                /\ \/ pc[c] = "reset" /\ "password_reset" \in proved[u]
                   \/ /\ pc[c] = "change"
                      /\ checked[c] = password[u] \/ u \in contended]_vars

-----------------------------------------------------------------------------
(* What the product document says, which a run refutes.                    *)

\* "Clears session" (doc.md:275): after a logout or a password change, with
\* no call under way and no code answered since, there is no session.
LogoutClearsSession ==
    (\A c \in Calls : pc[c] \notin Running) =>
        \A u \in ended : hash[u] = NoToken

=============================================================================
