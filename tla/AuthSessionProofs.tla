------------------------- MODULE AuthSessionProofs -------------------------
(***************************************************************************)
(* Proofs about AuthSession for every number of accounts, passwords and    *)
(* calls, any interleaving and any failure.                                *)
(***************************************************************************)
EXTENDS AuthSession, TLAPS

\* What a call under way has established, and what no other call has undone.
CallFits(c) ==
    LET u == who[c]
    IN  /\ pc[c] \in {"create", "seed"} => checked[c] \in Passwords
        /\ pc[c] = "verify" => "email_verification" \in proved[u]
        /\ pc[c] \in {"verify", "load", "grant"} =>
                proved[u] \cap Opening # {} /\ u \notin ended \ raced
        /\ pc[c] = "grant" => Registered(u)
        /\ pc[c] = "reset" => "password_reset" \in proved[u]
        /\ pc[c] = "change" =>
                Registered(u) /\ (checked[c] = password[u] \/ u \in contended)

\* The inductive invariant.
AuthInv ==
    /\ TypeOK
    /\ \A c \in Calls : CallFits(c)
    /\ SessionsComeFromCodes
    /\ EndedStaysEnded
    /\ TokensWorkUntilEnded

LEMMA InitAuth == Init => AuthInv
<1> SUFFICES ASSUME Init PROVE AuthInv
  OBVIOUS
<1>1. TypeOK
  BY DEF Init, TypeOK, PC, Running, Purposes
<1>2. \A c \in Calls : CallFits(c)
  BY DEF Init, CallFits
<1>3. SessionsComeFromCodes /\ EndedStaysEnded /\ TokensWorkUntilEnded
  BY DEF Init, SessionsComeFromCodes, EndedStaysEnded, TokensWorkUntilEnded,
     SignedIn
<1> QED BY <1>1, <1>2, <1>3 DEF AuthInv

-----------------------------------------------------------------------------
\* A call that returns keeps no locals.
LEMMA ReturnFacts ==
    ASSUME TypeOK, NEW c \in Calls, NEW outcome \in {"done", "failed"},
           Return(c, outcome)
    PROVE  /\ pc'[c] = outcome
           /\ \A d \in Calls \ {c} : pc'[d] = pc[d] /\ who'[d] = who[d]
                /\ purpose'[d] = purpose[d] /\ checked'[d] = checked[d]
           /\ pc' \in [Calls -> PC]
           /\ who' \in [Calls -> Users \cup {NoUser}]
           /\ purpose' \in [Calls -> Purposes]
           /\ held' \in [Calls -> Calls \cup {NoCode}]
           /\ checked' \in [Calls -> Passwords \cup {NoPassword}]
           /\ \A d \in Calls : pc'[d] \in Running => who'[d] \in Users
<1>1. /\ pc' = [pc EXCEPT ![c] = outcome]
      /\ who' = [who EXCEPT ![c] = NoUser]
      /\ purpose' = [purpose EXCEPT ![c] = "login"]
      /\ held' = [held EXCEPT ![c] = NoCode]
      /\ checked' = [checked EXCEPT ![c] = NoPassword]
  BY DEF Return
<1>2. /\ pc'[c] = outcome
      /\ \A d \in Calls \ {c} : pc'[d] = pc[d] /\ who'[d] = who[d]
            /\ purpose'[d] = purpose[d] /\ checked'[d] = checked[d]
  BY <1>1 DEF TypeOK
<1>3. /\ pc' \in [Calls -> PC]
      /\ who' \in [Calls -> Users \cup {NoUser}]
      /\ purpose' \in [Calls -> Purposes]
      /\ held' \in [Calls -> Calls \cup {NoCode}]
      /\ checked' \in [Calls -> Passwords \cup {NoPassword}]
  BY <1>1 DEF TypeOK, PC, Purposes
<1>4. \A d \in Calls : pc'[d] \in Running => who'[d] \in Users
  BY <1>2 DEF TypeOK, Running
<1> QED BY <1>2, <1>3, <1>4

\* A step of one call that leaves passwords, sessions and what was proved.
LEMMA CallStepInv ==
    ASSUME AuthInv, TypeOK', NEW c \in Calls,
           UNCHANGED <<password, hash, proved, ended, raced, cut, contended>>,
           tokens' \subseteq tokens,
           \A u \in verified' : "email_verification" \in proved[u],
           \A d \in Calls \ {c} :
                pc'[d] = pc[d] /\ who'[d] = who[d] /\ checked'[d] = checked[d],
           CallFits(c)'
    PROVE  AuthInv'
<1>1. \A d \in Calls \ {c} : CallFits(d)'
  BY DEF AuthInv, CallFits, Registered
<1>2. SessionsComeFromCodes'
  BY DEF AuthInv, SessionsComeFromCodes, SignedIn, Registered
<1>3. EndedStaysEnded' /\ TokensWorkUntilEnded'
  BY DEF AuthInv, EndedStaysEnded, TokensWorkUntilEnded, Accepts
<1> QED BY <1>1, <1>2, <1>3 DEF AuthInv

\* A call that returns without having changed an account.
LEMMA ReturnInv ==
    ASSUME AuthInv, NEW c \in Calls, NEW outcome \in {"done", "failed"},
           Return(c, outcome),
           UNCHANGED <<account, tokens, history>>, live' \subseteq Code
    PROVE  AuthInv'
<1>1. TypeOK'
  BY ReturnFacts DEF AuthInv, TypeOK, account, history
<1>2. CallFits(c)'
  BY ReturnFacts DEF AuthInv, CallFits
<1>3. \A u \in verified' : "email_verification" \in proved[u]
  BY DEF account, AuthInv, SessionsComeFromCodes, TypeOK
<1>4. \A d \in Calls \ {c} :
            pc'[d] = pc[d] /\ who'[d] = who[d] /\ checked'[d] = checked[d]
  BY ReturnFacts DEF AuthInv
<1> QED BY <1>1, <1>2, <1>3, <1>4, CallStepInv DEF account, history

-----------------------------------------------------------------------------
\* Call c, and no other, got to step p with x as the password it looked at.
Moved(c, p, x) ==
    /\ pc' \in [Calls -> PC]
    /\ who' \in [Calls -> Users \cup {NoUser}]
    /\ purpose' \in [Calls -> Purposes]
    /\ held' \in [Calls -> Calls \cup {NoCode}]
    /\ checked' \in [Calls -> Passwords \cup {NoPassword}]
    /\ pc'[c] = p /\ who'[c] \in Users /\ checked'[c] = x
    /\ \A d \in Calls \ {c} :
            pc'[d] = pc[d] /\ who'[d] = who[d] /\ checked'[d] = checked[d]

\* A call that starts on an account, or goes on, without changing one.
LEMMA MoveInv ==
    ASSUME AuthInv, NEW c \in Calls, NEW p, NEW x, Moved(c, p, x),
           UNCHANGED <<password, hash, proved, ended, raced, cut, contended>>,
           live' \subseteq Code, tokens' = tokens, verified' \subseteq Users,
           \A v \in verified' : "email_verification" \in proved[v],
           p \in {"create", "seed"} => x \in Passwords,
           p = "verify" => "email_verification" \in proved[who'[c]],
           p \in {"verify", "load", "grant"} =>
                /\ proved[who'[c]] \cap Opening # {}
                /\ who'[c] \notin ended \ raced,
           p = "grant" => Registered(who'[c]),
           p = "reset" => "password_reset" \in proved[who'[c]],
           p = "change" => Registered(who'[c]) /\ x = password[who'[c]]
    PROVE  AuthInv'
<1>1. TypeOK'
  <2>1. \A d \in Calls : pc'[d] \in Running => who'[d] \in Users
    BY DEF Moved, AuthInv, TypeOK
  <2> QED BY <2>1 DEF Moved, AuthInv, TypeOK
<1>2. CallFits(c)'
  BY DEF Moved, CallFits, Registered
<1> QED BY <1>1, <1>2, CallStepInv DEF Moved

\* A call ends, or is refused, without changing what it holds.
LEMMA EndInv ==
    ASSUME AuthInv, NEW c \in Calls, NEW outcome \in {"done", "failed"},
           pc' = [pc EXCEPT ![c] = outcome],
           UNCHANGED <<account, live, tokens, locals, history>>
    PROVE  AuthInv'
<1>1. pc'[c] = outcome /\ \A d \in Calls \ {c} : pc'[d] = pc[d]
  BY DEF AuthInv, TypeOK
<1>2. TypeOK'
  <2>1. pc' \in [Calls -> PC]
    BY DEF AuthInv, TypeOK, PC
  <2>2. \A d \in Calls : pc'[d] \in Running => who'[d] \in Users
    BY <1>1 DEF AuthInv, TypeOK, locals, Running
  <2> QED BY <2>1, <2>2 DEF AuthInv, TypeOK, account, locals, history
<1>3. CallFits(c)'
  BY <1>1 DEF CallFits
<1>4. \A u \in verified' : "email_verification" \in proved[u]
  BY DEF account, AuthInv, SessionsComeFromCodes, TypeOK
<1> QED BY <1>1, <1>2, <1>3, <1>4, CallStepInv DEF account, locals, history

\* What a registered account has proved is not needed to register it.
LEMMA CreateInv ==
    ASSUME AuthInv, TypeOK', NEW c \in Calls,
           pc[c] \in {"create", "seed"}, ~Registered(who[c]),
           password' = [password EXCEPT ![who[c]] = checked[c]],
           pc'[c] \in {"retire", "done"},
           \A d \in Calls \ {c} :
                pc'[d] = pc[d] /\ who'[d] = who[d] /\ checked'[d] = checked[d],
           UNCHANGED <<verified, hash, tokens, history>>
    PROVE  AuthInv'
<1> DEFINE u == who[c]
<1>1. u \in Users /\ checked[c] \in Passwords
  BY DEF AuthInv, TypeOK, Running, CallFits
<1>2. /\ password'[u] = checked[c] /\ password'[u] # NoPassword
      /\ \A v \in Users \ {u} : password'[v] = password[v]
  BY <1>1, NoPasswordAssumption DEF AuthInv, TypeOK, Registered
<1>3. \A v \in Users : Registered(v) => Registered(v)' /\ v # u
  BY <1>2 DEF Registered
<1>4. CallFits(c)'
  BY DEF CallFits
<1>5. ASSUME NEW d \in Calls \ {c} PROVE CallFits(d)'
  <2>1. CallFits(d)
    BY DEF AuthInv
  <2>2. pc[d] \in Running => who[d] \in Users
    BY DEF AuthInv, TypeOK
  <2>3. pc[d] = "change" => who[d] # u
    BY <2>1 DEF CallFits
  <2> QED BY <1>2, <1>3, <2>1, <2>2, <2>3
          DEF CallFits, Running, history, Registered
<1>6. SessionsComeFromCodes'
  BY <1>3 DEF AuthInv, SessionsComeFromCodes, SignedIn, history
<1>7. EndedStaysEnded' /\ TokensWorkUntilEnded'
  BY DEF AuthInv, EndedStaysEnded, TokensWorkUntilEnded, Accepts, history
<1> QED BY <1>4, <1>5, <1>6, <1>7 DEF AuthInv

\* An accepted code is proved, and takes its user out of the ended ones if it
\* opens a session.
LEMMA ConsumeInv ==
    ASSUME AuthInv, TypeOK', NEW c \in Calls, ConsumeCode(c),
           \A d \in Calls \ {c} :
                pc'[d] = pc[d] /\ who'[d] = who[d] /\ checked'[d] = checked[d],
           pc'[c] \in {"done", NextStep(purpose[c])},
           pc'[c] # "done" => who'[c] = who[c]
    PROVE  AuthInv'
<1> DEFINE u == who[c]
<1>1. /\ pc[c] = "consume" /\ u \in Users /\ purpose[c] \in Purposes
      /\ proved' = [proved EXCEPT ![u] = @ \cup {purpose[c]}]
      /\ ended' = IF purpose[c] \in Opening THEN ended \ {u} ELSE ended
      /\ UNCHANGED <<account, tokens, raced, cut, contended>>
  BY DEF ConsumeCode, AuthInv, TypeOK, Running
<1>2. /\ \A v \in Users : proved[v] \subseteq proved'[v]
      /\ purpose[c] \in proved'[u]
      /\ ended' \subseteq ended
      /\ purpose[c] \in Opening => u \notin ended'
  BY <1>1 DEF AuthInv, TypeOK
<1>3. CallFits(c)'
  <2>1. CASE purpose[c] = "email_verification"
    BY <1>2, <2>1 DEF CallFits, NextStep, Opening
  <2>2. CASE purpose[c] = "login"
    BY <1>2, <2>2 DEF CallFits, NextStep, Opening
  <2>3. CASE purpose[c] = "password_reset"
    BY <1>2, <2>3 DEF CallFits, NextStep, Opening
  <2> QED BY <1>1, <2>1, <2>2, <2>3 DEF Purposes
<1>4. ASSUME NEW d \in Calls \ {c} PROVE CallFits(d)'
  <2>1. CallFits(d) /\ (pc[d] \in Running => who[d] \in Users)
    BY DEF AuthInv, TypeOK
  <2> QED BY <1>1, <1>2, <2>1 DEF CallFits, Running, Registered, account
<1>5. SessionsComeFromCodes'
  BY <1>1, <1>2 DEF AuthInv, SessionsComeFromCodes, SignedIn, Registered, account
<1>6. EndedStaysEnded' /\ TokensWorkUntilEnded'
  BY <1>1, <1>2
     DEF AuthInv, EndedStaysEnded, TokensWorkUntilEnded, Accepts, account
<1> QED BY <1>3, <1>4, <1>5, <1>6 DEF AuthInv

\* A session is opened only by a call that may open one.
LEMMA GrantInv ==
    ASSUME AuthInv, TypeOK', NEW c \in Calls, pc[c] = "grant",
           hash' = [hash EXCEPT ![who[c]] = c],
           tokens' \subseteq tokens \cup {[id |-> c, user |-> who[c]]},
           pc'[c] \in {"done", "failed"},
           \A d \in Calls \ {c} :
                pc'[d] = pc[d] /\ who'[d] = who[d] /\ checked'[d] = checked[d],
           UNCHANGED <<password, verified, history>>
    PROVE  AuthInv'
<1> DEFINE u == who[c]
<1>1. /\ u \in Users /\ Registered(u) /\ proved[u] \cap Opening # {}
      /\ u \notin ended \ raced
  BY DEF AuthInv, TypeOK, Running, CallFits
<1>2. /\ hash'[u] = c /\ c # NoToken
      /\ \A v \in Users \ {u} : hash'[v] = hash[v]
  BY <1>1, NoTokenAssumption DEF AuthInv, TypeOK
<1>3. \A d \in Calls : CallFits(d)'
  BY DEF AuthInv, CallFits, Registered, history
<1>4. SessionsComeFromCodes'
  <2>1. \A v \in Users \ {u} : SignedIn(v)' => SignedIn(v)
    BY DEF SignedIn
  <2> QED BY <1>1, <1>2, <2>1
          DEF AuthInv, SessionsComeFromCodes, Registered, history
<1>5. EndedStaysEnded'
  BY <1>1, <1>2 DEF AuthInv, EndedStaysEnded, TypeOK, history
<1>6. TokensWorkUntilEnded'
  BY <1>2 DEF AuthInv, TokensWorkUntilEnded, Accepts, TypeOK, Token, history
<1> QED BY <1>3, <1>4, <1>5, <1>6 DEF AuthInv

\* The end of a session leaves those alone that were recorded.
LEMMA EndSessionInv ==
    ASSUME AuthInv, TypeOK', NEW u \in Users, NEW c \in Calls, EndSession(u),
           pc[c] \in {"idle", "change", "reset"}, pc'[c] = "done",
           \A d \in Calls \ {c} :
                pc'[d] = pc[d] /\ who'[d] = who[d] /\ checked'[d] = checked[d],
           \A v \in Users \ {u} : password'[v] = password[v],
           contended \subseteq contended', Registered(u) => Registered(u)',
           password'[u] = password[u] \/
                \A d \in Calls \ {c} :
                    (pc[d] = "change" /\ who[d] = u) => u \in contended'
    PROVE  AuthInv'
<1>1. /\ hash' = [hash EXCEPT ![u] = NoToken]
      /\ ended' = ended \cup {u}
      /\ raced' = IF \E d \in Calls : MayOpen(d, u) THEN raced \cup {u}
                  ELSE raced \ {u}
      /\ cut' = cut \cup {t.id : t \in {s \in tokens : s.user = u}}
      /\ UNCHANGED <<verified, live, tokens, proved>>
  BY DEF EndSession
<1>2. hash'[u] = NoToken /\ \A v \in Users \ {u} : hash'[v] = hash[v]
  BY <1>1 DEF AuthInv, TypeOK
<1>3. \A v \in Users : Registered(v) => Registered(v)'
  BY DEF Registered
<1>4. CallFits(c)'
  BY DEF CallFits
<1>5. ASSUME NEW d \in Calls \ {c} PROVE CallFits(d)'
  <2>1. CallFits(d) /\ (pc[d] \in Running => who[d] \in Users)
    BY DEF AuthInv, TypeOK
  <2>2. ASSUME pc[d] \in {"verify", "load", "grant"}
        PROVE  who[d] \notin ended' \ raced'
    <3>1. CASE who[d] = u
      BY <1>1, <2>2, <3>1 DEF MayOpen
    <3>2. CASE who[d] # u
      BY <1>1, <2>1, <2>2, <3>2 DEF CallFits
    <3> QED BY <3>1, <3>2
  <2>3. ASSUME pc[d] = "change"
        PROVE  checked[d] = password'[who[d]] \/ who[d] \in contended'
    BY <2>1, <2>3 DEF CallFits, Running
  <2> QED BY <1>1, <1>3, <2>1, <2>2, <2>3 DEF CallFits, Running
<1>6. SessionsComeFromCodes'
  BY <1>1, <1>2, <1>3 DEF AuthInv, SessionsComeFromCodes, SignedIn
<1>7. EndedStaysEnded'
  BY <1>1, <1>2 DEF AuthInv, EndedStaysEnded, TypeOK
<1>8. TokensWorkUntilEnded'
  BY <1>1, <1>2 DEF AuthInv, TokensWorkUntilEnded, Accepts, TypeOK, Token
<1> QED BY <1>4, <1>5, <1>6, <1>7, <1>8 DEF AuthInv

-----------------------------------------------------------------------------
\* Every step keeps the invariant: one case for each action.
LEMMA NextAuth == AuthInv /\ [Next]_vars => AuthInv'
<1> SUFFICES ASSUME AuthInv, [Next]_vars PROVE AuthInv'
  OBVIOUS
<1> USE DEF AuthInv
<1>1. \A c \in Calls : purpose[c] \in Purposes
  BY DEF TypeOK
<1>2. /\ verified \subseteq Users
      /\ \A v \in verified : "email_verification" \in proved[v]
  BY DEF TypeOK, SessionsComeFromCodes
<1>3. /\ live \subseteq Code /\ tokens \subseteq Token
      /\ \A c \in Calls : pc[c] \in Running => who[c] \in Users
  BY DEF TypeOK
<1>4. ASSUME NEW c \in Calls, NEW u \in Users, NEW p \in Passwords,
             Register(c, u, p)
      PROVE  AuthInv'
  <2>1. /\ Moved(c, "create", p)
        /\ UNCHANGED <<account, live, tokens, history>>
    BY <1>4 DEF Register, Moved, TypeOK, PC, Running
  <2> QED BY <1>2, <1>3, <2>1, MoveInv DEF account, history
<1>5. ASSUME NEW c \in Calls, NEW p \in Passwords, Seed(c, p) PROVE AuthInv'
  <2>1. /\ Moved(c, "seed", p)
        /\ UNCHANGED <<account, live, tokens, history>>
    BY <1>5, SuperAdminAssumption DEF Seed, Moved, TypeOK, PC, Running
  <2> QED BY <1>2, <1>3, <2>1, MoveInv DEF account, history
<1>6. ASSUME NEW c \in Calls, CreateUser(c) PROVE AuthInv'
  <2>1. who[c] \in Users /\ checked[c] \in Passwords
    BY <1>3, <1>6 DEF CreateUser, Running, CallFits
  <2>2. /\ pc'[c] = "retire"
        /\ \A d \in Calls \ {c} :
                pc'[d] = pc[d] /\ who'[d] = who[d] /\ checked'[d] = checked[d]
    BY <1>6 DEF CreateUser, TypeOK
  <2>3. TypeOK'
    <3>1. /\ password' \in [Users -> Passwords \cup {NoPassword}]
          /\ pc' \in [Calls -> PC]
          /\ purpose' \in [Calls -> Purposes]
          /\ checked' \in [Calls -> Passwords \cup {NoPassword}]
      BY <1>6, <2>1 DEF CreateUser, TypeOK, PC, Running, Purposes
    <3>2. \A d \in Calls : pc'[d] \in Running => who'[d] \in Users
      BY <1>3, <1>6, <2>1, <2>2 DEF CreateUser
    <3> QED BY <1>6, <3>1, <3>2 DEF CreateUser, TypeOK, history
  <2> QED BY <1>6, <2>2, <2>3, CreateInv DEF CreateUser
<1>7. ASSUME NEW c \in Calls, SeedUser(c) PROVE AuthInv'
  <2>1. who[c] \in Users /\ checked[c] \in Passwords
    BY <1>3, <1>7 DEF SeedUser, Running, CallFits
  <2>2. TypeOK'
    <3>1. password' \in [Users -> Passwords \cup {NoPassword}]
      BY <1>7, <2>1 DEF SeedUser, TypeOK
    <3> QED BY <1>7, <3>1, ReturnFacts DEF SeedUser, TypeOK, history
  <2> QED BY <1>7, <2>2, ReturnFacts, CreateInv DEF SeedUser
<1>8. ASSUME NEW c \in Calls, CreateDuplicate(c) \/ NoAccount(c) PROVE AuthInv'
  BY <1>3, <1>8, ReturnInv DEF CreateDuplicate, NoAccount
<1>9. ASSUME NEW c \in Calls, NEW u \in Users, NEW use \in Purposes,
             RequestCode(c, u, use)
      PROVE  AuthInv'
  <2>1. /\ Moved(c, "retire", checked[c])
        /\ UNCHANGED <<account, live, tokens, history>>
    BY <1>9 DEF RequestCode, Moved, TypeOK, PC, Running
  <2> QED BY <1>2, <1>3, <2>1, MoveInv DEF account, history
<1>10. ASSUME NEW c \in Calls, RetireCodes(c) PROVE AuthInv'
  <2>1. who[c] \in Users
    BY <1>3, <1>10 DEF RetireCodes, Running
  <2>2. /\ Moved(c, "issue", checked[c])
        /\ UNCHANGED <<account, tokens, history>> /\ live' \subseteq live
    BY <1>10, <2>1 DEF RetireCodes, Moved, TypeOK, PC, Running, locals
  <2> QED BY <1>2, <1>3, <2>2, MoveInv DEF account, history
<1>11. ASSUME NEW c \in Calls, IssueCode(c) PROVE AuthInv'
  <2>1. live' \subseteq Code
    BY <1>1, <1>3, <1>11 DEF IssueCode, Running, Code
  <2> QED BY <1>11, <2>1, ReturnInv DEF IssueCode
<1>12. ASSUME NEW c \in Calls, NEW k \in live, AnswerCode(c, k) PROVE AuthInv'
  <2>1. k.user \in Users /\ k.purpose \in Purposes /\ k.id \in Calls
    BY <1>3 DEF Code
  <2>2. /\ Moved(c, "consume", checked[c])
        /\ UNCHANGED <<account, live, tokens, history>>
    BY <1>12, <2>1 DEF AnswerCode, Moved, TypeOK, PC, Running
  <2> QED BY <1>2, <1>3, <2>2, MoveInv DEF account, history
<1>13. ASSUME NEW c \in Calls, ConsumeCode(c) PROVE AuthInv'
  <2>1. who[c] \in Users /\ purpose[c] \in Purposes
    BY <1>1, <1>3, <1>13 DEF ConsumeCode, Running
  <2>2. /\ proved' \in [Users -> SUBSET Purposes]
        /\ ended' \subseteq Users /\ live' \subseteq Code
        /\ UNCHANGED <<account, tokens, raced, cut, contended>>
    BY <1>3, <1>13, <2>1 DEF ConsumeCode, TypeOK
  <2>3. CASE Return(c, "done")
    <3>1. TypeOK'
      BY <2>2, <2>3, ReturnFacts DEF TypeOK, account
    <3> QED BY <1>13, <2>3, <3>1, ReturnFacts, ConsumeInv
  <2>4. CASE /\ pc' = [pc EXCEPT ![c] = NextStep(purpose[c])]
             /\ held' = [held EXCEPT ![c] = NoCode]
             /\ UNCHANGED <<who, purpose, checked>>
    <3>1. NextStep(purpose[c]) \in {"verify", "load", "reset"}
      BY <2>1 DEF NextStep, Purposes
    <3>2. /\ pc'[c] = NextStep(purpose[c])
          /\ \A d \in Calls \ {c} : pc'[d] = pc[d]
      BY <2>4 DEF TypeOK
    <3>3. TypeOK'
      <4>1. pc' \in [Calls -> PC] /\ held' \in [Calls -> Calls \cup {NoCode}]
        BY <2>4, <3>1 DEF TypeOK, PC, Running
      <4>2. \A d \in Calls : pc'[d] \in Running => who'[d] \in Users
        BY <1>3, <2>1, <2>4, <3>2
      <4> QED BY <2>2, <2>4, <4>1, <4>2 DEF TypeOK, account
    <3> QED BY <1>13, <2>4, <3>2, <3>3, ConsumeInv
  <2> QED BY <1>13, <2>3, <2>4 DEF ConsumeCode
<1>14. ASSUME UNCHANGED <<account, pc, locals, history>>,
              live' \subseteq Code, tokens' \subseteq tokens
       PROVE  AuthInv'
  <2>1. TypeOK'
    BY <1>3, <1>14 DEF TypeOK, account, locals, history
  <2>2. \A c \in Calls : CallFits(c)'
    BY <1>14 DEF CallFits, Registered, account, locals, history
  <2>3. SessionsComeFromCodes'
    BY <1>14 DEF SessionsComeFromCodes, SignedIn, Registered, account, history
  <2>4. EndedStaysEnded' /\ TokensWorkUntilEnded'
    BY <1>14 DEF EndedStaysEnded, TokensWorkUntilEnded, Accepts, account, history
  <2> QED BY <2>1, <2>2, <2>3, <2>4
<1>15. ASSUME NEW k \in live, CodeEnds(k) PROVE AuthInv'
  BY <1>3, <1>14, <1>15 DEF CodeEnds
<1>16. ASSUME NEW t \in tokens, TokenExpires(t) PROVE AuthInv'
  BY <1>3, <1>14, <1>16 DEF TokenExpires
<1>17. ASSUME NEW c \in Calls, MarkEmailVerified(c) PROVE AuthInv'
  <2>1. /\ who[c] \in Users /\ "email_verification" \in proved[who[c]]
        /\ proved[who[c]] \cap Opening # {} /\ who[c] \notin ended \ raced
    BY <1>3, <1>17 DEF MarkEmailVerified, Running, CallFits
  <2>2. /\ verified' \subseteq Users
        /\ \A v \in verified' : "email_verification" \in proved[v]
    BY <1>2, <1>17, <2>1 DEF MarkEmailVerified
  <2>3. /\ Moved(c, "grant", checked[c]) /\ who'[c] = who[c]
        /\ UNCHANGED <<password, hash, live, tokens, history>>
        /\ Registered(who[c])
    BY <1>17, <2>1 DEF MarkEmailVerified, Moved, TypeOK, PC, Running, locals
  <2> QED BY <1>3, <2>1, <2>2, <2>3, MoveInv DEF history
<1>18. ASSUME NEW c \in Calls, LoadUser(c) PROVE AuthInv'
  <2>1. /\ who[c] \in Users
        /\ proved[who[c]] \cap Opening # {} /\ who[c] \notin ended \ raced
    BY <1>3, <1>18 DEF LoadUser, Running, CallFits
  <2>2. /\ Moved(c, "grant", checked[c]) /\ who'[c] = who[c]
        /\ UNCHANGED <<account, live, tokens, history>>
        /\ Registered(who[c])
    BY <1>18, <2>1 DEF LoadUser, Moved, TypeOK, PC, Running, locals
  <2> QED BY <1>2, <1>3, <2>1, <2>2, MoveInv DEF account, history
<1>19. ASSUME NEW c \in Calls, Grant(c) PROVE AuthInv'
  <2>1. /\ pc[c] = "grant" /\ who[c] \in Users
        /\ hash' = [hash EXCEPT ![who[c]] = c]
        /\ tokens' \subseteq tokens \cup {[id |-> c, user |-> who[c]]}
        /\ Return(c, "done") \/ Return(c, "failed")
        /\ UNCHANGED <<password, verified, live, history>>
    BY <1>3, <1>19 DEF Grant, Running
  <2>2. TypeOK'
    <3>1. tokens' \subseteq Token /\ hash' \in [Users -> Calls \cup {NoToken}]
      BY <1>3, <2>1 DEF Token, TypeOK
    <3> QED BY <2>1, <3>1, ReturnFacts DEF TypeOK, history
  <2> QED BY <2>1, <2>2, ReturnFacts, GrantInv
<1>20. ASSUME NEW c \in Calls, NEW t \in tokens, Refresh(c, t) PROVE AuthInv'
  <2>1. t.user \in Users
    BY <1>3 DEF Token
  <2>2. hash[t.user] # NoToken
    BY <1>20 DEF Refresh, Accepts
  <2>3. /\ Registered(t.user) /\ proved[t.user] \cap Opening # {}
        /\ t.user \notin ended \ raced
    BY <2>1, <2>2 DEF SessionsComeFromCodes, EndedStaysEnded
  <2>4. /\ Moved(c, "grant", checked[c]) /\ who'[c] = t.user
        /\ UNCHANGED <<account, live, tokens, history>>
    BY <1>20, <2>1 DEF Refresh, Moved, TypeOK, PC, Running
  <2> QED BY <1>2, <1>3, <2>3, <2>4, MoveInv DEF account, history
<1>21. ASSUME NEW c \in Calls, NEW u \in Users, Logout(c, u) PROVE AuthInv'
  <2>1. /\ pc[c] = "idle" /\ pc'[c] = "done"
        /\ \A d \in Calls \ {c} : pc'[d] = pc[d]
        /\ EndSession(u) /\ UNCHANGED <<password, locals, contended>>
    BY <1>21 DEF Logout, TypeOK
  <2>2. TypeOK'
    <3>1. pc' \in [Calls -> PC]
      BY <1>21 DEF Logout, TypeOK, PC
    <3>2. /\ hash' \in [Users -> Calls \cup {NoToken}]
          /\ ended' \subseteq Users /\ raced' \subseteq Users
          /\ cut' \subseteq Calls
          /\ UNCHANGED <<verified, live, tokens, proved>>
      BY <2>1 DEF EndSession, TypeOK, Token
    <3>3. \A d \in Calls : pc'[d] \in Running => who'[d] \in Users
      BY <1>3, <2>1 DEF Running, locals
    <3> QED BY <2>1, <3>1, <3>2, <3>3 DEF TypeOK, locals
  <2> QED BY <2>1, <2>2, EndSessionInv DEF locals, Registered
<1>22. ASSUME NEW c \in Calls, NEW u \in Users, ChangePassword(c, u)
       PROVE  AuthInv'
  <2>1. password[u] \in Passwords \cup {NoPassword}
    BY DEF TypeOK
  <2>2. /\ Moved(c, "change", password[u]) /\ who'[c] = u /\ Registered(u)
        /\ UNCHANGED <<account, live, tokens, history>>
    BY <1>22, <2>1 DEF ChangePassword, Moved, TypeOK, PC, Running
  <2> QED BY <1>2, <1>3, <2>2, MoveInv DEF account, history
<1>23. ASSUME NEW c \in Calls, NEW p \in Passwords,
              pc[c] \in {"change", "reset"}, StorePassword(c, p)
       PROVE  AuthInv'
  <2>1. PICK u \in Users : u = who[c]
    BY <1>3, <1>23 DEF Running
  <2>2. /\ password' = [password EXCEPT ![u] = p]
        /\ EndSession(u)
        /\ contended' =
                IF \E d \in Calls \ {c} : pc[d] = "change" /\ who[d] = u
                THEN contended \cup {u} ELSE contended
        /\ Return(c, "done")
    BY <1>23, <2>1 DEF StorePassword
  <2>3. TypeOK'
    <3>1. /\ hash' \in [Users -> Calls \cup {NoToken}]
          /\ ended' \subseteq Users /\ raced' \subseteq Users
          /\ cut' \subseteq Calls
          /\ UNCHANGED <<verified, live, tokens, proved>>
      BY <2>2 DEF EndSession, TypeOK, Token
    <3>2. /\ password' \in [Users -> Passwords \cup {NoPassword}]
          /\ contended' \subseteq Users
      BY <2>2 DEF TypeOK
    <3> QED BY <2>2, <3>1, <3>2, ReturnFacts DEF TypeOK
  <2>4. /\ password'[u] = p /\ password'[u] # NoPassword
        /\ \A v \in Users \ {u} : password'[v] = password[v]
    BY <2>2, NoPasswordAssumption DEF TypeOK
  <2>5. /\ contended \subseteq contended'
        /\ \A d \in Calls \ {c} :
                (pc[d] = "change" /\ who[d] = u) => u \in contended'
    BY <2>2
  <2> QED BY <1>23, <2>2, <2>3, <2>4, <2>5, ReturnFacts, EndSessionInv
          DEF Registered
<1>24. ASSUME NEW c \in Calls, Refuse(c) PROVE AuthInv'
  BY <1>24, EndInv DEF Refuse
<1>25. ASSUME NEW c \in Calls, Abort(c) PROVE AuthInv'
  BY <1>3, <1>25, ReturnInv DEF Abort
<1>26. CASE UNCHANGED vars
  BY <1>3, <1>14, <1>26 DEF vars, account, locals, history
<1> QED
  BY <1>4, <1>5, <1>6, <1>7, <1>8, <1>9, <1>10, <1>11, <1>12, <1>13, <1>15,
     <1>16, <1>17, <1>18, <1>19, <1>20, <1>21, <1>22, <1>23, <1>24, <1>25, <1>26
     DEF Next, UpdatePassword, ResetPassword

\* The invariant holds of every reachable state.
LEMMA AuthInvariant == Spec => []AuthInv
BY InitAuth, NextAuth, PTL DEF Spec

\* Accounts, codes, tokens and calls keep their types (auth.service.ts).
THEOREM AuthTypesHold == Spec => []TypeOK
<1>1. AuthInv => TypeOK
  BY DEF AuthInv
<1> QED BY <1>1, AuthInvariant, PTL

\* A session exists only for an account that answered a code which opens one,
\* over any chain of refreshes (verifyEmail, verifyLogin, refresh).
THEOREM SessionsNeedCodes == Spec => []SessionsComeFromCodes
<1>1. AuthInv => SessionsComeFromCodes
  BY DEF AuthInv
<1> QED BY <1>1, AuthInvariant, PTL

\* A session that was ended while no call could open one stays ended until a
\* code is answered (logout, changePassword, resetPassword).
THEOREM EndedSessionsStayEnded == Spec => []EndedStaysEnded
<1>1. AuthInv => EndedStaysEnded
  BY DEF AuthInv
<1> QED BY <1>1, AuthInvariant, PTL

\* A token works until its session is ended or it expires (refresh).
THEOREM TokensWork == Spec => []TokensWorkUntilEnded
<1>1. AuthInv => TokensWorkUntilEnded
  BY DEF AuthInv
<1> QED BY <1>1, AuthInvariant, PTL

\* A call that may replace the password of u.
Replaces(u) ==
    \E c \in Calls :
        /\ who[c] = u
        /\ \/ pc[c] = "reset" /\ "password_reset" \in proved[u]
           \/ pc[c] = "change" /\ (checked[c] = password[u] \/ u \in contended)

\* Only a call that matched the password, or answered a reset code, replaces
\* it (changePassword, resetPassword, UsersService.create).
THEOREM OwnersReplacePasswords == Spec => PasswordReplacedByOwner
<1>1. ASSUME AuthInv, [Next]_vars, NEW u \in Users, Registered(u),
             password'[u] # password[u]
      PROVE  Replaces(u)
  <2>1. ASSUME NEW c \in Calls, CreateUser(c) \/ SeedUser(c)
        PROVE  password'[u] = password[u]
    <3>1. ~Registered(who[c]) /\ password' = [password EXCEPT ![who[c]] = checked[c]]
      BY <2>1 DEF CreateUser, SeedUser
    <3> QED BY <1>1, <3>1 DEF AuthInv, TypeOK
  <2>2. ASSUME NEW c \in Calls, NEW p \in Passwords,
               UpdatePassword(c, p) \/ ResetPassword(c, p)
        PROVE  Replaces(u)
    <3>1. pc[c] \in {"change", "reset"}
          /\ password' = [password EXCEPT ![who[c]] = p]
      BY <2>2 DEF UpdatePassword, ResetPassword, StorePassword
    <3>2. who[c] = u
      BY <1>1, <3>1 DEF AuthInv, TypeOK
    <3>3. CallFits(c)
      BY <1>1 DEF AuthInv
    <3> QED BY <3>1, <3>2, <3>3 DEF CallFits, Replaces
  <2>3. \/ UNCHANGED password
        \/ \E c \in Calls : CreateUser(c) \/ SeedUser(c)
        \/ \E c \in Calls, p \in Passwords :
                UpdatePassword(c, p) \/ ResetPassword(c, p)
    BY <1>1
       DEF Next, vars, account, Register, Seed, CreateDuplicate, RequestCode,
           RetireCodes, IssueCode, AnswerCode, ConsumeCode, NoAccount, CodeEnds,
           MarkEmailVerified, LoadUser, Grant, Refresh, TokenExpires, Logout,
           ChangePassword, Refuse, Abort
  <2> QED BY <1>1, <2>1, <2>2, <2>3
<1>2. AuthInv /\ [Next]_vars =>
        [\A u \in Users :
            (Registered(u) /\ password'[u] # password[u]) =>
                \E c \in Calls :
                    /\ who[c] = u
                    /\ \/ pc[c] = "reset" /\ "password_reset" \in proved[u]
                       \/ /\ pc[c] = "change"
                          /\ checked[c] = password[u] \/ u \in contended]_vars
  BY <1>1 DEF Replaces
<1> QED BY <1>2, AuthInvariant, PTL DEF Spec, PasswordReplacedByOwner

=============================================================================
