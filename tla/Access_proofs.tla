--------------------------- MODULE Access_proofs ---------------------------
(***************************************************************************)
(* Theorems about Access, for any users, tokens, handlers and failures: as *)
(* long as no handler writes over what it has not read, an enabled         *)
(* administrator remains, in memory and after any restart; and what was    *)
(* answered is stored, so that a revoked token stays revoked.              *)
(***************************************************************************)
EXTENDS Access, FiniteSetTheorems, TLAPS

AdminsOf(us) == {u \in DOMAIN us : us[u].role = "admin" /\ ~us[u].disabled}

\* What is known of a handler between its steps.
CallKnown(k) ==
    /\ calls[k].at = "read" => calls[k].user \in User /\ calls[k].copy \in Account
    /\ calls[k].at = "saving" => calls[k].image.users \in Accounts

\* There is an administrator wherever users are kept: in memory, in the file
\* and in what is about to be written there.
AdminsKept ==
    /\ AdminsOf(users) # {} /\ AdminsOf(accessFile.users) # {}
    /\ \A k \in Call : calls[k].at = "saving" => AdminsOf(calls[k].image.users) # {}

AdminInv ==
    /\ users \in Accounts /\ accessFile.users \in Accounts
    /\ calls = [k \in Call |-> calls[k]]
    /\ \A k \in Call : CallKnown(k)
    /\ raced \in BOOLEAN
    /\ ~raced => AdminsKept

LEMMA AccountsAre ==
    ASSUME NEW us \in Accounts
    PROVE  /\ DOMAIN us \subseteq User /\ \A u \in DOMAIN us : us[u] \in Account
           /\ us = [u \in DOMAIN us |-> us[u]]
BY DEF Accounts

LEMMA AccountsMade ==
    ASSUME NEW S \in SUBSET User, NEW us, us = [u \in S |-> us[u]],
           \A u \in S : us[u] \in Account
    PROVE  us \in Accounts
<1>1. us \in [S -> Account]
    OBVIOUS
<1>2. QED
    BY <1>1 DEF Accounts

LEMMA WithAccount ==
    ASSUME NEW us \in Accounts, NEW u \in User, NEW account \in Account
    PROVE  /\ With(us, u, account) \in Accounts
           /\ DOMAIN With(us, u, account) = DOMAIN us \cup {u}
           /\ With(us, u, account)[u] = account
           /\ \A v \in DOMAIN us : v # u => With(us, u, account)[v] = us[v]
<1> DEFINE made == With(us, u, account)
<1>1. /\ DOMAIN made = DOMAIN us \cup {u} /\ made[u] = account
      /\ \A v \in DOMAIN us : v # u => made[v] = us[v]
      /\ made = [v \in DOMAIN us \cup {u} |-> made[v]]
    BY DEF With
<1>2. \A v \in DOMAIN us \cup {u} : made[v] \in Account
    BY <1>1, AccountsAre
<1>3. DOMAIN us \cup {u} \in SUBSET User
    BY AccountsAre
<1>4. made \in Accounts
    <2> HIDE DEF made
    <2> QED
        BY <1>1, <1>2, <1>3, AccountsMade
<1>5. QED
    BY <1>1, <1>4

LEMMA WithoutAccount ==
    ASSUME NEW us \in Accounts, NEW u
    PROVE  /\ Without(us, u) \in Accounts
           /\ DOMAIN Without(us, u) = DOMAIN us \ {u}
           /\ \A v \in DOMAIN us \ {u} : Without(us, u)[v] = us[v]
<1> DEFINE made == Without(us, u)
<1>1. /\ DOMAIN made = DOMAIN us \ {u} /\ \A v \in DOMAIN us \ {u} : made[v] = us[v]
      /\ made = [v \in DOMAIN us \ {u} |-> made[v]]
    BY DEF Without
<1>2. \A v \in DOMAIN us \ {u} : made[v] \in Account
    BY <1>1, AccountsAre
<1>3. DOMAIN us \ {u} \in SUBSET User
    BY AccountsAre
<1>4. made \in Accounts
    <2> HIDE DEF made
    <2> QED
        BY <1>1, <1>2, <1>3, AccountsMade
<1>5. QED
    BY <1>1, <1>4

\* One more administrator than the one that goes.
LEMMA AnotherAdmin ==
    ASSUME users \in Accounts, NEW u \in DOMAIN users,
           ~LastAdmin(users[u]), AdminsOf(users) # {}
    PROVE  \E v \in AdminsOf(users) : v # u
<1>1. CASE u \notin AdminsOf(users)
    BY <1>1
<1>2. CASE u \in AdminsOf(users)
    <2>1. EnabledAdmins = AdminsOf(users)
        BY DEF EnabledAdmins, AdminsOf
    <2>2. ~(Cardinality(AdminsOf(users)) <= 1)
        BY <1>2, <2>1 DEF LastAdmin, AdminsOf
    <2>3. SUFFICES ASSUME AdminsOf(users) \subseteq {u} PROVE FALSE
        OBVIOUS
    <2>4. AdminsOf(users) = {u}
        BY <1>2, <2>3
    <2>5. Cardinality({u}) = 1
        BY FS_Singleton
    <2>6. QED
        BY <2>2, <2>4, <2>5
<1>3. QED
    BY <1>1, <1>2

LEMMA AdminInit == Init => AdminInv
<1> SUFFICES ASSUME Init PROVE AdminInv
    OBVIOUS
<1>1. PICK u \in User : users = [v \in {u} |-> [role |-> "admin", disabled |-> FALSE]]
    BY DEF Init
<1>2. [role |-> "admin", disabled |-> FALSE] \in Account
    BY DEF Account, Role
<1>3. users \in Accounts
    <2>1. users \in [{u} -> Account]
        BY <1>1, <1>2
    <2>2. QED
        BY <2>1 DEF Accounts
<1>4. u \in AdminsOf(users)
    BY <1>1 DEF AdminsOf
<1>5. accessFile.users = users /\ raced = FALSE /\ calls = [k \in Call |-> Idle]
    BY DEF Init, Image
<1>6. \A k \in Call : calls[k].at = "idle"
    BY <1>5 DEF Idle
<1>7. QED
    BY <1>3, <1>4, <1>5, <1>6 DEF AdminInv, AdminsKept, CallKnown

\* A handler goes on, and nothing else that matters changes.
LEMMA HandlerGoesOn ==
    ASSUME AdminInv, NEW k \in Call, NEW call,
           calls' = [calls EXCEPT ![k] = call],
           call.at = "read" => call.user \in User /\ call.copy \in Account,
           call.at = "saving" => /\ call.image.users \in Accounts
                                 /\ ~raced => AdminsOf(call.image.users) # {},
           UNCHANGED <<users, accessFile, raced>>
    PROVE  AdminInv'
<1>1. calls'[k] = call /\ (\A j \in Call : j # k => calls'[j] = calls[j])
      /\ calls' = [j \in Call |-> calls'[j]]
    BY DEF AdminInv
<1>2. \A j \in Call : CallKnown(j)'
    BY <1>1 DEF AdminInv, CallKnown
<1>3. ~raced' => AdminsKept'
    BY <1>1 DEF AdminInv, AdminsKept
<1>4. QED
    BY <1>1, <1>2, <1>3 DEF AdminInv

\* A handler has changed the users, and is to persist them.
LEMMA UsersWritten ==
    ASSUME AdminInv, NEW k \in Call, ToSave(k), users' \in Accounts, raced' \in BOOLEAN,
           ~raced' => ~raced /\ AdminsOf(users') # {}, UNCHANGED accessFile
    PROVE  AdminInv'
<1>1. calls'[k].at = "save" /\ (\A j \in Call : j # k => calls'[j] = calls[j])
      /\ calls' = [j \in Call |-> calls'[j]]
    BY DEF AdminInv, ToSave
<1>2. \A j \in Call : CallKnown(j)'
    BY <1>1 DEF AdminInv, CallKnown
<1>3. ~raced' => AdminsKept'
    BY <1>1 DEF AdminInv, AdminsKept
<1>4. QED
    BY <1>1, <1>2, <1>3 DEF AdminInv

\* The copy that a handler writes back is of the user as it is, unless raced.
LEMMA CopyIsFresh ==
    ASSUME AdminInv, NEW k \in Call, calls[k].at = "read",
           raced' = (raced \/ Changed(calls[k].user, calls[k].copy)), ~raced'
    PROVE  /\ ~raced /\ AdminsOf(users) # {} /\ users \in Accounts
           /\ calls[k].user \in DOMAIN users /\ users[calls[k].user] = calls[k].copy
BY DEF AdminInv, AdminsKept, Changed

LEMMA PasswordChanged ==
    ASSUME AdminInv, NEW k \in Call, ChangePassword(k)
    PROVE  AdminInv'
<1> DEFINE u == calls[k].user
<1>1. /\ calls[k].at = "read" /\ ToSave(k) /\ UNCHANGED accessFile
      /\ users' = With(users, u, calls[k].copy)
      /\ raced' = (raced \/ Changed(u, calls[k].copy))
    BY DEF ChangePassword
<1>2. u \in User /\ calls[k].copy \in Account /\ users \in Accounts
    BY <1>1 DEF AdminInv, CallKnown
<1>3. users' \in Accounts /\ DOMAIN users' = DOMAIN users \cup {u} /\ users'[u] = calls[k].copy
      /\ \A v \in DOMAIN users : v # u => users'[v] = users[v]
    <2>1. /\ With(users, u, calls[k].copy) \in Accounts
          /\ DOMAIN With(users, u, calls[k].copy) = DOMAIN users \cup {u}
          /\ With(users, u, calls[k].copy)[u] = calls[k].copy
          /\ \A v \in DOMAIN users : v # u => With(users, u, calls[k].copy)[v] = users[v]
        BY <1>2, WithAccount
    <2>2. QED
        BY <1>1, <2>1
<1>4. ASSUME ~raced' PROVE ~raced /\ AdminsOf(users') # {}
    <2>1. ~raced /\ AdminsOf(users) # {} /\ u \in DOMAIN users /\ users[u] = calls[k].copy
        BY <1>1, <1>4, CopyIsFresh
    <2>2. PICK v \in AdminsOf(users) : TRUE
        BY <2>1
    <2>3. v \in AdminsOf(users')
        BY <1>3, <2>1, <2>2 DEF AdminsOf
    <2>4. QED
        BY <2>1, <2>3
<1>5. raced' \in BOOLEAN
    BY <1>1 DEF AdminInv, Changed
<1>6. QED
    BY <1>1, <1>3, <1>4, <1>5, UsersWritten

\* handleUser, DELETE: a user who is no administrator, or not the last.
LEMMA UserDeleted ==
    ASSUME AdminInv, NEW k \in Call, DeleteUser(k)
    PROVE  AdminInv'
<1> DEFINE u == calls[k].user
<1>1. /\ calls[k].at = "read" /\ ToSave(k) /\ UNCHANGED accessFile
      /\ users' = Without(users, u) /\ ~LastAdmin(calls[k].copy)
      /\ raced' = (raced \/ Changed(u, calls[k].copy))
    BY DEF DeleteUser
<1>2. users \in Accounts
    BY DEF AdminInv
<1>3. users' \in Accounts /\ DOMAIN users' = DOMAIN users \ {u}
      /\ \A v \in DOMAIN users \ {u} : users'[v] = users[v]
    BY <1>1, <1>2, WithoutAccount
<1>4. ASSUME ~raced' PROVE ~raced /\ AdminsOf(users') # {}
    <2>1. ~raced /\ AdminsOf(users) # {} /\ u \in DOMAIN users /\ users[u] = calls[k].copy
        BY <1>1, <1>4, CopyIsFresh
    <2>2. PICK v \in AdminsOf(users) : v # u
        BY <1>1, <1>2, <2>1, AnotherAdmin
    <2>3. v \in AdminsOf(users')
        BY <1>3, <2>2 DEF AdminsOf
    <2>4. QED
        BY <2>1, <2>3
<1>5. raced' \in BOOLEAN
    BY <1>1 DEF AdminInv, Changed
<1>6. QED
    BY <1>1, <1>3, <1>4, <1>5, UsersWritten

\* handleUser, PATCH: who stays an enabled administrator is one; who does not
\* was none, or not the last.
LEMMA UserUpdated ==
    ASSUME AdminInv, NEW k \in Call, NEW account \in Account, NEW withPassword \in BOOLEAN,
           UpdateUser(k, account, withPassword)
    PROVE  AdminInv'
<1> DEFINE u == calls[k].user
<1>1. /\ calls[k].at = "read" /\ ToSave(k) /\ UNCHANGED accessFile
      /\ users' = With(users, u, account)
      /\ account.role # "admin" \/ account.disabled => ~LastAdmin(calls[k].copy)
      /\ raced' = (raced \/ Changed(u, calls[k].copy))
    BY DEF UpdateUser
<1>2. u \in User /\ users \in Accounts
    BY <1>1 DEF AdminInv, CallKnown
<1>3. users' \in Accounts /\ DOMAIN users' = DOMAIN users \cup {u} /\ users'[u] = account
      /\ \A v \in DOMAIN users : v # u => users'[v] = users[v]
    <2>1. /\ With(users, u, account) \in Accounts
          /\ DOMAIN With(users, u, account) = DOMAIN users \cup {u}
          /\ With(users, u, account)[u] = account
          /\ \A v \in DOMAIN users : v # u => With(users, u, account)[v] = users[v]
        BY <1>2, WithAccount
    <2>2. QED
        BY <1>1, <2>1
<1>4. ASSUME ~raced' PROVE ~raced /\ AdminsOf(users') # {}
    <2>1. ~raced /\ AdminsOf(users) # {} /\ u \in DOMAIN users /\ users[u] = calls[k].copy
        BY <1>1, <1>4, CopyIsFresh
    <2>2. CASE account.role = "admin" /\ ~account.disabled
        <3>1. u \in AdminsOf(users')
            BY <1>3, <2>2 DEF AdminsOf
        <3>2. QED
            BY <2>1, <3>1
    <2>3. CASE account.role # "admin" \/ account.disabled
        <3>1. PICK v \in AdminsOf(users) : v # u
            BY <1>1, <1>2, <2>1, <2>3, AnotherAdmin
        <3>2. v \in AdminsOf(users')
            BY <1>3, <3>1 DEF AdminsOf
        <3>3. QED
            BY <2>1, <3>2
    <2>4. QED
        BY <2>2, <2>3
<1>5. raced' \in BOOLEAN
    BY <1>1 DEF AdminInv, Changed
<1>6. QED
    BY <1>1, <1>3, <1>4, <1>5, UsersWritten

LEMMA UserCreated ==
    ASSUME AdminInv, NEW k \in Call, NEW u \in User, NEW role \in Role, CreateUser(k, u, role)
    PROVE  AdminInv'
<1>1. /\ users' = With(users, u, [role |-> role, disabled |-> FALSE]) /\ u \notin DOMAIN users
      /\ ToSave(k) /\ UNCHANGED <<accessFile, raced>>
    BY DEF CreateUser
<1>2. [role |-> role, disabled |-> FALSE] \in Account /\ users \in Accounts
    BY DEF Account, AdminInv
<1>3. users' \in Accounts /\ DOMAIN users' = DOMAIN users \cup {u}
      /\ \A v \in DOMAIN users : v # u => users'[v] = users[v]
    <2>1. /\ With(users, u, [role |-> role, disabled |-> FALSE]) \in Accounts
          /\ DOMAIN With(users, u, [role |-> role, disabled |-> FALSE]) = DOMAIN users \cup {u}
          /\ With(users, u, [role |-> role, disabled |-> FALSE])[u] = [role |-> role, disabled |-> FALSE]
          /\ \A v \in DOMAIN users : v # u => With(users, u, [role |-> role, disabled |-> FALSE])[v] = users[v]
        BY <1>2, WithAccount
    <2>2. QED
        BY <1>1, <2>1
<1>4. AdminsOf(users) \subseteq AdminsOf(users')
    BY <1>1, <1>3 DEF AdminsOf
<1>5. QED
    BY <1>1, <1>3, <1>4, UsersWritten DEF AdminInv, AdminsKept

LEMMA AdminStep == AdminInv /\ [Next]_vars => AdminInv'
<1> SUFFICES ASSUME AdminInv, [Next]_vars PROVE AdminInv'
    OBVIOUS
<1>1. ASSUME NEW k \in Call, NEW u \in User, ReadUser(k, u) PROVE AdminInv'
    <2> DEFINE call == [at |-> "read", user |-> u, copy |-> users[u]]
    <2>1. calls' = [calls EXCEPT ![k] = call] /\ u \in DOMAIN users
          /\ UNCHANGED <<users, accessFile, raced>>
        BY <1>1 DEF ReadUser
    <2>2. call.at = "read" /\ call.user \in User /\ call.copy \in Account
        BY <2>1, AccountsAre DEF AdminInv
    <2>3. QED
        BY <2>1, <2>2, HandlerGoesOn
<1>2. ASSUME NEW k \in Call, Refuse(k) \/ WriteFails(k) PROVE AdminInv'
    BY <1>2, HandlerGoesOn DEF Refuse, WriteFails, Idle
<1>3. ASSUME NEW k \in Call,
             CreateSession(k) \/ Logout(k)
             \/ \E t \in Token : CreateToken(k, t) \/ RevokeToken(k, t)
      PROVE  AdminInv'
    <2>1. calls' = [calls EXCEPT ![k] = [at |-> "save"]] /\ UNCHANGED <<users, accessFile, raced>>
        BY <1>3 DEF CreateSession, Logout, CreateToken, RevokeToken, ToSave
    <2>2. QED
        BY <2>1, HandlerGoesOn
<1>4. ASSUME NEW k \in Call, Copy(k) PROVE AdminInv'
    <2> DEFINE call == [at |-> "saving", image |-> Image]
    <2>1. calls' = [calls EXCEPT ![k] = call] /\ UNCHANGED <<users, accessFile, raced>>
        BY <1>4 DEF Copy
    <2>2. call.at = "saving" /\ call.image.users = users
        BY DEF Image
    <2>3. QED
        BY <2>1, <2>2, HandlerGoesOn DEF AdminInv, AdminsKept
<1>5. ASSUME NEW k \in Call, Write(k) PROVE AdminInv'
    <2>1. /\ calls[k].at = "saving" /\ accessFile' = calls[k].image
          /\ calls' = [calls EXCEPT ![k] = Idle] /\ UNCHANGED <<users, raced>>
        BY <1>5 DEF Write
    <2>2. calls'[k].at = "idle" /\ (\A j \in Call : j # k => calls'[j] = calls[j])
          /\ calls' = [j \in Call |-> calls'[j]]
        BY <2>1 DEF AdminInv, Idle
    <2>3. \A j \in Call : CallKnown(j)'
        BY <2>2 DEF AdminInv, CallKnown
    <2>4. accessFile'.users \in Accounts
        BY <2>1 DEF AdminInv, CallKnown
    <2>5. ~raced' => AdminsKept'
        BY <2>1, <2>2 DEF AdminInv, AdminsKept
    <2>6. QED
        BY <2>1, <2>2, <2>3, <2>4, <2>5 DEF AdminInv
<1>6. CASE Expire
    BY <1>6 DEF Expire, AdminInv, AdminsKept, CallKnown
<1>7. CASE Restart
    <2>1. /\ users' = accessFile.users /\ calls' = [k \in Call |-> Idle]
          /\ UNCHANGED <<accessFile, raced>>
        BY <1>7 DEF Restart
    <2>2. \A k \in Call : calls'[k].at = "idle"
        BY <2>1 DEF Idle
    <2>3. QED
        BY <2>1, <2>2 DEF AdminInv, AdminsKept, CallKnown
<1>8. CASE UNCHANGED vars
    BY <1>8 DEF vars, AdminInv, AdminsKept, CallKnown
<1>9. QED
    BY <1>1, <1>2, <1>3, <1>4, <1>5, <1>6, <1>7, <1>8,
       PasswordChanged, UserDeleted, UserUpdated, UserCreated DEF Next

LEMMA AdminsThen == AdminInv => AnAdminRemains
BY DEF AdminInv, AdminsKept, AdminsOf, AnAdminRemains, EnabledAdmins

\* Of administrators who remove, demote or disable one another one is kept, in
\* memory and after any crash, unless a handler wrote over what it had not read
\* (handleUser counts the administrators when it writes).
THEOREM AdminRemains == Spec => []AnAdminRemains
BY AdminInit, AdminStep, AdminsThen, PTL DEF Spec
-----------------------------------------------------------------------------
\* What has been revoked, of the tokens in memory, in the file or in an image.
Revoked(tokens) == {t \in DOMAIN tokens : tokens[t]}

Saving(k) == calls[k].at = "saving"
IsNow(image) == image.users = users /\ image.tokens = apiTokens

\* The file is written by one handler at a time, from what was revoked by then.
RevokedInOrder ==
    /\ \A k, l \in Call : Saving(k) /\ Saving(l) => k = l
    /\ revocations \subseteq Revoked(accessFile.tokens)
    /\ Revoked(accessFile.tokens) \subseteq Revoked(apiTokens)
    /\ \A k \in Call : Saving(k) =>
          /\ revocations \subseteq Revoked(calls[k].image.tokens)
          /\ Revoked(calls[k].image.tokens) \subseteq Revoked(apiTokens)

\* Unless some handler has still to copy it, the state as it is stands in the
\* file or in the image that is being written.
IsStored ==
    accessFaults = 0 /\ (\A k \in Call : calls[k].at # "save") =>
        \/ IsNow(accessFile) /\ \A k \in Call : ~Saving(k)
        \/ \E k \in Call : Saving(k) /\ IsNow(calls[k].image)

StoreInv ==
    /\ accessFaults \in Nat /\ calls = [k \in Call |-> calls[k]]
    /\ RevokedInOrder /\ IsStored

LEMMA StoreInit == Init => StoreInv
<1> SUFFICES ASSUME Init PROVE StoreInv
    OBVIOUS
<1>1. /\ apiTokens = [t \in {} |-> FALSE] /\ calls = [k \in Call |-> Idle]
      /\ accessFile = Image /\ accessFaults = 0 /\ revocations = {}
    BY DEF Init
<1>2. accessFile.users = users /\ accessFile.tokens = apiTokens
    BY <1>1 DEF Image
<1>3. \A k \in Call : calls[k].at = "idle"
    BY <1>1 DEF Idle
<1>4. QED
    BY <1>1, <1>2, <1>3 DEF StoreInv, RevokedInOrder, IsStored, IsNow, Saving

\* A handler that has changed something, or nothing, is to persist it.
LEMMA ChangeMade ==
    ASSUME StoreInv, NEW k \in Call, calls[k].at # "saving", ToSave(k),
           Revoked(apiTokens) \subseteq Revoked(apiTokens'),
           UNCHANGED <<accessFile, accessFaults, revocations>>
    PROVE  StoreInv'
<1>1. calls'[k].at = "save" /\ (\A j \in Call : j # k => calls'[j] = calls[j])
      /\ calls' = [j \in Call |-> calls'[j]]
    BY DEF StoreInv, ToSave
<1>2. \A j \in Call : calls'[j].at = "saving" => calls[j].at = "saving" /\ calls'[j] = calls[j]
    BY <1>1
<1>3. RevokedInOrder'
    BY <1>2 DEF StoreInv, RevokedInOrder, Saving, Revoked
<1>4. IsStored'
    BY <1>1 DEF IsStored
<1>5. QED
    BY <1>1, <1>3, <1>4 DEF StoreInv

\* A handler begins or ends, and changes nothing that is stored.
LEMMA NothingToStore ==
    ASSUME StoreInv, NEW k \in Call, NEW call, calls[k].at = "idle" \/ calls[k].at = "read",
           call.at = "idle" \/ call.at = "read", calls' = [calls EXCEPT ![k] = call],
           UNCHANGED <<users, apiTokens, accessFile, accessFaults, revocations>>
    PROVE  StoreInv'
<1>1. calls'[k] = call /\ (\A j \in Call : j # k => calls'[j] = calls[j])
      /\ calls' = [j \in Call |-> calls'[j]]
    BY DEF StoreInv
<1>2. \A j \in Call : /\ calls'[j].at = "saving" <=> calls[j].at = "saving"
                      /\ calls'[j].at = "save" <=> calls[j].at = "save"
                      /\ calls[j].at = "saving" => calls'[j] = calls[j]
    BY <1>1
<1>3. RevokedInOrder'
    BY <1>2 DEF StoreInv, RevokedInOrder, Saving, Revoked
<1>4. IsStored'
    BY <1>2 DEF StoreInv, IsStored, IsNow, Saving
<1>5. QED
    BY <1>1, <1>3, <1>4 DEF StoreInv

LEMMA MoreRevoked ==
    ASSUME NEW t, (t \notin DOMAIN apiTokens /\ apiTokens' = With(apiTokens, t, FALSE))
                  \/ (t \in DOMAIN apiTokens /\ apiTokens' = [apiTokens EXCEPT ![t] = TRUE])
    PROVE  Revoked(apiTokens) \subseteq Revoked(apiTokens')
BY DEF Revoked, With

LEMMA Copied == ASSUME StoreInv, NEW k \in Call, Copy(k) PROVE StoreInv'
<1>1. /\ \A j \in Call : calls[j].at # "saving"
      /\ calls' = [calls EXCEPT ![k] = [at |-> "saving", image |-> Image]]
      /\ UNCHANGED <<users, apiTokens, accessFile, accessFaults, revocations>>
    BY DEF Copy
<1>2. calls'[k] = [at |-> "saving", image |-> Image]
      /\ (\A j \in Call : j # k => calls'[j] = calls[j]) /\ calls' = [j \in Call |-> calls'[j]]
    BY <1>1 DEF StoreInv
<1>3. calls'[k].at = "saving" /\ calls'[k].image.users = users /\ calls'[k].image.tokens = apiTokens
    BY <1>2 DEF Image
<1>4. \A j \in Call : calls'[j].at = "saving" => j = k
    BY <1>1, <1>2
<1>5. RevokedInOrder'
    BY <1>1, <1>3, <1>4 DEF StoreInv, RevokedInOrder, Saving, Revoked
<1>6. IsStored'
    BY <1>1, <1>3 DEF IsStored, IsNow, Saving
<1>7. QED
    BY <1>1, <1>2, <1>5, <1>6 DEF StoreInv

LEMMA Written == ASSUME StoreInv, NEW k \in Call, Write(k) PROVE StoreInv'
<1> DEFINE image == calls[k].image
<1>1. /\ Saving(k) /\ accessFile' = image
      /\ revocations' = revocations \cup Revoked(image.tokens)
      /\ calls' = [calls EXCEPT ![k] = Idle] /\ UNCHANGED <<users, apiTokens, accessFaults>>
    BY DEF Write, Saving, Revoked
<1>2. calls'[k] = Idle /\ (\A j \in Call : j # k => calls'[j] = calls[j])
      /\ calls' = [j \in Call |-> calls'[j]]
    BY <1>1 DEF StoreInv
<1>3. calls'[k].at = "idle"
    BY <1>2 DEF Idle
<1>4. \A j \in Call : calls'[j].at # "saving"
    BY <1>1, <1>2, <1>3 DEF StoreInv, RevokedInOrder, Saving
<1>5. RevokedInOrder'
    BY <1>1, <1>4 DEF StoreInv, RevokedInOrder, Saving, Revoked
<1>6. ASSUME accessFaults' = 0, \A j \in Call : calls'[j].at # "save"
      PROVE  IsNow(accessFile)'
    <2>1. \A j \in Call : calls[j].at # "save"
        BY <1>1, <1>2, <1>6 DEF Saving
    <2>2. PICK j \in Call : Saving(j) /\ IsNow(calls[j].image)
        BY <1>1, <1>6, <2>1 DEF StoreInv, IsStored
    <2>3. j = k
        BY <1>1, <2>2 DEF StoreInv, RevokedInOrder
    <2>4. QED
        BY <1>1, <2>2, <2>3 DEF IsNow
<1>7. IsStored'
    BY <1>4, <1>6 DEF IsStored, Saving
<1>8. QED
    BY <1>1, <1>2, <1>5, <1>7 DEF StoreInv

LEMMA NotWritten == ASSUME StoreInv, NEW k \in Call, WriteFails(k) PROVE StoreInv'
<1>1. /\ calls' = [calls EXCEPT ![k] = Idle] /\ accessFaults' = accessFaults + 1
      /\ UNCHANGED <<apiTokens, accessFile, revocations>>
    BY DEF WriteFails
<1>2. calls'[k] = Idle /\ (\A j \in Call : j # k => calls'[j] = calls[j])
      /\ calls' = [j \in Call |-> calls'[j]]
    BY <1>1 DEF StoreInv
<1>3. \A j \in Call : calls'[j].at = "saving" => calls[j].at = "saving" /\ calls'[j] = calls[j]
    BY <1>2 DEF Idle
<1>4. RevokedInOrder'
    BY <1>1, <1>3 DEF StoreInv, RevokedInOrder, Saving, Revoked
<1>5. accessFaults' \in Nat \ {0}
    BY <1>1 DEF StoreInv
<1>6. QED
    BY <1>2, <1>4, <1>5 DEF StoreInv, IsStored

LEMMA Restarted == ASSUME StoreInv, Restart PROVE StoreInv'
<1>1. /\ apiTokens' = accessFile.tokens /\ calls' = [k \in Call |-> Idle]
      /\ accessFaults' = accessFaults + 1 /\ UNCHANGED <<accessFile, revocations>>
    BY DEF Restart, RestoredTokens
<1>2. (\A k \in Call : calls'[k].at = "idle") /\ calls' = [k \in Call |-> calls'[k]]
    BY <1>1 DEF Idle
<1>3. RevokedInOrder'
    BY <1>1, <1>2 DEF StoreInv, RevokedInOrder, Saving, Revoked
<1>4. accessFaults' \in Nat \ {0}
    BY <1>1 DEF StoreInv
<1>5. QED
    BY <1>2, <1>3, <1>4 DEF StoreInv, IsStored

LEMMA StoreStep == StoreInv /\ [Next]_vars => StoreInv'
<1> SUFFICES ASSUME StoreInv, [Next]_vars PROVE StoreInv'
    OBVIOUS
<1>1. ASSUME NEW k \in Call, NEW u \in User, ReadUser(k, u) PROVE StoreInv'
    <2> DEFINE call == [at |-> "read", user |-> u, copy |-> users[u]]
    <2>1. /\ calls[k].at = "idle" /\ calls' = [calls EXCEPT ![k] = call]
          /\ UNCHANGED <<users, apiTokens, accessFile, accessFaults, revocations>>
        BY <1>1 DEF ReadUser
    <2>2. call.at = "read"
        OBVIOUS
    <2> HIDE DEF call
    <2>3. QED
        BY <2>1, <2>2, NothingToStore
<1>6. ASSUME NEW k \in Call, Refuse(k) PROVE StoreInv'
    BY <1>6, NothingToStore DEF Refuse, Idle
<1>2. ASSUME NEW k \in Call,
             \/ \E u \in User, role \in Role : CreateUser(k, u, role)
             \/ CreateSession(k) \/ Logout(k) \/ ChangePassword(k) \/ DeleteUser(k)
             \/ \E account \in Account, withPassword \in BOOLEAN :
                   UpdateUser(k, account, withPassword)
      PROVE  StoreInv'
    <2>1. /\ calls[k].at # "saving" /\ ToSave(k) /\ apiTokens' = apiTokens
          /\ UNCHANGED <<accessFile, accessFaults, revocations>>
        BY <1>2 DEF CreateUser, CreateSession, Logout, ChangePassword, DeleteUser, UpdateUser
    <2>2. Revoked(apiTokens) \subseteq Revoked(apiTokens')
        BY <2>1
    <2>3. QED
        BY <2>1, <2>2, ChangeMade
<1>3. ASSUME NEW k \in Call, NEW t \in Token, CreateToken(k, t) \/ RevokeToken(k, t)
      PROVE  StoreInv'
    <2>1. /\ calls[k].at # "saving" /\ ToSave(k)
          /\ UNCHANGED <<accessFile, accessFaults, revocations>>
        BY <1>3 DEF CreateToken, RevokeToken
    <2>2. Revoked(apiTokens) \subseteq Revoked(apiTokens')
        BY <1>3, MoreRevoked DEF CreateToken, RevokeToken
    <2>3. QED
        BY <2>1, <2>2, ChangeMade
<1>4. ASSUME Expire \/ UNCHANGED vars PROVE StoreInv'
    BY <1>4 DEF Expire, vars, StoreInv, RevokedInOrder, IsStored, IsNow, Saving, Revoked
<1>5. QED
    BY <1>1, <1>2, <1>3, <1>4, <1>6, Copied, Written, NotWritten, Restarted DEF Next

LEMMA StoredThen == StoreInv => AnsweredIsStored
BY DEF StoreInv, RevokedInOrder, IsStored, IsNow, Saving, Revoked, AnsweredIsStored

\* At rest, and if no write has failed, the file has the users and tokens as
\* they are; and a token whose revocation was once written is good neither in
\* memory nor in the file ever after, whatever is written late, fails or is
\* restored (persistState copies the state and writes it one handler at a time).
THEOREM AnswersAreStored == Spec => []AnsweredIsStored
BY StoreInit, StoreStep, StoredThen, PTL DEF Spec
=============================================================================
