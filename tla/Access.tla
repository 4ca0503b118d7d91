------------------------------- MODULE Access -------------------------------
(***************************************************************************)
(* Users, sessions and API tokens (auth.go, oidc.go) and their share of    *)
(* the state file.  A handler reads a user under authMu, lets go of it to  *)
(* check passwords and bodies, takes it again to write the whole record    *)
(* back, and persists afterwards; other handlers run in between.           *)
(* Passwords, and the limit on failed logins, are left out.                *)
(***************************************************************************)
EXTENDS Naturals, Sequences, FiniteSets, SequencesExt

CONSTANTS
    User, Token, \* names of users, ids of API tokens
    Call,        \* handlers that run at the same time
    MaxSessions, \* sessions that a user may have
    Faults       \* bound: crashes and state files that cannot be written

AccessAssumption == MaxSessions \in Nat \ {0} /\ Faults \in Nat

Role == {"viewer", "admin"}
Account == [role : Role, disabled : BOOLEAN]
Accounts == UNION {[S -> Account] : S \in SUBSET User}

VARIABLES
    users,       \* c.users
    apiTokens,   \* c.apiTokens: of those made, whether they are revoked
    sessions,    \* c.sessions: the user of each, the oldest first
    calls,       \* what each handler is at
    accessFile,  \* the state file's users, tokens and sessions
    accessFaults,
    revocations, \* history: tokens whose revocation was written
    raced        \* history: a user was written back that had changed since it was read

vars == <<users, apiTokens, sessions, calls, accessFile, accessFaults, revocations, raced>>

Idle == [at |-> "idle"]
Image == [users |-> users, tokens |-> apiTokens, sessions |-> sessions]

TypeOK ==
    /\ users \in Accounts
    /\ DOMAIN apiTokens \subseteq Token /\ Range(apiTokens) \subseteq BOOLEAN
    /\ sessions \in Seq(User)
    /\ \A k \in Call : calls[k].at \in {"idle", "read", "save", "saving"}
    /\ accessFaults \in 0 .. Faults
    /\ revocations \subseteq Token /\ raced \in BOOLEAN

\* New, after ensureBootstrapAdmin made and stored the first administrator.
Init ==
    /\ \E u \in User : users = [v \in {u} |-> [role |-> "admin", disabled |-> FALSE]]
    /\ apiTokens = [t \in {} |-> FALSE] /\ sessions = <<>>
    /\ calls = [k \in Call |-> Idle]
    /\ accessFile = Image
    /\ accessFaults = 0 /\ revocations = {} /\ raced = FALSE
-----------------------------------------------------------------------------
With(f, x, v) == [y \in DOMAIN f \cup {x} |-> IF y = x THEN v ELSE f[y]]
Without(f, x) == [y \in DOMAIN f \ {x} |-> f[y]]

\* persist() comes last in every handler.
ToSave(k) == calls' = [calls EXCEPT ![k] = [at |-> "save"]]

SessionsOf(u, open) == Len(SelectSeq(open, LAMBDA v : v = u))
NoneOf(u, open) == SelectSeq(open, LAMBDA v : v # u)

\* A user, as found by handleLogin, Issue, handleChangePassword or handleUser;
\* what the caller goes on to do with it is decided by the body of the request.
ReadUser(k, u) ==
    /\ calls[k].at = "idle" /\ u \in DOMAIN users
    /\ calls' = [calls EXCEPT ![k] = [at |-> "read", user |-> u, copy |-> users[u]]]
    /\ UNCHANGED <<users, apiTokens, sessions, accessFile, accessFaults, revocations, raced>>

\* handleLogin, Issue: refused for who was disabled when read.
Refuse(k) ==
    /\ calls[k].at = "read"
    /\ calls' = [calls EXCEPT ![k] = Idle]
    /\ UNCHANGED <<users, apiTokens, sessions, accessFile, accessFaults, revocations, raced>>

\* createSession: the oldest session of a user makes room for the newest.
Room(u) ==
    IF SessionsOf(u, sessions) >= MaxSessions THEN RemoveFirst(sessions, u) ELSE sessions

CreateSession(k) ==
    /\ calls[k].at = "read" /\ ~calls[k].copy.disabled
    /\ sessions' = Append(Room(calls[k].user), calls[k].user)
    /\ ToSave(k)
    /\ UNCHANGED <<users, apiTokens, accessFile, accessFaults, revocations, raced>>

\* A session whose user is there and enabled.
Accepted(i) == sessions[i] \in DOMAIN users /\ ~users[sessions[i]].disabled

Logout(k) ==
    /\ calls[k].at = "idle"
    /\ \E i \in 1 .. Len(sessions) : Accepted(i) /\ sessions' = RemoveAt(sessions, i)
    /\ ToSave(k)
    /\ UNCHANGED <<users, apiTokens, accessFile, accessFaults, revocations, raced>>

\* Whether the copy is not what the map says now.
Changed(u, copy) == u \notin DOMAIN users \/ users[u] # copy

\* handleChangePassword: the copy is written back, with another password; of
\* the user's sessions the one that asks is kept.
ChangePassword(k) ==
    /\ calls[k].at = "read"
    /\ users' = With(users, calls[k].user, calls[k].copy)
    /\ raced' = (raced \/ Changed(calls[k].user, calls[k].copy))
    /\ \/ sessions' = NoneOf(calls[k].user, sessions)
       \/ \E own \in 1 .. Len(sessions) :
             /\ sessions[own] = calls[k].user
             /\ sessions' = NoneOf(calls[k].user, SubSeq(sessions, 1, own - 1))
                   \o <<calls[k].user>> \o NoneOf(calls[k].user, SubSeq(sessions, own + 1, Len(sessions)))
    /\ ToSave(k)
    /\ UNCHANGED <<apiTokens, accessFile, accessFaults, revocations>>

EnabledAdmins == {u \in DOMAIN users : users[u].role = "admin" /\ ~users[u].disabled}

\* Mutant: the administrators are not counted again.
LastAdminByCopy(copy) == copy.role = "admin" /\ ~copy.disabled /\ EnabledAdmins = {}

LastAdmin(copy) ==
    copy.role = "admin" /\ ~copy.disabled /\ Cardinality(EnabledAdmins) <= 1

CreateUser(k, u, role) ==
    /\ calls[k].at = "idle" /\ u \notin DOMAIN users
    /\ users' = With(users, u, [role |-> role, disabled |-> FALSE])
    /\ ToSave(k)
    /\ UNCHANGED <<apiTokens, sessions, accessFile, accessFaults, revocations, raced>>

\* handleUser, DELETE: the role and the state are those of the copy, the
\* administrators are counted now.
DeleteUser(k) ==
    /\ calls[k].at = "read" /\ ~LastAdmin(calls[k].copy)
    /\ users' = Without(users, calls[k].user)
    /\ raced' = (raced \/ Changed(calls[k].user, calls[k].copy))
    /\ sessions' = NoneOf(calls[k].user, sessions)
    /\ ToSave(k)
    /\ UNCHANGED <<apiTokens, accessFile, accessFaults, revocations>>

\* handleUser, PATCH; withPassword: the request sets a password, too.
UpdateUser(k, account, withPassword) ==
    /\ calls[k].at = "read"
    /\ account.role # "admin" \/ account.disabled => ~LastAdmin(calls[k].copy)
    /\ users' = With(users, calls[k].user, account)
    /\ raced' = (raced \/ Changed(calls[k].user, calls[k].copy))
    /\ sessions' = IF account.disabled \/ withPassword
                   THEN NoneOf(calls[k].user, sessions) ELSE sessions
    /\ ToSave(k)
    /\ UNCHANGED <<apiTokens, accessFile, accessFaults, revocations>>

CreateToken(k, t) ==
    /\ calls[k].at = "idle" /\ t \notin DOMAIN apiTokens
    /\ apiTokens' = With(apiTokens, t, FALSE)
    /\ ToSave(k)
    /\ UNCHANGED <<users, sessions, accessFile, accessFaults, revocations, raced>>

\* handleToken: revoking again changes nothing, and is persisted all the same.
RevokeToken(k, t) ==
    /\ calls[k].at = "idle" /\ t \in DOMAIN apiTokens
    /\ apiTokens' = [apiTokens EXCEPT ![t] = TRUE]
    /\ ToSave(k)
    /\ UNCHANGED <<users, sessions, accessFile, accessFaults, revocations, raced>>
-----------------------------------------------------------------------------
\* Mutant: the state is copied before persistMu is taken.
CopyOutsideLock(k) ==
    /\ calls[k].at = "save"
    /\ calls' = [calls EXCEPT ![k] = [at |-> "saving", image |-> Image]]
    /\ UNCHANGED <<users, apiTokens, sessions, accessFile, accessFaults, revocations, raced>>

\* persistState: one at a time, the state is copied and then written.
Copy(k) ==
    /\ calls[k].at = "save" /\ \A other \in Call : calls[other].at # "saving"
    /\ calls' = [calls EXCEPT ![k] = [at |-> "saving", image |-> Image]]
    /\ UNCHANGED <<users, apiTokens, sessions, accessFile, accessFaults, revocations, raced>>

Write(k) ==
    /\ calls[k].at = "saving"
    /\ accessFile' = calls[k].image
    /\ revocations' = revocations \cup
          {t \in DOMAIN calls[k].image.tokens : calls[k].image.tokens[t]}
    /\ calls' = [calls EXCEPT ![k] = Idle]
    /\ UNCHANGED <<users, apiTokens, sessions, accessFaults, raced>>

\* persist logs the error, and the handler answers as if nothing had happened.
WriteFails(k) ==
    /\ calls[k].at = "saving"
    /\ accessFaults < Faults /\ accessFaults' = accessFaults + 1
    /\ calls' = [calls EXCEPT ![k] = Idle]
    /\ UNCHANGED <<users, apiTokens, sessions, accessFile, revocations, raced>>

\* All sessions live equally long: the oldest runs out first.  From then on
\* it is accepted nowhere, counted nowhere and not stored, so it is gone.
Expire ==
    /\ sessions # <<>> /\ sessions' = Tail(sessions)
    /\ UNCHANGED <<users, apiTokens, calls, accessFile, accessFaults, revocations, raced>>

RestoredTokens(image) == image.tokens

\* A crash, and a restart some time later, when the oldest sessions have run out.
Restart ==
    /\ accessFaults < Faults /\ accessFaults' = accessFaults + 1
    /\ users' = accessFile.users /\ apiTokens' = RestoredTokens(accessFile)
    /\ \E gone \in 0 .. Len(accessFile.sessions) :
          sessions' = SubSeq(accessFile.sessions, gone + 1, Len(accessFile.sessions))
    /\ calls' = [k \in Call |-> Idle]
    /\ UNCHANGED <<accessFile, revocations, raced>>

Next ==
    \/ \E k \in Call :
          \/ \E u \in User :
                ReadUser(k, u) \/ \E role \in Role : CreateUser(k, u, role)
          \/ Refuse(k) \/ CreateSession(k) \/ Logout(k) \/ ChangePassword(k) \/ DeleteUser(k)
          \/ \E account \in Account, withPassword \in BOOLEAN :
                UpdateUser(k, account, withPassword)
          \/ \E t \in Token : CreateToken(k, t) \/ RevokeToken(k, t)
          \/ Copy(k) \/ Write(k) \/ WriteFails(k)
    \/ Expire \/ Restart

Spec == Init /\ [][Next]_vars
-----------------------------------------------------------------------------
\* Of two administrators who remove, demote or disable one another at the same
\* time one is kept, unless a handler wrote over what it had not read
\* (handleUser counts the administrators when it writes).
AnAdminRemains == raced \/ EnabledAdmins # {}

\* When no handler is at work and no write has failed, a restart would find
\* the users and tokens as they are (every handler persists before it answers,
\* and the copies are written in the order in which they were made).  And a
\* token whose revocation was once written is never good again, in memory or
\* after a restart (handleToken, applyPersistedState).
AnsweredIsStored ==
    /\ accessFaults = 0 /\ (\A k \in Call : calls[k].at \in {"idle", "read"}) =>
          accessFile.users = users /\ accessFile.tokens = apiTokens
    /\ \A t \in revocations, tokens \in {apiTokens, accessFile.tokens} :
          t \in DOMAIN tokens /\ tokens[t]
=============================================================================
