------------------------------- MODULE Access -------------------------------
(***************************************************************************)
(* Who may use the console: sessions of accounts, kept in the database and *)
(* in a store in memory (auth/service.rs, auth/session_store.rs), and API  *)
(* tokens whose requests are counted against a quota (auth/service.rs).    *)
(*                                                                         *)
(* Abstractions.  Every SQL statement or transaction and every use of one  *)
(* lock is one step; a lock is held by one operation at a time, and no     *)
(* operation waits for a lock while it holds `sessions'.  A session and    *)
(* the hashes of its two tokens have one name, so that the maps of the     *)
(* store are sets of sessions.  What a session may do is left out, and so  *)
(* are the audit log and the limit per minute of a token, which only       *)
(* refuses requests.                                                       *)
(***************************************************************************)
EXTENDS Naturals, FiniteSets

CONSTANTS
    Account,     \* accounts
    Session,     \* identifiers of sessions, each used once
    Operation,   \* requests with a session, or for one, under way at once
    Call,        \* requests with the API token under way at once
    MaxCalls,    \* max_concurrent_requests of the token
    MaxEvents,   \* bound of the crashes, the futures that are dropped or fail half way,
                 \* the tokens that expire and the accounts that are changed, together
    None         \* no session, no account

ASSUME QuotaAssumption == MaxCalls \in Nat \ {0}
ASSUME BoundAssumption == MaxEvents \in Nat
ASSUME SetsAssumption ==
    Account # {} /\ IsFiniteSet(Account) /\ IsFiniteSet(Session) /\ IsFiniteSet(Call)
ASSUME NoneAssumption == None \notin Session \cup Account

VARIABLES
    account,       \* admin_accounts.status; "changed" is active, after an
                   \* operation that ends all sessions of the account
    row,           \* admin_sessions
    access,        \* MemorySessionStore.access_index,
    refresh,       \* .refresh_index
    sessions,      \* and .sessions
    known,         \* sessions whose tokens the client has been given
    op,            \* the futures of the operations
    token,         \* api_tokens: the status of the token and its active_request_count
    call,          \* the futures of its requests, with their permits
    crashes,
    drops,         \* operations on sessions dropped half way
    lost           \* slots that a failed statement or a dropped future has lost

storeVars == <<access, refresh, sessions>>
tokenVars == <<token, call>>
limitVars == <<crashes, drops, lost>>
vars == <<account, row, access, refresh, sessions, known, op, token, call, crashes, drops,
          lost>>

Row == [status : {"none", "active", "revoked"}, owner : Account \cup {None},
        access : {"valid", "expired"}, refresh : {"valid", "expired"}]
Future == [pc : {"idle", "issue", "saveAccess", "saveRefresh", "saveSession",
                 "getAccess", "checkAccess", "getRefresh", "checkRefresh",
                 "dropAccess", "dropRefresh", "dropSession",
                 "revoke", "forget", "forgetAccess", "forgetRefresh",
                 "revokeAll", "forgetAll", "forgetIndices", "revokeOthers"},
           account : Account \cup {None}, session : Session \cup {None},
           new : Session \cup {None}, todo : SUBSET Session]

NoRow == [status |-> "none", owner |-> None, access |-> "valid", refresh |-> "valid"]
Idle == [pc |-> "idle", account |-> None, session |-> None, new |-> None, todo |-> {}]

Expired(t) == Cardinality({s \in Session : row[s][t] = "expired"})
MoreEvents ==
    crashes + drops + lost + Expired("access") + Expired("refresh")
        + Cardinality({a \in Account : account[a] # "active"}) < MaxEvents

Active(a) == account[a] \in {"active", "changed"}
Enter(p, pc) == op' = [op EXCEPT ![p].pc = pc]
End(p) == op' = [op EXCEPT ![p] = Idle]
First(unused) == IF unused = {} THEN {} ELSE {CHOOSE s \in unused : TRUE}

Init ==
    /\ account = [a \in Account |-> "active"]
    /\ row = [s \in Session |-> NoRow]
    /\ access = {} /\ refresh = {} /\ sessions = {}
    /\ known = {}
    /\ op = [p \in Operation |-> Idle]
    /\ token = [status |-> "active", owner |-> CHOOSE a \in Account : TRUE, count |-> 0]
    /\ call = [c \in Call |-> "idle"]
    /\ crashes = 0 /\ drops = 0 /\ lost = 0

-----------------------------------------------------------------------------
(* login and issue_session *)

\* The account is active and the password is right, when they are read.
Login(p, a) ==
    /\ op[p].pc = "idle" /\ Active(a)
    /\ op' = [op EXCEPT ![p] = [Idle EXCEPT !.pc = "issue", !.account = a]]
    /\ UNCHANGED <<account, row, storeVars, known, tokenVars, limitVars>>

Issue(p) ==
    /\ op[p].pc = "issue"
    /\ \E s \in First({t \in Session : row[t].status = "none"}) :
          /\ row' = [row EXCEPT ![s] = [NoRow EXCEPT !.status = "active", !.owner = op[p].account]]
          /\ op' = [op EXCEPT ![p] = [@ EXCEPT !.pc = "saveAccess", !.new = s]]
    /\ UNCHANGED <<account, storeVars, known, tokenVars, limitVars>>

\* MemorySessionStore::save
SaveAccess(p) ==
    /\ op[p].pc = "saveAccess"
    /\ access' = access \cup {op[p].new}
    /\ Enter(p, "saveRefresh")
    /\ UNCHANGED <<account, row, refresh, sessions, known, tokenVars, limitVars>>

SaveRefresh(p) ==
    /\ op[p].pc = "saveRefresh"
    /\ refresh' = refresh \cup {op[p].new}
    /\ Enter(p, "saveSession")
    /\ UNCHANGED <<account, row, access, sessions, known, tokenVars, limitVars>>

\* A login is over and its tokens are sent; a refresh goes on to revoke the
\* session that it replaces.
SaveSession(p) ==
    /\ op[p].pc = "saveSession"
    /\ sessions' = sessions \cup {op[p].new}
    /\ IF op[p].session = None
       THEN End(p) /\ known' = known \cup {op[p].new}
       ELSE Enter(p, "revoke") /\ known' = known
    /\ UNCHANGED <<account, row, access, refresh, tokenVars, limitVars>>

-----------------------------------------------------------------------------
(* authenticate_access_token and refresh *)

\* An operation on session s begins, and ends at once when the index has no s.
Begin(p, s, pc) ==
    /\ op[p].pc = "idle" /\ s \in known
    /\ op' = [op EXCEPT ![p] = [Idle EXCEPT !.pc = pc, !.session = s]]
    /\ UNCHANGED <<account, row, storeVars, known, tokenVars, limitVars>>

Authenticate(p, s) == s \in access /\ Begin(p, s, "getAccess")
Refresh(p, s) == s \in refresh /\ Begin(p, s, "getRefresh")

GetSession(p) ==
    /\ op[p].pc \in {"getAccess", "getRefresh"}
    /\ IF op[p].session \in sessions
       THEN Enter(p, IF op[p].pc = "getAccess" THEN "checkAccess" ELSE "checkRefresh")
       ELSE End(p)
    /\ UNCHANGED <<account, row, storeVars, known, tokenVars, limitVars>>

\* what the database says of a session whose token of kind t is used
Valid(s, t) == row[s].status = "active" /\ row[s][t] = "valid" /\ Active(row[s].owner)

\* A session the database does not confirm is deleted from the store as a whole.
\* One it confirms goes on with its request: of those, only the change of the
\* own password writes here.
Check(p) ==
    /\ \/ /\ op[p].pc = "checkAccess" /\ Valid(op[p].session, "access")
          /\ End(p) \/ Enter(p, "revokeOthers")
       \/ /\ op[p].pc = "checkRefresh" /\ Valid(op[p].session, "refresh")
          /\ op' = [op EXCEPT ![p] = [@ EXCEPT !.pc = "issue", !.account = row[op[p].session].owner]]
       \/ /\ op[p].pc = "checkAccess" /\ ~Valid(op[p].session, "access")
          /\ Enter(p, "dropAccess")
       \/ /\ op[p].pc = "checkRefresh" /\ ~Valid(op[p].session, "refresh")
          /\ Enter(p, "dropAccess")
    /\ UNCHANGED <<account, row, storeVars, known, tokenVars, limitVars>>

\* MemorySessionStore::delete_session
DropAccess(p) ==
    /\ op[p].pc = "dropAccess"
    /\ access' = access \ {op[p].session}
    /\ Enter(p, "dropRefresh")
    /\ UNCHANGED <<account, row, refresh, sessions, known, tokenVars, limitVars>>

DropRefresh(p) ==
    /\ op[p].pc = "dropRefresh"
    /\ refresh' = refresh \ {op[p].session}
    /\ Enter(p, "dropSession")
    /\ UNCHANGED <<account, row, access, sessions, known, tokenVars, limitVars>>

DropSession(p) ==
    /\ op[p].pc = "dropSession"
    /\ sessions' = sessions \ {op[p].session}
    /\ End(p)
    /\ UNCHANGED <<account, row, access, refresh, known, tokenVars, limitVars>>

-----------------------------------------------------------------------------
(* logout, revoke_admin_session and the end of refresh *)

\* A client leaves its session, or an administrator ends one from the list.
Revoke(p, s) ==
    /\ op[p].pc = "idle" /\ row[s].status # "none"
    /\ op' = [op EXCEPT ![p] = [Idle EXCEPT !.pc = "revoke", !.session = s]]
    /\ UNCHANGED <<account, row, storeVars, known, tokenVars, limitVars>>

\* Mutant: the database is not asked to revoke the session
RevokeRow_StoreOnly(p) ==
    /\ op[p].pc = "revoke"
    /\ row' = row
    /\ Enter(p, "forget")
    /\ UNCHANGED <<account, storeVars, known, tokenVars, limitVars>>

\* revoke_session_record
RevokeRow(p) ==
    /\ op[p].pc = "revoke"
    /\ row' = [row EXCEPT ![op[p].session].status = "revoked"]
    /\ Enter(p, "forget")
    /\ UNCHANGED <<account, storeVars, known, tokenVars, limitVars>>

Finished(p) ==
    /\ End(p)
    /\ known' = IF op[p].new = None THEN known ELSE known \cup {op[p].new}

\* MemorySessionStore::delete_session_by_id
Forget(p) ==
    /\ op[p].pc = "forget"
    /\ sessions' = sessions \ {op[p].session}
    /\ IF op[p].session \in sessions THEN Enter(p, "forgetAccess") /\ known' = known
       ELSE Finished(p)
    /\ UNCHANGED <<account, row, access, refresh, tokenVars, limitVars>>

ForgetAccess(p) ==
    /\ op[p].pc = "forgetAccess"
    /\ access' = access \ {op[p].session}
    /\ Enter(p, "forgetRefresh")
    /\ UNCHANGED <<account, row, refresh, sessions, known, tokenVars, limitVars>>

ForgetRefresh(p) ==
    /\ op[p].pc = "forgetRefresh"
    /\ refresh' = refresh \ {op[p].session}
    /\ Finished(p)
    /\ UNCHANGED <<account, row, access, sessions, tokenVars, limitVars>>

-----------------------------------------------------------------------------
(* set_account_status, reset_account_password, changes of roles *)

\* The account is disabled, or locked after failed logins, and its sessions end.
Disable(p, a) ==
    /\ op[p].pc = "idle" /\ (account[a] = "active" => MoreEvents)
    /\ account' = [account EXCEPT ![a] = "disabled"]
    /\ op' = [op EXCEPT ![p] = [Idle EXCEPT !.pc = "revokeAll", !.account = a]]
    /\ UNCHANGED <<row, storeVars, known, tokenVars, limitVars>>

\* A new password, other roles or other permissions of a role end them as well.
ChangeAccount(p, a) ==
    /\ op[p].pc = "idle" /\ (account[a] = "active" => MoreEvents)
    /\ account' = [account EXCEPT ![a] = IF @ = "active" THEN "changed" ELSE @]
    /\ op' = [op EXCEPT ![p] = [Idle EXCEPT !.pc = "revokeAll", !.account = a]]
    /\ UNCHANGED <<row, storeVars, known, tokenVars, limitVars>>

Enable(a) ==
    /\ account[a] = "disabled"
    /\ account' = [account EXCEPT ![a] = "changed"]
    /\ UNCHANGED <<row, storeVars, known, op, tokenVars, limitVars>>

Revoked(a, kept) ==
    [s \in Session |-> IF row[s].owner = a /\ row[s].status = "active" /\ s \notin kept
                       THEN [row[s] EXCEPT !.status = "revoked"] ELSE row[s]]

\* revoke_sessions_by_account
RevokeAll(p) ==
    /\ op[p].pc = "revokeAll"
    /\ row' = Revoked(op[p].account, {})
    /\ Enter(p, "forgetAll")
    /\ UNCHANGED <<account, storeVars, known, tokenVars, limitVars>>

\* MemorySessionStore::delete_sessions_by_account
ForgetAll(p) ==
    /\ op[p].pc = "forgetAll"
    /\ LET removed == {s \in sessions : row[s].owner = op[p].account} IN
       /\ sessions' = sessions \ removed
       /\ op' = [op EXCEPT ![p] = [@ EXCEPT !.pc = "forgetIndices", !.todo = removed]]
    /\ UNCHANGED <<account, row, access, refresh, known, tokenVars, limitVars>>

\* Mutant: the refresh tokens stay in their index
ForgetIndices_AccessOnly(p) ==
    /\ op[p].pc = "forgetIndices"
    /\ access' = access \ op[p].todo
    /\ End(p)
    /\ UNCHANGED <<account, row, refresh, sessions, known, tokenVars, limitVars>>

\* with both locks held
ForgetIndices(p) ==
    /\ op[p].pc = "forgetIndices"
    /\ access' = access \ op[p].todo
    /\ refresh' = refresh \ op[p].todo
    /\ End(p)
    /\ UNCHANGED <<account, row, sessions, known, tokenVars, limitVars>>

\* change_own_password: the other sessions are revoked and stay in the store.
RevokeOthers(p) ==
    /\ op[p].pc = "revokeOthers"
    /\ row' = Revoked(row[op[p].session].owner, {op[p].session})
    /\ End(p)
    /\ UNCHANGED <<account, storeVars, known, tokenVars, limitVars>>

-----------------------------------------------------------------------------
(* authenticate_api_token *)

CallUnchanged == <<account, row, storeVars, known, op>>

\* Mutant: the limit is compared after the request was counted
QuotaFree_OneMore == token.count <= MaxCalls

QuotaFree == token.count < MaxCalls

\* The transaction that counts the request
Admit(c) ==
    /\ call[c] = "idle"
    /\ token.status = "active" /\ Active(token.owner)
    /\ QuotaFree
    /\ token' = [token EXCEPT !.count = @ + 1]
    /\ call' = [call EXCEPT ![c] = "admitted"]
    /\ UNCHANGED <<limitVars, CallUnchanged>>

\* Mutant: the slot is given back as soon as the token is accepted
Permit_GivesBack(c) ==
    /\ call[c] = "admitted"
    /\ call' = [call EXCEPT ![c] = "served"]
    /\ token' = [token EXCEPT !.count = IF @ > 0 THEN @ - 1 ELSE 0]
    /\ UNCHANGED <<limitVars, CallUnchanged>>

\* The roles are read and the permit is made ...
Permit(c) ==
    /\ call[c] = "admitted"
    /\ call' = [call EXCEPT ![c] = "served"]
    /\ UNCHANGED <<token, limitVars, CallUnchanged>>

\* ... or not: an error, or a future dropped here, gives nothing back.
LoseSlot(c) ==
    /\ call[c] = "admitted"
    /\ MoreEvents /\ lost' = lost + 1
    /\ call' = [call EXCEPT ![c] = "idle"]
    /\ UNCHANGED <<token, crashes, drops, CallUnchanged>>

\* The request ends, however it ends, and ApiTokenRequestPermit::drop spawns
\* the statement that gives the slot back.
EndCall(c) ==
    /\ call[c] = "served"
    /\ call' = [call EXCEPT ![c] = "returning"]
    /\ UNCHANGED <<token, limitVars, CallUnchanged>>

\* Mutant: the statement is not spawned
GiveBack_Never(c) ==
    /\ call[c] = "returning"
    /\ call' = [call EXCEPT ![c] = "idle"]
    /\ UNCHANGED <<token, limitVars, CallUnchanged>>

GiveBack(c) ==
    /\ call[c] = "returning"
    /\ token' = [token EXCEPT !.count = IF @ > 0 THEN @ - 1 ELSE 0]
    /\ call' = [call EXCEPT ![c] = "idle"]
    /\ UNCHANGED <<limitVars, CallUnchanged>>

\* An error of that statement is thrown away, and the slot with it.
GiveBackFails(c) ==
    /\ call[c] = "returning"
    /\ MoreEvents /\ lost' = lost + 1
    /\ call' = [call EXCEPT ![c] = "idle"]
    /\ UNCHANGED <<token, crashes, drops, CallUnchanged>>

\* revoke_api_token
RevokeToken ==
    /\ token.status = "active"
    /\ token' = [token EXCEPT !.status = "revoked"]
    /\ UNCHANGED <<call, limitVars, CallUnchanged>>

-----------------------------------------------------------------------------
(* Time, failures and the process *)

\* A session's tokens expire, the access token first.
Expire(s) ==
    /\ row[s].status # "none" /\ row[s].refresh = "valid" /\ MoreEvents
    /\ row' = [row EXCEPT ![s] = IF @.access = "valid" THEN [@ EXCEPT !.access = "expired"]
                                 ELSE [@ EXCEPT !.refresh = "expired"]]
    /\ UNCHANGED <<account, storeVars, known, op, tokenVars, limitVars>>

\* The client goes away, or the database fails, in the middle of an operation.
DropOperation(p) ==
    /\ op[p].pc # "idle"
    /\ MoreEvents /\ drops' = drops + 1
    /\ End(p)
    /\ UNCHANGED <<account, row, storeVars, known, tokenVars, crashes, lost>>

Crash ==
    /\ MoreEvents /\ crashes' = crashes + 1
    /\ access' = {} /\ refresh' = {} /\ sessions' = {}
    /\ op' = [p \in Operation |-> Idle]
    /\ call' = [c \in Call |-> "idle"]
    /\ UNCHANGED <<account, row, known, token, drops, lost>>

-----------------------------------------------------------------------------
OperationStep(p) ==
    \/ Issue(p) \/ SaveAccess(p) \/ SaveRefresh(p) \/ SaveSession(p)
    \/ GetSession(p) \/ Check(p) \/ DropAccess(p) \/ DropRefresh(p) \/ DropSession(p)
    \/ RevokeRow(p) \/ Forget(p) \/ ForgetAccess(p) \/ ForgetRefresh(p)
    \/ RevokeAll(p) \/ ForgetAll(p) \/ ForgetIndices(p) \/ RevokeOthers(p)

CallStep(c) ==
    \/ Admit(c) \/ Permit(c) \/ LoseSlot(c) \/ EndCall(c) \/ GiveBack(c) \/ GiveBackFails(c)

Next ==
    \/ \E p \in Operation, a \in Account : Login(p, a) \/ Disable(p, a) \/ ChangeAccount(p, a)
    \/ \E p \in Operation, s \in Session : Authenticate(p, s) \/ Refresh(p, s) \/ Revoke(p, s)
    \/ \E p \in Operation : OperationStep(p) \/ DropOperation(p)
    \/ \E a \in Account : Enable(a)
    \/ \E s \in Session : Expire(s)
    \/ \E c \in Call : CallStep(c)
    \/ RevokeToken
    \/ Crash

Spec == Init /\ [][Next]_vars

-----------------------------------------------------------------------------
(* Properties *)

\* Every row and every future has its type; a token counts no more than it may.
TypeOK ==
    /\ account \in [Account -> {"active", "disabled", "changed"}]
    /\ row \in [Session -> Row]
    /\ access \subseteq Session /\ refresh \subseteq Session /\ sessions \subseteq Session
    /\ known \subseteq Session
    /\ op \in [Operation -> Future]
    /\ token \in [status : {"active", "revoked"}, owner : Account, count : 0 .. MaxCalls]
    /\ call \in [Call -> {"idle", "admitted", "served", "returning"}]
    /\ crashes \in 0 .. MaxEvents /\ drops \in 0 .. MaxEvents /\ lost \in 0 .. MaxEvents

Quiet == \A p \in Operation : op[p].pc = "idle"

\* The three maps of the store are written under three locks, in different
\* orders by save, delete_session, delete_session_by_id and
\* delete_sessions_by_account: whatever they interleave, unless one is dropped
\* half way they hold the same sessions when all is done.
StoreAgrees == Quiet /\ drops = 0 => access = sessions /\ refresh = sessions

\* No operation on other sessions, and no clean-up that comes late, ends a
\* session that is good: its client has the tokens, the database has it active
\* and not expired, no operation was to end all sessions of its account (one
\* that overlaps a login may forget the session the login has just saved, and
\* leave its row active), and the console has not been restarted.
LiveSessionIsKept ==
    crashes = 0 =>
        \A s \in known : account[row[s].owner] = "active" /\ Valid(s, "access") =>
            s \in access \cap refresh \cap sessions

\* Whatever is revoked, dropped or restarted, no more requests than the token
\* allows are served at once.
QuotaHolds == Cardinality({c \in Call : call[c] = "served"}) <= MaxCalls

\* The slots of a token are accounted for: until a restart the count is that of the
\* requests under way and of the slots that a failure has lost, which is an error or a
\* dropped future between the count and the permit, or an error of the statement that
\* gives the slot back.  Every other slot comes back, and none comes back twice.
SlotsReturn ==
    crashes = 0 => token.count = Cardinality({c \in Call : call[c] # "idle"}) + lost
=============================================================================
