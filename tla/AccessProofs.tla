----------------------------- MODULE AccessProofs -----------------------------
(***************************************************************************)
(* Proofs about Access, for every value of its constants.                  *)
(*                                                                         *)
(* Inv adds to TypeOK what an operation knows: the session it is about was *)
(* issued, and rows of sessions that were issued keep their owner.         *)
(* Counted relates the count of the token to the requests under way.       *)
(* Store says, of every session, which of the three maps have it while an  *)
(* operation saves it or takes it away, and that where they differ an      *)
(* operation is on its way that will make them agree.                      *)
(* LiveKept says that no operation will take a live session out of the     *)
(* store, and that a session told to its client is in it.                  *)
(***************************************************************************)
EXTENDS Access, FiniteSetTheorems, TLAPS

\* where an operation is: it saves a session, it is about one, about an account
Pcs == {"idle", "issue", "saveAccess", "saveRefresh", "saveSession",
        "getAccess", "checkAccess", "getRefresh", "checkRefresh",
        "dropAccess", "dropRefresh", "dropSession",
        "revoke", "forget", "forgetAccess", "forgetRefresh",
        "revokeAll", "forgetAll", "forgetIndices", "revokeOthers"}
Saving == {"saveAccess", "saveRefresh", "saveSession"}
OfSession == {"getAccess", "checkAccess", "getRefresh", "checkRefresh", "dropAccess",
              "dropRefresh", "dropSession", "revoke", "forget", "forgetAccess",
              "forgetRefresh", "revokeOthers"}

Issued(s) == row[s].status # "none"

\* An operation knows the sessions and the account that it needs.
Knows(d) ==
    /\ d.pc \in Saving => d.new \in Session
    /\ d.pc \in OfSession => d.session \in Session
    /\ d.pc = "issue" => d.account \in Account
    /\ d.session \in Session => Issued(d.session)
    /\ d.new \in Session => Issued(d.new)

\* Whoever is issued has an owner, and the client is told of no other session.
RowKnown(s) == (Issued(s) => row[s].owner \in Account) /\ (s \in known => Issued(s))

Inv ==
    /\ TypeOK
    /\ \A p \in Operation : Knows(op[p])
    /\ \A s \in Session : RowKnown(s)
-----------------------------------------------------------------------------
(* One step of one future. *)

LEMMA IdleFuture ==
    /\ Idle \in Future /\ Knows(Idle)
    /\ Idle.pc = "idle" /\ Idle.session = None /\ Idle.new = None /\ Idle.todo = {}
BY NoneAssumption DEF Idle, Future, Knows, Saving, OfSession

\* a future c that becomes d: how the steps that write `op' write it
Enters(c, d, pc) ==
    d.pc = pc /\ d.account = c.account /\ d.session = c.session /\ d.new = c.new /\ d.todo = c.todo
Begins(d, pc, a, s) ==
    d.pc = pc /\ d.account = a /\ d.session = s /\ d.new = None /\ d.todo = {}

Writes(p, d) == /\ d \in Future /\ op'[p] = d
                /\ op' \in [Operation -> Future]
                /\ \A q \in Operation \ {p} : op'[q] = op[q]

LEMMA OneOp ==
    ASSUME NEW p \in Operation, NEW d \in Future, op \in [Operation -> Future],
           op' = [op EXCEPT ![p] = d]
    PROVE  Writes(p, d)
BY DEF Writes

LEMMA EnterStep ==
    ASSUME TypeOK, NEW p \in Operation, NEW pc \in Pcs, Enter(p, pc)
    PROVE  \E d : Writes(p, d) /\ Enters(op[p], d, pc)
<1> DEFINE c == op[p]
           d == [c EXCEPT !.pc = pc]
<1>1. c \in Future /\ op \in [Operation -> Future]
  BY DEF TypeOK
<1>2. op' = [op EXCEPT ![p] = d]
  BY DEF Enter
<1> HIDE DEF c
<1>3. d \in Future
  BY <1>1 DEF Future, Pcs
<1>4. /\ d.pc = pc /\ d.account = c.account /\ d.session = c.session
      /\ d.new = c.new /\ d.todo = c.todo
  BY <1>1 DEF Future
<1> HIDE DEF d
<1> QED BY <1>1, <1>2, <1>3, <1>4, OneOp DEF c, Enters

LEMMA EndStep ==
    ASSUME TypeOK, NEW p \in Operation, End(p)
    PROVE  Writes(p, Idle)
BY IdleFuture, OneOp DEF End, TypeOK

LEMMA BeginForAccount ==
    ASSUME TypeOK, NEW p \in Operation, NEW pc \in Pcs, NEW a \in Account,
           op' = [op EXCEPT ![p] = [Idle EXCEPT !.pc = pc, !.account = a]]
    PROVE  \E d : Writes(p, d) /\ Begins(d, pc, a, None)
<1> DEFINE d == [Idle EXCEPT !.pc = pc, !.account = a]
<1>1. d \in Future /\ Begins(d, pc, a, None)
  BY DEF Idle, Future, Pcs, Begins
<1>2. op' = [op EXCEPT ![p] = d] /\ op \in [Operation -> Future]
  BY DEF TypeOK
<1> HIDE DEF d
<1> QED BY <1>1, <1>2, OneOp

LEMMA BeginForSession ==
    ASSUME TypeOK, NEW p \in Operation, NEW pc \in Pcs, NEW s \in Session,
           op' = [op EXCEPT ![p] = [Idle EXCEPT !.pc = pc, !.session = s]]
    PROVE  \E d : Writes(p, d) /\ Begins(d, pc, None, s)
<1> DEFINE d == [Idle EXCEPT !.pc = pc, !.session = s]
<1>1. d \in Future /\ Begins(d, pc, None, s)
  BY DEF Idle, Future, Pcs, Begins
<1>2. op' = [op EXCEPT ![p] = d] /\ op \in [Operation -> Future]
  BY DEF TypeOK
<1> HIDE DEF d
<1> QED BY <1>1, <1>2, OneOp

LEMMA UnusedSession ==
    ASSUME NEW U \in SUBSET Session, NEW s \in First(U)
    PROVE  s \in U
BY DEF First

LEMMA IssueStep ==
    ASSUME Inv, NEW p \in Operation, Issue(p)
    PROVE  \E s \in Session, d \in Future :
              /\ ~Issued(s) /\ op[p].pc = "issue" /\ op[p].account \in Account
              /\ row' \in [Session -> Row]
              /\ row'[s].status = "active" /\ row'[s].owner = op[p].account
              /\ row'[s].access = "valid" /\ row'[s].refresh = "valid"
              /\ \A t \in Session \ {s} : row'[t] = row[t]
              /\ Writes(p, d) /\ d.pc = "saveAccess" /\ d.new = s
              /\ d.session = op[p].session /\ d.account = op[p].account /\ d.todo = op[p].todo
<1> DEFINE c == op[p]
           a == c.account
<1>0. /\ c \in Future /\ op \in [Operation -> Future] /\ row \in [Session -> Row]
      /\ op[p].pc = "issue" /\ a \in Account
  BY DEF Inv, TypeOK, Knows, Issue
<1> DEFINE x == [NoRow EXCEPT !.status = "active", !.owner = a]
<1>1. PICK s \in First({t \in Session : row[t].status = "none"}) :
          /\ row' = [row EXCEPT ![s] = x]
          /\ op' = [op EXCEPT ![p] = [c EXCEPT !.pc = "saveAccess", !.new = s]]
  BY DEF Issue
<1> DEFINE d == [c EXCEPT !.pc = "saveAccess", !.new = s]
<1>2. s \in Session /\ ~Issued(s)
  BY UnusedSession DEF Issued
<1>3. op' = [op EXCEPT ![p] = d]
  BY <1>1
<1> HIDE DEF c
<1>4. /\ x \in Row /\ x.status = "active" /\ x.owner = a
      /\ x.access = "valid" /\ x.refresh = "valid"
  BY <1>0 DEF NoRow, Row
<1>5. /\ d \in Future /\ d.pc = "saveAccess" /\ d.new = s
      /\ d.session = c.session /\ d.account = c.account /\ d.todo = c.todo
  BY <1>0, <1>2 DEF Future
<1> HIDE DEF d, x
<1>6. Writes(p, d)
  BY <1>0, <1>3, <1>5, OneOp
<1>7. row' \in [Session -> Row] /\ row'[s] = x /\ \A t \in Session \ {s} : row'[t] = row[t]
  BY <1>0, <1>1, <1>2, <1>4
<1> QED BY <1>0, <1>2, <1>4, <1>5, <1>6, <1>7 DEF c
-----------------------------------------------------------------------------
(* Rows and types. *)

\* a row that stays, with its owner, or is revoked or expires
Stays(r, t) == r.status # "none" => t.status # "none" /\ t.owner = r.owner
Blank(r, t) == r.status = "none" => t.status = "none"

LEMMA RevokedRow ==
    ASSUME NEW r \in Row
    PROVE  LET t == [r EXCEPT !.status = "revoked"] IN
           /\ t \in Row /\ t.status = "revoked" /\ t.owner = r.owner
           /\ t.access = r.access /\ t.refresh = r.refresh
BY DEF Row

LEMMA RevokedRows ==
    ASSUME TypeOK, NEW a, NEW kept
    PROVE  /\ Revoked(a, kept) \in [Session -> Row]
           /\ \A s \in Session : Stays(row[s], Revoked(a, kept)[s]) /\ Blank(row[s], Revoked(a, kept)[s])
<1>1. row \in [Session -> Row]
  BY DEF TypeOK
<1> QED BY <1>1, RevokedRow DEF Revoked, Stays, Blank

\* every step but the one that issues a session
LEMMA OldRows ==
    ASSUME Inv, [Next]_vars, ~\E p \in Operation : Issue(p)
    PROVE  /\ row' \in [Session -> Row]
           /\ \A s \in Session : Stays(row[s], row'[s]) /\ Blank(row[s], row'[s])
<1> DEFINE Goal == /\ row' \in [Session -> Row]
                   /\ \A s \in Session : Stays(row[s], row'[s]) /\ Blank(row[s], row'[s])
<1>0. row \in [Session -> Row] /\ TypeOK
  BY DEF Inv, TypeOK
<1>1. CASE UNCHANGED row
  BY <1>0, <1>1 DEF Stays, Blank
<1>2. ASSUME NEW s \in Session, NEW x \in Row, Stays(row[s], x), Blank(row[s], x),
             row' = [row EXCEPT ![s] = x]
      PROVE  Goal
  BY <1>0, <1>2 DEF Stays, Blank
<1>3. ASSUME NEW p \in Operation, RevokeRow(p)
      PROVE  Goal
  <2> DEFINE s == op[p].session
             x == [row[s] EXCEPT !.status = "revoked"]
  <2>1. s \in Session /\ Issued(s) /\ row[s] \in Row
    BY <1>0, <1>3 DEF RevokeRow, Inv, Knows, OfSession
  <2>2. row' = [row EXCEPT ![s] = x]
    BY <1>3 DEF RevokeRow
  <2>3. x \in Row /\ x.status = "revoked" /\ x.owner = row[s].owner
    BY <2>1, RevokedRow
  <2> HIDE DEF x, s
  <2> QED BY <1>2, <2>1, <2>2, <2>3 DEF Stays, Blank, Issued
<1>4. ASSUME NEW p \in Operation, RevokeAll(p) \/ RevokeOthers(p)
      PROVE  Goal
  BY <1>0, <1>4, RevokedRows DEF RevokeAll, RevokeOthers
<1>5. ASSUME NEW s \in Session, Expire(s)
      PROVE  Goal
  <2> DEFINE r == row[s]
             x == [r EXCEPT !.access = "expired"]
             y == [r EXCEPT !.refresh = "expired"]
  <2>1. r \in Row
    BY <1>0
  <2>2. row' = [row EXCEPT ![s] = x] \/ row' = [row EXCEPT ![s] = y]
    BY <1>5 DEF Expire
  <2>3. x \in Row /\ x.status = r.status /\ x.owner = r.owner
    BY <2>1 DEF Row
  <2>4. y \in Row /\ y.status = r.status /\ y.owner = r.owner
    BY <2>1 DEF Row
  <2> HIDE DEF x, y
  <2> QED BY <1>2, <2>2, <2>3, <2>4 DEF Stays, Blank
<1> QED BY <1>1, <1>3, <1>4, <1>5
  DEF Next, vars, Login, Begin, Authenticate, Refresh, Revoke, Disable, ChangeAccount, Enable,
      OperationStep, SaveAccess, SaveRefresh, SaveSession, GetSession, Check, DropAccess,
      DropRefresh, DropSession, Forget, ForgetAccess, ForgetRefresh, ForgetAll, ForgetIndices,
      DropOperation, CallStep, Admit, Permit, LoseSlot, EndCall, GiveBack,
      GiveBackFails, RevokeToken, Crash,
      CallUnchanged

LEMMA RowsStay ==
    ASSUME Inv, [Next]_vars
    PROVE  /\ row' \in [Session -> Row]
           /\ \A s \in Session : Stays(row[s], row'[s]) /\ (Issued(s)' => row'[s].owner \in Account)
<1>1. ASSUME NEW p \in Operation, Issue(p)
      PROVE  /\ row' \in [Session -> Row]
             /\ \A s \in Session : Stays(row[s], row'[s]) /\ (Issued(s)' => row'[s].owner \in Account)
  BY <1>1, IssueStep DEF Stays, Issued, Inv, RowKnown
<1> QED BY <1>1, OldRows DEF Stays, Blank, Issued, Inv, RowKnown
-----------------------------------------------------------------------------
(* Operations and types. *)

OpsKnow == op \in [Operation -> Future] /\ \A q \in Operation : Knows(op[q])

LEMMA OpGoes ==
    ASSUME Inv, [Next]_vars, NEW p \in Operation, NEW d, Writes(p, d),
           Knows(d) \/ Knows(d)'
    PROVE  OpsKnow'
<1>1. \A s \in Session : Issued(s) => Issued(s)'
  BY RowsStay DEF Stays, Issued
<1>2. ASSUME NEW e, Knows(e)
      PROVE  Knows(e)'
  BY <1>1, <1>2 DEF Knows
<1>3. Knows(d)'
  BY <1>2
<1>4. ASSUME NEW q \in Operation
      PROVE  Knows(op[q])'
  BY <1>2, <1>3 DEF Writes, Inv
<1> QED BY <1>4 DEF Writes, OpsKnow

LEMMA OpEnters ==
    ASSUME Inv, [Next]_vars, NEW p \in Operation, NEW pc \in Pcs \ {"issue"}, Enter(p, pc),
           pc \in Saving => op[p].new \in Session,
           pc \in OfSession => op[p].session \in Session
    PROVE  OpsKnow'
<1>1. PICK d : Writes(p, d) /\ Enters(op[p], d, pc)
  BY EnterStep DEF Inv
<1>2. Knows(d)
  BY <1>1 DEF Inv, Knows, Enters
<1> QED BY <1>1, <1>2, OpGoes

LEMMA OpEnds ==
    ASSUME Inv, [Next]_vars, NEW p \in Operation, End(p)
    PROVE  OpsKnow'
BY EndStep, IdleFuture, OpGoes DEF Inv

LEMMA OpBegins ==
    ASSUME Inv, [Next]_vars, NEW p \in Operation,
           \/ \E a \in Account : Login(p, a) \/ Disable(p, a) \/ ChangeAccount(p, a)
           \/ \E s \in Session : Authenticate(p, s) \/ Refresh(p, s) \/ Revoke(p, s)
    PROVE  OpsKnow'
<1>1. ASSUME NEW a \in Account, NEW pc \in {"issue", "revokeAll"},
             op' = [op EXCEPT ![p] = [Idle EXCEPT !.pc = pc, !.account = a]]
      PROVE  OpsKnow'
  <2>1. PICK d : Writes(p, d) /\ Begins(d, pc, a, None)
    BY <1>1, BeginForAccount DEF Inv, Pcs
  <2>2. Knows(d)
    BY <1>1, <2>1, NoneAssumption DEF Knows, Begins, Saving, OfSession
  <2> QED BY <2>1, <2>2, OpGoes
<1>2. ASSUME NEW s \in Session, NEW pc \in {"getAccess", "getRefresh", "revoke"}, Issued(s),
             op' = [op EXCEPT ![p] = [Idle EXCEPT !.pc = pc, !.session = s]]
      PROVE  OpsKnow'
  <2>1. PICK d : Writes(p, d) /\ Begins(d, pc, None, s)
    BY <1>2, BeginForSession DEF Inv, Pcs
  <2>2. Knows(d)
    BY <1>2, <2>1, NoneAssumption DEF Knows, Begins, Saving, OfSession
  <2> QED BY <2>1, <2>2, OpGoes
<1>3. ASSUME NEW a \in Account, Login(p, a) \/ Disable(p, a) \/ ChangeAccount(p, a)
      PROVE  OpsKnow'
  BY <1>1, <1>3 DEF Login, Disable, ChangeAccount
<1>4. ASSUME NEW s \in Session, Authenticate(p, s) \/ Refresh(p, s) \/ Revoke(p, s)
      PROVE  OpsKnow'
  <2>1. Issued(s)
    BY <1>4 DEF Authenticate, Refresh, Begin, Revoke, Inv, RowKnown, Issued
  <2> QED BY <1>2, <1>4, <2>1 DEF Authenticate, Refresh, Begin, Revoke
<1> QED BY <1>3, <1>4

LEMMA CheckStep ==
    ASSUME Inv, NEW p \in Operation, Check(p)
    PROVE  \/ End(p)
           \/ Enter(p, "revokeOthers")
           \/ /\ op[p].pc \in {"checkAccess", "checkRefresh"} /\ Enter(p, "dropAccess")
              /\ ~Valid(op[p].session, "access") \/ ~Valid(op[p].session, "refresh")
           \/ \E d : /\ Writes(p, d) /\ d.pc = "issue" /\ d.account \in Account
                     /\ d.session = op[p].session /\ d.new = op[p].new /\ d.todo = op[p].todo
<1> DEFINE c == op[p]
           a == row[c.session].owner
           d == [c EXCEPT !.pc = "issue", !.account = a]
<1>1. CASE /\ op[p].pc = "checkRefresh" /\ Valid(op[p].session, "refresh")
           /\ op' = [op EXCEPT ![p] = [@ EXCEPT !.pc = "issue", !.account = row[op[p].session].owner]]
  <2>1. c \in Future /\ c.session \in Session /\ op \in [Operation -> Future]
    BY <1>1 DEF Inv, TypeOK, Knows, OfSession
  <2>2. a \in Account
    BY <1>1, <2>1 DEF Valid, Inv, RowKnown, Issued
  <2>3. op' = [op EXCEPT ![p] = d]
    BY <1>1
  <2> HIDE DEF c, a
  <2>4. /\ d \in Future /\ d.pc = "issue" /\ d.account = a
        /\ d.session = c.session /\ d.new = c.new /\ d.todo = c.todo
    BY <2>1, <2>2 DEF Future
  <2> HIDE DEF d
  <2>5. Writes(p, d)
    BY <2>1, <2>3, <2>4, OneOp
  <2> QED BY <2>2, <2>4, <2>5 DEF c
<1> QED BY <1>1 DEF Check

LEMMA ForgetAllStep ==
    ASSUME Inv, NEW p \in Operation, ForgetAll(p)
    PROVE  \E d : /\ Writes(p, d) /\ d.pc = "forgetIndices" /\ d.account = op[p].account
                  /\ d.session = op[p].session /\ d.new = op[p].new
                  /\ d.todo \subseteq sessions /\ sessions' = sessions \ d.todo
                  /\ \A s \in d.todo : row[s].owner = op[p].account
<1> DEFINE c == op[p]
           removed == {s \in sessions : row[s].owner = op[p].account}
           d == [c EXCEPT !.pc = "forgetIndices", !.todo = removed]
<1>1. c \in Future /\ op \in [Operation -> Future] /\ removed \subseteq Session
  BY DEF Inv, TypeOK
<1>2. /\ op' = [op EXCEPT ![p] = d] /\ sessions' = sessions \ removed /\ removed \subseteq sessions
      /\ \A s \in removed : row[s].owner = c.account
  BY DEF ForgetAll
<1> HIDE DEF c, removed
<1>3. /\ d \in Future /\ d.pc = "forgetIndices" /\ d.account = c.account
      /\ d.session = c.session /\ d.new = c.new /\ d.todo = removed
  BY <1>1 DEF Future
<1> HIDE DEF d
<1>4. Writes(p, d)
  BY <1>1, <1>2, <1>3, OneOp
<1> QED BY <1>2, <1>3, <1>4 DEF c

LEMMA NextOps ==
    ASSUME Inv, [Next]_vars
    PROVE  OpsKnow'
<1>1. CASE UNCHANGED op
  <2>1. \A s \in Session : Issued(s) => Issued(s)'
    BY RowsStay DEF Stays, Issued
  <2> QED BY <1>1, <2>1 DEF OpsKnow, Knows, Inv, TypeOK
<1>2. ASSUME NEW p \in Operation, Issue(p)
      PROVE  OpsKnow'
  <2>1. PICK s \in Session, d \in Future :
            /\ row'[s].status = "active" /\ Writes(p, d) /\ d.pc = "saveAccess" /\ d.new = s
            /\ d.session = op[p].session
    BY <1>2, IssueStep
  <2>2. Knows(d)'
    BY <2>1, RowsStay DEF Knows, Issued, Saving, OfSession, Inv, Stays
  <2> QED BY <2>1, <2>2, OpGoes
<1>3. ASSUME NEW p \in Operation, Check(p)
      PROVE  OpsKnow'
  <2>1. op[p].session \in Session
    BY <1>3 DEF Check, Inv, Knows, OfSession
  <2>2. ASSUME NEW d, Writes(p, d), d.pc = "issue", d.account \in Account,
               d.session = op[p].session, d.new = op[p].new
        PROVE  OpsKnow'
    <3>1. Knows(d)
      BY <2>2 DEF Knows, Inv, Saving, OfSession
    <3> QED BY <2>2, <3>1, OpGoes
  <2> QED BY <1>3, <2>1, <2>2, CheckStep, OpEnds, OpEnters DEF Pcs, Saving, OfSession
<1>4. ASSUME NEW p \in Operation, ForgetAll(p)
      PROVE  OpsKnow'
  <2>1. PICK d : Writes(p, d) /\ d.pc = "forgetIndices" /\ d.session = op[p].session
                 /\ d.new = op[p].new
    BY <1>4, ForgetAllStep
  <2>2. Knows(d)
    BY <2>1 DEF Knows, Inv, Saving, OfSession
  <2> QED BY <2>1, <2>2, OpGoes
<1>5. ASSUME NEW p \in Operation,
             \/ SaveAccess(p) \/ SaveRefresh(p) \/ SaveSession(p)
             \/ GetSession(p) \/ DropAccess(p) \/ DropRefresh(p) \/ DropSession(p)
             \/ RevokeRow(p) \/ Forget(p) \/ ForgetAccess(p) \/ ForgetRefresh(p)
             \/ RevokeAll(p) \/ ForgetIndices(p) \/ RevokeOthers(p) \/ DropOperation(p)
      PROVE  OpsKnow'
  <2>1. op[p].pc \in Saving => op[p].new \in Session
    BY DEF Inv, Knows
  <2>2. op[p].pc \in OfSession \/ (op[p].session # None /\ SaveSession(p)) =>
            op[p].session \in Session
    BY DEF Inv, TypeOK, Knows, Future
  <2>3. \/ End(p)
        \/ \E pc \in Pcs \ {"issue"} :
              /\ Enter(p, pc)
              /\ pc \in Saving => op[p].pc \in Saving
              /\ pc \in OfSession => op[p].pc \in OfSession \/ (op[p].session # None /\ SaveSession(p))
    <3>1. CASE SaveAccess(p) \/ SaveRefresh(p) \/ SaveSession(p)
      BY <3>1 DEF SaveAccess, SaveRefresh, SaveSession, Pcs, Saving, OfSession
    <3>2. CASE GetSession(p) \/ DropAccess(p) \/ DropRefresh(p) \/ DropSession(p) \/ RevokeRow(p)
      BY <3>2 DEF GetSession, DropAccess, DropRefresh, DropSession, RevokeRow, Pcs, Saving, OfSession
    <3>3. CASE Forget(p) \/ ForgetAccess(p) \/ ForgetRefresh(p)
      BY <3>3 DEF Forget, ForgetAccess, ForgetRefresh, Finished, Pcs, Saving, OfSession
    <3>4. CASE RevokeAll(p) \/ ForgetIndices(p) \/ RevokeOthers(p) \/ DropOperation(p)
      BY <3>4 DEF RevokeAll, ForgetIndices, RevokeOthers, DropOperation, Pcs, Saving, OfSession
    <3> QED BY <1>5, <3>1, <3>2, <3>3, <3>4
  <2> QED BY <2>1, <2>2, <2>3, OpEnds, OpEnters
<1>6. CASE Crash
  <2>1. \A q \in Operation : op'[q] = Idle
    BY <1>6 DEF Crash
  <2>2. op' \in [Operation -> Future]
    BY <1>6, IdleFuture DEF Crash
  <2>3. Knows(Idle)'
    BY NoneAssumption DEF Idle, Knows, Saving, OfSession
  <2> QED BY <2>1, <2>2, <2>3 DEF OpsKnow
<1> QED BY <1>1, <1>2, <1>3, <1>4, <1>5, <1>6, OpBegins
  DEF Next, OperationStep, vars, Enable, Expire, CallStep, Admit, Permit, LoseSlot, EndCall,
      GiveBack, GiveBackFails, RevokeToken, CallUnchanged

LEMMA KnownTyped ==
    ASSUME Inv, [Next]_vars
    PROVE  known' \subseteq Session /\ \A s \in known' : Issued(s)'
<1>1. \A s \in Session : Issued(s) => Issued(s)'
  BY RowsStay DEF Stays, Issued
<1>2. known \subseteq Session /\ \A s \in known : Issued(s)
  BY DEF Inv, TypeOK, RowKnown
<1>3. ASSUME NEW p \in Operation, SaveSession(p) \/ Forget(p) \/ ForgetRefresh(p)
      PROVE  known' = known \/ (op[p].new \in Session /\ known' = known \cup {op[p].new})
  <2>1. op[p].new # None => op[p].new \in Session
    BY DEF Inv, TypeOK, Future
  <2>2. SaveSession(p) => op[p].new \in Session
    BY DEF SaveSession, Saving, Inv, Knows
  <2> QED BY <1>3, <2>1, <2>2 DEF SaveSession, Forget, ForgetRefresh, Finished
<1>4. ASSUME NEW p \in Operation, SaveSession(p) \/ Forget(p) \/ ForgetRefresh(p)
      PROVE  known' \subseteq Session /\ \A s \in known' : Issued(s)'
  <2>1. op[p].new \in Session => Issued(op[p].new)
    BY DEF Inv, Knows
  <2> QED BY <1>1, <1>2, <1>3, <1>4, <2>1
<1>5. CASE UNCHANGED known
  BY <1>1, <1>2, <1>5
<1> QED BY <1>4, <1>5
  DEF Next, vars, Login, Begin, Authenticate, Refresh, Revoke, Disable, ChangeAccount, Enable,
      OperationStep, Issue, SaveAccess, SaveRefresh, GetSession, Check, DropAccess,
      DropRefresh, DropSession, RevokeRow, ForgetAccess, RevokeAll, ForgetAll, ForgetIndices,
      RevokeOthers, DropOperation, Expire, CallStep, Admit, Permit, LoseSlot, EndCall, GiveBack,
      GiveBackFails,
      RevokeToken, Crash, CallUnchanged

LEMMA StoreTyped ==
    ASSUME Inv, [Next]_vars
    PROVE  access' \subseteq Session /\ refresh' \subseteq Session /\ sessions' \subseteq Session
<1>0. access \subseteq Session /\ refresh \subseteq Session /\ sessions \subseteq Session
  BY DEF Inv, TypeOK
<1>1. ASSUME NEW p \in Operation, SaveAccess(p) \/ SaveRefresh(p) \/ SaveSession(p)
      PROVE  access' \subseteq Session /\ refresh' \subseteq Session /\ sessions' \subseteq Session
  <2>1. op[p].new \in Session
    BY <1>1 DEF SaveAccess, SaveRefresh, SaveSession, Saving, Inv, Knows
  <2> QED BY <1>0, <1>1, <2>1 DEF SaveAccess, SaveRefresh, SaveSession
<1>2. ASSUME NEW p \in Operation,
             \/ DropAccess(p) \/ DropRefresh(p) \/ DropSession(p) \/ Forget(p)
             \/ ForgetAccess(p) \/ ForgetRefresh(p) \/ ForgetAll(p) \/ ForgetIndices(p)
      PROVE  access' \subseteq access /\ refresh' \subseteq refresh /\ sessions' \subseteq sessions
  BY <1>2
  DEF DropAccess, DropRefresh, DropSession, Forget, ForgetAccess, ForgetRefresh, ForgetAll,
      ForgetIndices
<1>3. CASE UNCHANGED storeVars \/ Crash
  BY <1>0, <1>3 DEF storeVars, Crash
<1> QED BY <1>0, <1>1, <1>2, <1>3
  DEF Next, vars, storeVars, Login, Begin, Authenticate, Refresh, Revoke, Disable, ChangeAccount,
      Enable, OperationStep, Issue, GetSession, Check, RevokeRow, RevokeAll, RevokeOthers,
      DropOperation, Expire, CallStep, Admit, Permit, LoseSlot, EndCall, GiveBack,
      GiveBackFails, RevokeToken,
      CallUnchanged

LEMMA EventsTyped ==
    ASSUME Inv, [Next]_vars
    PROVE  /\ account' \in [Account -> {"active", "disabled", "changed"}]
           /\ crashes' \in 0 .. MaxEvents /\ drops' \in 0 .. MaxEvents /\ lost' \in 0 .. MaxEvents
           /\ crashes' = 0 => crashes = 0
           /\ drops' = 0 => drops = 0
           /\ crashes' = crashes => lost' \in {lost, lost + 1}
<1> DEFINE Lost == Cardinality({a \in Account : account[a] # "active"})
<1>0. /\ account \in [Account -> {"active", "disabled", "changed"}]
      /\ crashes \in 0 .. MaxEvents /\ drops \in 0 .. MaxEvents /\ lost \in 0 .. MaxEvents
  BY DEF Inv, TypeOK
<1>1. Expired("access") \in Nat /\ Expired("refresh") \in Nat /\ Lost \in Nat
  BY SetsAssumption, FS_Subset, FS_CardinalityType DEF Expired
<1>2. MoreEvents => crashes < MaxEvents /\ drops < MaxEvents /\ lost < MaxEvents
  <2> HIDE DEF Lost
  <2>1. MoreEvents <=>
            crashes + drops + lost + Expired("access") + Expired("refresh") + Lost < MaxEvents
    BY DEF MoreEvents, Lost
  <2> QED BY <1>0, <1>1, <2>1, BoundAssumption
<1>3. ASSUME NEW p \in Operation, NEW a \in Account, Disable(p, a) \/ ChangeAccount(p, a)
      PROVE  account' \in [Account -> {"active", "disabled", "changed"}]
  BY <1>0, <1>3 DEF Disable, ChangeAccount
<1>4. ASSUME NEW a \in Account, Enable(a)
      PROVE  account' \in [Account -> {"active", "disabled", "changed"}]
  BY <1>0, <1>4 DEF Enable
<1>5. account' \in [Account -> {"active", "disabled", "changed"}]
  BY <1>0, <1>3, <1>4
  DEF Next, vars, Login, Begin, Authenticate, Refresh, Revoke,
      OperationStep, Issue, SaveAccess, SaveRefresh, SaveSession, GetSession, Check, DropAccess,
      DropRefresh, DropSession, RevokeRow, Forget, ForgetAccess, ForgetRefresh, RevokeAll,
      ForgetAll, ForgetIndices, RevokeOthers, DropOperation, Expire, CallStep, Admit, Permit,
      LoseSlot, EndCall, GiveBack, GiveBackFails, RevokeToken, Crash, CallUnchanged
<1>6. \/ UNCHANGED <<crashes, drops, lost>>
      \/ MoreEvents /\ crashes' = crashes /\ drops' = drops + 1 /\ lost' = lost
      \/ MoreEvents /\ crashes' = crashes /\ drops' = drops /\ lost' = lost + 1
      \/ MoreEvents /\ crashes' = crashes + 1 /\ drops' = drops /\ lost' = lost
  <2>1. ASSUME NEW p \in Operation, DropOperation(p)
        PROVE  MoreEvents /\ crashes' = crashes /\ drops' = drops + 1 /\ lost' = lost
    BY <2>1 DEF DropOperation
  <2>2. ASSUME NEW c \in Call, LoseSlot(c) \/ GiveBackFails(c)
        PROVE  MoreEvents /\ crashes' = crashes /\ drops' = drops /\ lost' = lost + 1
    BY <2>2 DEF LoseSlot, GiveBackFails
  <2>3. CASE Crash
    BY <2>3 DEF Crash
  <2>4. CASE UNCHANGED limitVars
    BY <2>4 DEF limitVars
  <2>5. ASSUME NEW p \in Operation, OperationStep(p)
        PROVE  UNCHANGED limitVars
    BY <2>5
    DEF OperationStep, Issue, SaveAccess, SaveRefresh, SaveSession, GetSession, Check, DropAccess,
        DropRefresh, DropSession, RevokeRow, Forget, ForgetAccess, ForgetRefresh, RevokeAll,
        ForgetAll, ForgetIndices, RevokeOthers
  <2>6. ASSUME NEW c \in Call, CallStep(c)
        PROVE  LoseSlot(c) \/ GiveBackFails(c) \/ UNCHANGED limitVars
    BY <2>6 DEF CallStep, Admit, Permit, EndCall, GiveBack
  <2>7. ASSUME \/ \E p \in Operation, a \in Account :
                      Login(p, a) \/ Disable(p, a) \/ ChangeAccount(p, a)
               \/ \E p \in Operation, s \in Session :
                      Authenticate(p, s) \/ Refresh(p, s) \/ Revoke(p, s)
        PROVE  UNCHANGED limitVars
    BY <2>7 DEF Login, Disable, ChangeAccount, Authenticate, Refresh, Begin, Revoke
  <2>8. ASSUME \/ \E a \in Account : Enable(a)
               \/ \E s \in Session : Expire(s)
               \/ RevokeToken
               \/ UNCHANGED vars
        PROVE  UNCHANGED limitVars
    BY <2>8 DEF Enable, Expire, RevokeToken, vars, limitVars
  <2> QED BY <2>1, <2>2, <2>3, <2>4, <2>5, <2>6, <2>7, <2>8 DEF Next
<1> QED BY <1>0, <1>2, <1>5, <1>6, BoundAssumption
-----------------------------------------------------------------------------
(* The token and its requests. *)

Token == [status : {"active", "revoked"}, owner : Account, count : 0 .. MaxCalls]
CallPcs == {"idle", "admitted", "served", "returning"}

\* what a step does to the count of the token and to its requests
LEMMA TokenMoves ==
    ASSUME Inv, [Next]_vars
    PROVE  \/ UNCHANGED <<token, call, lost>>
           \/ \E c \in Call, pc \in CallPcs \ {"idle"} :
                 /\ call[c] # "idle" /\ call' = [call EXCEPT ![c] = pc]
                 /\ UNCHANGED <<token, lost>>
           \/ \E c \in Call : /\ call[c] = "idle" /\ call' = [call EXCEPT ![c] = "admitted"]
                              /\ token.count < MaxCalls /\ lost' = lost
                              /\ token' = [token EXCEPT !.count = token.count + 1]
           \/ \E c \in Call : /\ call[c] # "idle" /\ call' = [call EXCEPT ![c] = "idle"]
                              /\ token' = token /\ lost' = lost + 1
           \/ \E c \in Call : /\ call[c] # "idle" /\ call' = [call EXCEPT ![c] = "idle"]
                              /\ lost' = lost
                              /\ token' = [token EXCEPT !.count = IF token.count > 0
                                                                  THEN token.count - 1 ELSE 0]
           \/ UNCHANGED <<call, lost>> /\ token' = [token EXCEPT !.status = "revoked"]
           \/ (\A c \in Call : call'[c] = "idle") /\ call' \in [Call -> {"idle"}] /\ token' = token
              /\ crashes' = crashes + 1
<1>1. CASE UNCHANGED <<tokenVars, lost>>
  BY <1>1 DEF tokenVars
<1>2. ASSUME NEW c \in Call, Permit(c) \/ EndCall(c)
      PROVE  \E pc \in CallPcs \ {"idle"} :
                /\ call[c] # "idle" /\ call' = [call EXCEPT ![c] = pc]
                /\ UNCHANGED <<token, lost>>
  BY <1>2 DEF Permit, EndCall, CallPcs, limitVars
<1>3. ASSUME NEW c \in Call, Admit(c)
      PROVE  /\ call[c] = "idle" /\ call' = [call EXCEPT ![c] = "admitted"]
             /\ token.count < MaxCalls /\ token' = [token EXCEPT !.count = token.count + 1]
             /\ lost' = lost
  BY <1>3 DEF Admit, QuotaFree, limitVars
<1>4. ASSUME NEW c \in Call, LoseSlot(c) \/ GiveBackFails(c)
      PROVE  /\ call[c] # "idle" /\ call' = [call EXCEPT ![c] = "idle"]
             /\ token' = token /\ lost' = lost + 1
  BY <1>4 DEF LoseSlot, GiveBackFails
<1>5. ASSUME NEW c \in Call, GiveBack(c)
      PROVE  /\ call[c] # "idle" /\ call' = [call EXCEPT ![c] = "idle"]
             /\ token' = [token EXCEPT !.count = IF token.count > 0 THEN token.count - 1 ELSE 0]
             /\ lost' = lost
  BY <1>5 DEF GiveBack, limitVars
<1>6. CASE RevokeToken
  BY <1>6 DEF RevokeToken, limitVars
<1>7. CASE Crash
  BY <1>7 DEF Crash
<1>8. ASSUME NEW p \in Operation, OperationStep(p) \/ DropOperation(p)
      PROVE  UNCHANGED <<tokenVars, lost>>
  <2>1. CASE \/ Issue(p) \/ SaveAccess(p) \/ SaveRefresh(p) \/ SaveSession(p)
             \/ GetSession(p) \/ Check(p) \/ DropAccess(p) \/ DropRefresh(p) \/ DropSession(p)
    BY <2>1
    DEF Issue, SaveAccess, SaveRefresh, SaveSession, GetSession, Check, DropAccess, DropRefresh,
        DropSession, limitVars
  <2>2. CASE \/ RevokeRow(p) \/ Forget(p) \/ ForgetAccess(p) \/ ForgetRefresh(p)
             \/ RevokeAll(p) \/ ForgetAll(p) \/ ForgetIndices(p) \/ RevokeOthers(p)
             \/ DropOperation(p)
    BY <2>2
    DEF RevokeRow, Forget, ForgetAccess, ForgetRefresh, RevokeAll, ForgetAll, ForgetIndices,
        RevokeOthers, DropOperation, limitVars
  <2> QED BY <1>8, <2>1, <2>2 DEF OperationStep
<1>9. ASSUME NEW p \in Operation,
             \/ \E a \in Account : Login(p, a) \/ Disable(p, a) \/ ChangeAccount(p, a)
             \/ \E s \in Session : Authenticate(p, s) \/ Refresh(p, s) \/ Revoke(p, s)
      PROVE  UNCHANGED <<tokenVars, lost>>
  BY <1>9 DEF Login, Begin, Authenticate, Refresh, Revoke, Disable, ChangeAccount, limitVars
<1>10. CASE (\E a \in Account : Enable(a)) \/ (\E s \in Session : Expire(s)) \/ UNCHANGED vars
  BY <1>1, <1>10 DEF Enable, Expire, vars, tokenVars, limitVars
<1>11. ASSUME NEW c \in Call, CallStep(c)
      PROVE  \/ Permit(c) \/ EndCall(c) \/ Admit(c)
             \/ LoseSlot(c) \/ GiveBack(c) \/ GiveBackFails(c)
  BY <1>11 DEF CallStep
<1> QED BY <1>1, <1>2, <1>3, <1>4, <1>5, <1>6, <1>7, <1>8, <1>9, <1>10, <1>11 DEF Next

LEMMA TokenTyped ==
    ASSUME Inv, [Next]_vars
    PROVE  token' \in Token /\ call' \in [Call -> CallPcs]
<1>0. token \in Token /\ call \in [Call -> CallPcs] /\ MaxCalls \in Nat
  BY QuotaAssumption DEF Inv, TypeOK, Token, CallPcs
<1>1. token' \in Token
  <2>1. ASSUME NEW n \in 0 .. MaxCalls, token' = [token EXCEPT !.count = n]
        PROVE  token' \in Token
    BY <1>0, <2>1 DEF Token
  <2>2. token.count < MaxCalls => token.count + 1 \in 0 .. MaxCalls
    BY <1>0 DEF Token
  <2>3. (IF token.count > 0 THEN token.count - 1 ELSE 0) \in 0 .. MaxCalls
    BY <1>0 DEF Token
  <2>4. token' = [token EXCEPT !.status = "revoked"] => token' \in Token
    BY <1>0 DEF Token
  <2> QED BY <1>0, <2>1, <2>2, <2>3, <2>4, TokenMoves
<1>2. call' \in [Call -> CallPcs]
  <2>1. ASSUME NEW c \in Call, NEW pc \in CallPcs, call' = [call EXCEPT ![c] = pc]
        PROVE  call' \in [Call -> CallPcs]
    BY <1>0, <2>1
  <2>2. call' \in [Call -> {"idle"}] => call' \in [Call -> CallPcs]
    BY DEF CallPcs
  <2> QED BY <1>0, <2>1, <2>2, TokenMoves DEF CallPcs
<1> QED BY <1>1, <1>2

LEMMA InitInv == Init => Inv
<1> SUFFICES ASSUME Init PROVE Inv
  OBVIOUS
<1>1. (CHOOSE a \in Account : TRUE) \in Account
  BY SetsAssumption
<1>2. TypeOK
  BY <1>1, QuotaAssumption, BoundAssumption, IdleFuture DEF Init, TypeOK, Row, NoRow
<1> QED BY <1>2, IdleFuture
  DEF Init, Inv, RowKnown, Issued, NoRow

LEMMA NextInv ==
    ASSUME Inv, [Next]_vars
    PROVE  Inv'
<1>1. TypeOK'
  BY RowsStay, KnownTyped, StoreTyped, EventsTyped, TokenTyped, NextOps
  DEF TypeOK, OpsKnow, Token, CallPcs
<1>2. \A s \in Session : RowKnown(s)'
  BY RowsStay, KnownTyped DEF RowKnown
<1> QED BY <1>1, <1>2, NextOps DEF Inv, OpsKnow

LEMMA Invariance == Spec => []Inv
<1>1. Init => Inv
  BY InitInv
<1>2. Inv /\ [Next]_vars => Inv'
  BY NextInv
<1> QED BY <1>1, <1>2, PTL DEF Spec

\* Every row and every future has its type, each operation knows its session or
\* account, and the count of a token stays between 0 and its limit.
THEOREM TypeCorrect == Spec => []TypeOK
<1>1. Inv => TypeOK
  BY DEF Inv
<1> QED BY <1>1, Invariance, PTL

InUse == {c \in Call : call[c] # "idle"}

\* The count covers every request under way, and until a restart it has one more
\* for each slot that a failure lost, and no more.
Counted ==
    /\ Cardinality(InUse) <= token.count
    /\ crashes = 0 => token.count = Cardinality(InUse) + lost

LEMMA CountedStep ==
    ASSUME Inv, Counted, [Next]_vars
    PROVE  Counted'
<1>0. /\ token \in Token /\ call \in [Call -> CallPcs]
      /\ IsFiniteSet(InUse) /\ Cardinality(InUse) \in Nat /\ token.count \in Nat
  <2>1. token \in Token /\ call \in [Call -> CallPcs] /\ MaxCalls \in Nat
    BY QuotaAssumption DEF Inv, TypeOK, Token, CallPcs
  <2>2. IsFiniteSet(InUse) /\ Cardinality(InUse) \in Nat
    BY SetsAssumption, FS_Subset, FS_CardinalityType DEF InUse
  <2> QED BY <2>1, <2>2 DEF Token
<1>1. /\ crashes' = 0 => crashes = 0 /\ crashes' # crashes + 1
      /\ lost \in Nat
  BY EventsTyped, BoundAssumption DEF Inv, TypeOK
<1>2. CASE InUse' = InUse /\ token'.count = token.count /\ lost' = lost
  BY <1>0, <1>1, <1>2 DEF Counted
<1>3. ASSUME NEW c \in Call, call[c] = "idle", call' = [call EXCEPT ![c] = "admitted"],
             token' = [token EXCEPT !.count = token.count + 1], lost' = lost
      PROVE  Counted'
  <2>1. InUse' = InUse \cup {c} /\ c \notin InUse
    BY <1>0, <1>3 DEF InUse
  <2>2. Cardinality(InUse') = Cardinality(InUse) + 1
    BY <1>0, <2>1, FS_AddElement
  <2>3. token'.count = token.count + 1
    BY <1>0, <1>3 DEF Token
  <2> QED BY <1>0, <1>1, <1>3, <2>2, <2>3 DEF Counted
<1>4. ASSUME NEW c \in Call, call[c] # "idle", call' = [call EXCEPT ![c] = "idle"]
      PROVE  Cardinality(InUse') = Cardinality(InUse) - 1 /\ Cardinality(InUse') \in Nat
  <2>1. InUse' = InUse \ {c} /\ c \in InUse
    BY <1>0, <1>4 DEF InUse
  <2>2. Cardinality(InUse') = Cardinality(InUse) - 1
    BY <1>0, <2>1, FS_RemoveElement
  <2>3. Cardinality(InUse') \in Nat
    BY <1>0, <2>1, FS_RemoveElement, FS_CardinalityType
  <2> QED BY <2>2, <2>3
<1>5. ASSUME NEW c \in Call, call[c] # "idle", call' = [call EXCEPT ![c] = "idle"],
             token' = token, lost' = lost + 1
      PROVE  Counted'
  <2>1. Cardinality(InUse') = Cardinality(InUse) - 1
    BY <1>4, <1>5
  <2> QED BY <1>0, <1>1, <1>5, <2>1 DEF Counted
<1>6. ASSUME NEW c \in Call, call[c] # "idle", call' = [call EXCEPT ![c] = "idle"],
             token' = [token EXCEPT !.count = IF token.count > 0 THEN token.count - 1 ELSE 0],
             lost' = lost
      PROVE  Counted'
  <2>1. Cardinality(InUse') = Cardinality(InUse) - 1 /\ Cardinality(InUse') \in Nat
    BY <1>4, <1>6
  <2>2. token'.count = token.count - 1
    BY <1>0, <1>6, <2>1 DEF Token, Counted
  <2> QED BY <1>0, <1>1, <1>6, <2>1, <2>2 DEF Counted
<1>7. ASSUME \A c \in Call : call'[c] = "idle", token' = token, crashes' = crashes + 1
      PROVE  Counted'
  <2>1. InUse' = {}
    BY <1>7 DEF InUse
  <2>2. Cardinality(InUse') = 0
    BY <2>1, FS_EmptySet
  <2> QED BY <1>0, <1>1, <1>7, <2>2 DEF Counted
<1>8. ASSUME NEW c \in Call, NEW pc \in CallPcs \ {"idle"}, call[c] # "idle",
             call' = [call EXCEPT ![c] = pc], token' = token, lost' = lost
      PROVE  Counted'
  <2>1. InUse' = InUse
    BY <1>0, <1>8 DEF InUse
  <2> QED BY <1>2, <1>8, <2>1
<1>9. ASSUME UNCHANGED <<call, lost>>, token' = [token EXCEPT !.status = "revoked"]
      PROVE  Counted'
  <2>1. InUse' = InUse /\ token'.count = token.count
    BY <1>0, <1>9 DEF InUse, Token
  <2> QED BY <1>2, <1>9, <2>1
<1>10. CASE UNCHANGED <<token, call, lost>>
  BY <1>2, <1>10 DEF InUse
<1> QED BY <1>3, <1>5, <1>6, <1>7, <1>8, <1>9, <1>10, TokenMoves

LEMMA CountInvariant == Spec => []Counted
<1>1. Init => Counted
  <2> SUFFICES ASSUME Init PROVE Counted
    OBVIOUS
  <2>1. InUse = {}
    BY DEF Init, InUse
  <2>2. Cardinality(InUse) = 0
    BY <2>1, FS_EmptySet
  <2> QED BY <2>2 DEF Init, Counted
<1> QED BY <1>1, CountedStep, Invariance, PTL DEF Spec

\* Whatever is revoked, dropped or restarted, no more requests than the token
\* allows are served at once: the count is raised in the transaction that
\* compares it with the limit and never falls below the requests under way.
THEOREM QuotaKept == Spec => []QuotaHolds
<1>1. Inv /\ Counted => QuotaHolds
  <2> SUFFICES ASSUME Inv, Counted
               PROVE  Cardinality({c \in Call : call[c] = "served"}) <= MaxCalls
    BY DEF QuotaHolds
  <2>1. token.count \in 0 .. MaxCalls /\ MaxCalls \in Nat
    BY QuotaAssumption DEF Inv, TypeOK
  <2> DEFINE Served == {c \in Call : call[c] = "served"}
  <2>2. Served \subseteq InUse /\ IsFiniteSet(InUse)
    BY SetsAssumption, FS_Subset DEF InUse
  <2> HIDE DEF Served
  <2>3. Cardinality(Served) <= Cardinality(InUse) /\ Cardinality(Served) \in Nat
        /\ Cardinality(InUse) \in Nat
    BY <2>2, FS_Subset, FS_CardinalityType
  <2>4. Cardinality(Served) <= MaxCalls
    BY <2>1, <2>3 DEF Counted
  <2> QED BY <2>4 DEF Served
<1> QED BY <1>1, Invariance, CountInvariant, PTL

\* Until a restart the count of a token is that of its requests under way and of the
\* slots lost by a failure: between the count and the permit, or in the statement that
\* ApiTokenRequestPermit::drop spawns.
THEOREM SlotsComeBack == Spec => []SlotsReturn
<1>1. Counted => SlotsReturn
  BY DEF Counted, SlotsReturn, InUse
<1> QED BY <1>1, CountInvariant, PTL
-----------------------------------------------------------------------------
(* The three maps of the store. *)

At(q, pcs, s) == op[q].pc \in pcs /\ op[q].session = s
ForgetsIndices(q, s) == op[q].pc = "forgetIndices" /\ s \in op[q].todo

\* operations that are about to read or delete session s, or have begun to
Touching == {"getAccess", "checkAccess", "getRefresh", "checkRefresh", "dropAccess",
             "dropRefresh", "dropSession", "forgetAccess", "forgetRefresh"}
Touches(q, s) == At(q, Touching, s) \/ ForgetsIndices(q, s)
Saves(q, s) == op[q].pc \in Saving /\ op[q].new = s

\* A new session belongs to one operation, and its client does not know it yet.
NewAlone ==
    \A p \in Operation : op[p].new \in Session =>
        op[p].new \notin known /\ \A q \in Operation : op[q].new = op[p].new => q = p

\* A session that was not issued is nowhere.
Unused ==
    \A s \in Session : ~Issued(s) =>
        s \notin access \cup refresh \cup sessions /\ \A q \in Operation : ~Touches(q, s)

\* A session that is being saved is in the maps it was put into, and no
\* operation touches it.
SavedInOrder ==
    \A p \in Operation, s \in Session : Saves(p, s) =>
        /\ s \notin sessions
        /\ s \in access <=> op[p].pc # "saveAccess"
        /\ s \in refresh <=> op[p].pc = "saveSession"
        /\ \A q \in Operation : ~Touches(q, s)

\* A session that is being deleted is no longer in the maps it was taken from.
DeletedInOrder ==
    \A q \in Operation, s \in Session :
        /\ At(q, {"dropRefresh", "dropSession"}, s) => s \notin access
        /\ At(q, {"dropSession"}, s) => s \notin refresh
        /\ At(q, {"forgetAccess", "forgetRefresh"}, s) \/ ForgetsIndices(q, s) => s \notin sessions

\* Where the maps differ about a session, an operation is about to mend it.
Mended(s) ==
    /\ s \in access \ sessions =>
           \E q \in Operation : At(q, {"forgetAccess"}, s) \/ ForgetsIndices(q, s)
    /\ s \in refresh \ sessions =>
           \E q \in Operation : At(q, {"forgetAccess", "forgetRefresh"}, s) \/ ForgetsIndices(q, s)
    /\ s \in sessions \ access =>
           \E q \in Operation : At(q, {"dropRefresh", "dropSession"}, s)
    /\ s \in sessions \ refresh =>
           \E q \in Operation : At(q, {"dropSession"}, s)

Mending == drops = 0 =>
    \A s \in Session : (\A p \in Operation : ~Saves(p, s)) => Mended(s)

Store == NewAlone /\ Unused /\ SavedInOrder /\ DeletedInOrder /\ Mending

Mid == {"dropRefresh", "dropSession", "forgetAccess", "forgetRefresh", "forgetIndices"}

\* a step that writes a future alone, outside the saving and the deleting
LEMMA OpOnly ==
    ASSUME Inv, Store, UNCHANGED <<access, refresh, sessions, known>>,
           drops' = 0 => drops = 0,
           \A s \in Session : Issued(s)' <=> Issued(s),
           NEW p \in Operation, NEW d, Writes(p, d),
           d.new = op[p].new \/ d.new = None,
           {d.pc, op[p].pc} \cap (Saving \cup Mid) = {},
           d.pc \in Touching =>
               \/ d.session \in known
               \/ op[p].pc \in Touching /\ d.session = op[p].session
    PROVE  Store'
<1>1. \A q \in Operation : op'[q] = IF q = p THEN d ELSE op[q]
  BY DEF Writes
<1>2. \A q \in Operation, s \in Session :
          /\ Saves(q, s)' <=> Saves(q, s)
          /\ Touches(q, s)' => Touches(q, s) \/ s \in known
          /\ ForgetsIndices(q, s)' <=> ForgetsIndices(q, s)
  BY <1>1 DEF Saves, Touches, At, ForgetsIndices, Touching, Saving, Mid
<1>3. \A q \in Operation, s \in Session :
          /\ At(q, {"dropRefresh", "dropSession"}, s)' <=> At(q, {"dropRefresh", "dropSession"}, s)
          /\ At(q, {"dropSession"}, s)' <=> At(q, {"dropSession"}, s)
          /\ At(q, {"forgetAccess"}, s)' <=> At(q, {"forgetAccess"}, s)
          /\ At(q, {"forgetAccess", "forgetRefresh"}, s)' <=> At(q, {"forgetAccess", "forgetRefresh"}, s)
  BY <1>1 DEF At, Mid
<1>4. NewAlone'
  BY <1>1, NoneAssumption DEF Store, NewAlone
<1>5. Unused'
  BY <1>2 DEF Store, Unused, Inv, RowKnown
<1>6. SavedInOrder'
  <2>1. \A q \in Operation, s \in Session : Saves(q, s)' => s \notin known /\ op'[q].pc = op[q].pc
    BY <1>1 DEF Saves, Store, NewAlone
  <2> QED BY <1>2, <2>1 DEF Store, SavedInOrder
<1>7. DeletedInOrder'
  BY <1>2, <1>3 DEF Store, DeletedInOrder
<1>8. Mending'
  BY <1>2, <1>3 DEF Store, Mending, Mended
<1> QED BY <1>4, <1>5, <1>6, <1>7, <1>8 DEF Store

\* a step that writes none of this
LEMMA StoreUntouched ==
    ASSUME Inv, Store, UNCHANGED <<access, refresh, sessions, known, op>>,
           drops' = 0 => drops = 0,
           \A s \in Session : Issued(s)' <=> Issued(s)
    PROVE  Store'
<1>1. \A q \in Operation, s \in Session :
          /\ Saves(q, s)' <=> Saves(q, s)
          /\ Touches(q, s)' <=> Touches(q, s)
          /\ ForgetsIndices(q, s)' <=> ForgetsIndices(q, s)
  BY DEF Saves, Touches, At, ForgetsIndices
<1>2. NewAlone' /\ Unused' /\ SavedInOrder'
  BY <1>1 DEF Store, NewAlone, Unused, SavedInOrder
<1>3. DeletedInOrder' /\ Mending'
  BY <1>1 DEF Store, DeletedInOrder, Mending, Mended, At
<1> QED BY <1>2, <1>3 DEF Store

LEMMA StoreIssue ==
    ASSUME Inv, Store, NEW p \in Operation, Issue(p)
    PROVE  Store'
<1>1. PICK s \in Session, d \in Future :
          /\ ~Issued(s) /\ op[p].pc = "issue"
          /\ row'[s].status = "active" /\ \A t \in Session \ {s} : row'[t] = row[t]
          /\ Writes(p, d) /\ d.pc = "saveAccess" /\ d.new = s
          /\ d.session = op[p].session /\ d.todo = op[p].todo
  BY IssueStep
<1>2. UNCHANGED <<access, refresh, sessions, known, drops>>
  BY DEF Issue, storeVars, limitVars
<1>3. \A q \in Operation : op'[q] = IF q = p THEN d ELSE op[q]
  BY <1>1 DEF Writes
<1>4. \A t \in Session : Issued(t)' <=> Issued(t) \/ t = s
  BY <1>1 DEF Issued
<1>5. \A q \in Operation : op[q].new # s
  BY <1>1 DEF Inv, Knows
<1>6. s \notin known \cup access \cup refresh \cup sessions /\ \A q \in Operation : ~Touches(q, s)
  BY <1>1 DEF Inv, RowKnown, Store, Unused
<1>7. \A q \in Operation, t \in Session :
          /\ Saves(q, t)' <=> Saves(q, t) \/ (q = p /\ t = s)
          /\ Touches(q, t)' <=> Touches(q, t)
          /\ ForgetsIndices(q, t)' <=> ForgetsIndices(q, t)
  BY <1>1, <1>3 DEF Saves, Touches, At, ForgetsIndices, Touching, Saving
<1>8. \A q \in Operation, t \in Session :
          /\ At(q, {"dropRefresh", "dropSession"}, t)' <=> At(q, {"dropRefresh", "dropSession"}, t)
          /\ At(q, {"dropSession"}, t)' <=> At(q, {"dropSession"}, t)
          /\ At(q, {"forgetAccess"}, t)' <=> At(q, {"forgetAccess"}, t)
          /\ At(q, {"forgetAccess", "forgetRefresh"}, t)' <=> At(q, {"forgetAccess", "forgetRefresh"}, t)
  BY <1>1, <1>3 DEF At
<1>9. NewAlone'
  BY <1>1, <1>2, <1>3, <1>5, <1>6 DEF Store, NewAlone
<1>10. Unused'
  BY <1>2, <1>4, <1>7 DEF Store, Unused
<1>11. SavedInOrder'
  <2>1. \A q \in Operation, t \in Session : Saves(q, t) => q # p
    BY <1>1 DEF Saves, Saving
  <2> QED BY <1>1, <1>2, <1>3, <1>6, <1>7, <2>1 DEF Store, SavedInOrder
<1>12. DeletedInOrder'
  BY <1>2, <1>7, <1>8 DEF Store, DeletedInOrder
<1>13. Mending'
  BY <1>2, <1>7, <1>8 DEF Store, Mending, Mended
<1> QED BY <1>9, <1>10, <1>11, <1>12, <1>13 DEF Store

LEMMA StoreSave ==
    ASSUME Inv, Store, [Next]_vars, NEW p \in Operation,
           SaveAccess(p) \/ SaveRefresh(p) \/ SaveSession(p)
    PROVE  Store'
<1>0. PICK s \in Session : op[p].new = s /\ op[p].pc \in Saving /\ Saves(p, s)
  BY DEF SaveAccess, SaveRefresh, SaveSession, Saving, Saves, Inv, Knows
<1>1. PICK d :
          /\ Writes(p, d)
          /\ \/ d = Idle /\ SaveSession(p) /\ known' = known \cup {s}
             \/ /\ d.pc \in {"saveRefresh", "saveSession", "revoke"} /\ known' = known
                /\ d.new = s /\ d.session = op[p].session /\ d.todo = op[p].todo
          /\ d.pc = "saveRefresh" <=> SaveAccess(p)
          /\ d.pc = "saveSession" <=> SaveRefresh(p)
  <2>1. CASE SaveAccess(p)
    <3>1. Enter(p, "saveRefresh") /\ known' = known /\ ~SaveRefresh(p)
      BY <2>1 DEF SaveAccess, SaveRefresh
    <3> QED BY <1>0, <2>1, <3>1, EnterStep DEF Enters, Inv, Pcs
  <2>2. CASE SaveRefresh(p)
    <3>1. Enter(p, "saveSession") /\ known' = known /\ ~SaveAccess(p)
      BY <2>2 DEF SaveAccess, SaveRefresh
    <3> QED BY <1>0, <2>2, <3>1, EnterStep DEF Enters, Inv, Pcs
  <2>3. CASE SaveSession(p)
    <3>1. \/ End(p) /\ known' = known \cup {s}
          \/ Enter(p, "revoke") /\ known' = known
      BY <1>0, <2>3 DEF SaveSession
    <3>2. ~SaveAccess(p) /\ ~SaveRefresh(p)
      BY <2>3 DEF SaveAccess, SaveRefresh, SaveSession
    <3>3. CASE End(p) /\ known' = known \cup {s}
      BY <2>3, <3>2, <3>3, EndStep, IdleFuture DEF Inv
    <3>4. CASE Enter(p, "revoke") /\ known' = known
      BY <1>0, <3>2, <3>4, EnterStep DEF Enters, Inv, Pcs
    <3> QED BY <3>1, <3>3, <3>4
  <2> QED BY <2>1, <2>2, <2>3
<1>2. \A q \in Operation : op'[q] = IF q = p THEN d ELSE op[q]
  BY <1>1 DEF Writes
<1>3. /\ drops' = drops
      /\ \A t \in Session : Issued(t)' <=> Issued(t)
      /\ \A t \in Session \ {s} : /\ t \in access' <=> t \in access
                                  /\ t \in refresh' <=> t \in refresh
                                  /\ t \in sessions' <=> t \in sessions
                                  /\ t \in known' => t \in known
  BY <1>0, <1>1 DEF SaveAccess, SaveRefresh, SaveSession, Issued, limitVars
<1>4. \A q \in Operation, t \in Session :
          /\ Saves(q, t)' => Saves(q, t)
          /\ t # s => (Saves(q, t)' <=> Saves(q, t))
          /\ Touches(q, t)' => Touches(q, t)
          /\ ForgetsIndices(q, t)' <=> ForgetsIndices(q, t)
  BY <1>0, <1>1, <1>2, IdleFuture DEF Saves, Touches, At, ForgetsIndices, Touching, Saving
<1>5. \A q \in Operation, t \in Session :
          /\ At(q, {"dropRefresh", "dropSession"}, t)' <=> At(q, {"dropRefresh", "dropSession"}, t)
          /\ At(q, {"dropSession"}, t)' <=> At(q, {"dropSession"}, t)
          /\ At(q, {"forgetAccess"}, t)' <=> At(q, {"forgetAccess"}, t)
          /\ At(q, {"forgetAccess", "forgetRefresh"}, t)' <=> At(q, {"forgetAccess", "forgetRefresh"}, t)
  BY <1>0, <1>1, <1>2, IdleFuture DEF At, Saving
<1>6. /\ Issued(s) /\ s \notin sessions
      /\ s \in access <=> op[p].pc # "saveAccess"
      /\ s \in refresh <=> op[p].pc = "saveSession"
      /\ \A q \in Operation : ~Touches(q, s)
      /\ \A q \in Operation \ {p} : op[q].new # s
  BY <1>0 DEF Store, SavedInOrder, NewAlone, Inv, Knows
<1>7. NewAlone'
  BY <1>0, <1>1, <1>2, <1>6, IdleFuture, NoneAssumption DEF Store, NewAlone
<1>8. Unused'
  BY <1>3, <1>4, <1>6 DEF Store, Unused
<1>9. ASSUME NEW q \in Operation, NEW t \in Session, Saves(q, t)'
      PROVE  /\ t \notin sessions'
             /\ t \in access' <=> op'[q].pc # "saveAccess"
             /\ t \in refresh' <=> op'[q].pc = "saveSession"
             /\ \A r \in Operation : ~Touches(r, t)'
  <2>1. Saves(q, t)
    BY <1>4, <1>9
  <2>2. CASE t = s
    <3>1. q = p
      BY <1>6, <2>1, <2>2 DEF Saves
    <3>2. d.pc \in {"saveRefresh", "saveSession"} /\ op'[q] = d
      BY <1>1, <1>2, <1>9, <3>1, IdleFuture DEF Saves, Saving
    <3>3. SaveAccess(p) \/ SaveRefresh(p)
      BY <1>1, <3>2
    <3>4. CASE SaveAccess(p)
      BY <1>0, <1>1, <1>4, <1>6, <2>2, <3>2, <3>4 DEF SaveAccess, SaveRefresh
    <3>5. CASE SaveRefresh(p)
      BY <1>0, <1>1, <1>4, <1>6, <2>2, <3>2, <3>5 DEF SaveAccess, SaveRefresh
    <3> QED BY <3>3, <3>4, <3>5
  <2>3. CASE t # s
    <3>1. q # p
      BY <1>0, <2>1, <2>3 DEF Saves
    <3>2. /\ t \notin sessions
          /\ t \in access <=> op[q].pc # "saveAccess"
          /\ t \in refresh <=> op[q].pc = "saveSession"
          /\ \A r \in Operation : ~Touches(r, t)
      BY <2>1 DEF Store, SavedInOrder
    <3> QED BY <1>2, <1>3, <1>4, <2>3, <3>1, <3>2
  <2> QED BY <2>2, <2>3
<1>10. DeletedInOrder'
  <2>1. \A q \in Operation : /\ ~At(q, {"dropRefresh", "dropSession"}, s)
                             /\ ~At(q, {"dropSession"}, s)
                             /\ ~At(q, {"forgetAccess", "forgetRefresh"}, s)
                             /\ ~ForgetsIndices(q, s)
    BY <1>6 DEF Touches, At, Touching
  <2> QED BY <1>3, <1>4, <1>5, <2>1 DEF Store, DeletedInOrder
<1>11. Mending'
  <2>1. ASSUME \A q \in Operation : ~Saves(q, s)'
        PROVE  s \in access' /\ s \in refresh' /\ s \in sessions'
    <3>1. d.pc \notin {"saveRefresh", "saveSession"}
      BY <1>1, <1>2, <2>1, IdleFuture DEF Saves, Saving
    <3>2. SaveSession(p)
      BY <1>1, <3>1
    <3> QED BY <1>0, <1>6, <3>2 DEF SaveSession
  <2> QED BY <1>3, <1>4, <1>5, <2>1 DEF Store, Mending, Mended
<1> QED BY <1>7, <1>8, <1>9, <1>10, <1>11 DEF Store, SavedInOrder

\* what deleting a session leaves of the rest
LEMMA Deleting ==
    ASSUME Inv, Store, \A s \in Session : Issued(s)' <=> Issued(s),
           access' \subseteq access, refresh' \subseteq refresh, sessions' \subseteq sessions,
           NEW p \in Operation, NEW d, Writes(p, d), {d.pc, op[p].pc} \cap Saving = {},
           \/ d.new = op[p].new /\ known' = known
           \/ d.new = None /\ known' \subseteq known \cup {op[p].new},
           \A s \in Session : Touches(p, s)' => Touches(p, s) \/ s \in sessions,
           \A q \in Operation, s \in Session : Saves(q, s) =>
               (s \in access => s \in access') /\ (s \in refresh => s \in refresh'),
           DeletedInOrder', Mending'
    PROVE  Store'
<1>1. \A q \in Operation : op'[q] = IF q = p THEN d ELSE op[q]
  BY DEF Writes
<1>2. \A q \in Operation, s \in Session :
          /\ Saves(q, s)' <=> Saves(q, s)
          /\ Saves(q, s) => op'[q] = op[q]
          /\ Touches(q, s)' => Touches(q, s) \/ s \in sessions
  BY <1>1 DEF Saves, Touches, At, ForgetsIndices
<1>3. NewAlone'
  BY <1>1, NoneAssumption DEF Store, NewAlone
<1>4. Unused'
  BY <1>2 DEF Store, Unused
<1>5. ASSUME NEW q \in Operation, NEW t \in Session, Saves(q, t)'
      PROVE  /\ t \notin sessions'
             /\ t \in access' <=> op'[q].pc # "saveAccess"
             /\ t \in refresh' <=> op'[q].pc = "saveSession"
             /\ \A r \in Operation : ~Touches(r, t)'
  <2>1. Saves(q, t) /\ op'[q] = op[q]
    BY <1>2, <1>5
  <2>2. /\ t \notin sessions
        /\ t \in access <=> op[q].pc # "saveAccess"
        /\ t \in refresh <=> op[q].pc = "saveSession"
        /\ \A r \in Operation : ~Touches(r, t)
    BY <2>1 DEF Store, SavedInOrder
  <2> QED BY <1>2, <2>1, <2>2
<1> QED BY <1>3, <1>4, <1>5 DEF Store, SavedInOrder

LEMMA StoreDrop ==
    ASSUME Inv, Store, NEW p \in Operation,
           DropAccess(p) \/ DropRefresh(p) \/ DropSession(p)
    PROVE  Store'
<1>0. PICK s \in Session : op[p].session = s
  BY DEF DropAccess, DropRefresh, DropSession, OfSession, Inv, Knows
<1>1. UNCHANGED <<row, known, drops>> /\ \A t \in Session : Issued(t)' <=> Issued(t)
  BY DEF DropAccess, DropRefresh, DropSession, limitVars, Issued
<1>2. Touches(p, s) /\ op[p].pc \notin Saving
  BY <1>0 DEF DropAccess, DropRefresh, DropSession, Touches, At, Touching, Saving
<1>3. \A q \in Operation : ~Saves(q, s)
  BY <1>2 DEF Store, SavedInOrder
<1>4. CASE DropAccess(p)
  <2>1. PICK d : Writes(p, d) /\ Enters(op[p], d, "dropRefresh")
    BY <1>4, EnterStep DEF DropAccess, Inv, Pcs
  <2>2. \A q \in Operation : op'[q] = IF q = p THEN d ELSE op[q]
    BY <2>1 DEF Writes
  <2>3. access' = access \ {s} /\ refresh' = refresh /\ sessions' = sessions /\ op[p].pc = "dropAccess"
    BY <1>0, <1>4 DEF DropAccess
  <2>4. \A q \in Operation, t \in Session :
            /\ At(q, {"dropRefresh", "dropSession"}, t)'
                  <=> At(q, {"dropRefresh", "dropSession"}, t) \/ (q = p /\ t = s)
            /\ At(q, {"dropSession"}, t)' <=> At(q, {"dropSession"}, t)
            /\ At(q, {"forgetAccess"}, t)' <=> At(q, {"forgetAccess"}, t)
            /\ At(q, {"forgetAccess", "forgetRefresh"}, t)' <=> At(q, {"forgetAccess", "forgetRefresh"}, t)
            /\ ForgetsIndices(q, t)' <=> ForgetsIndices(q, t)
            /\ Saves(q, t)' <=> Saves(q, t)
    BY <1>0, <2>1, <2>2, <2>3 DEF At, ForgetsIndices, Enters, Saves, Saving
  <2>5. DeletedInOrder'
    BY <2>3, <2>4 DEF Store, DeletedInOrder
  <2>6. Mending'
    BY <1>1, <2>3, <2>4 DEF Store, Mending, Mended
  <2>7. \A t \in Session : Touches(p, t)' => Touches(p, t)
    BY <1>0, <1>2, <2>1, <2>2 DEF Touches, At, ForgetsIndices, Enters
  <2>8. d.pc = "dropRefresh" /\ d.new = op[p].new
    BY <2>1 DEF Enters
  <2> QED BY <1>1, <1>2, <1>3, <2>1, <2>3, <2>5, <2>6, <2>7, <2>8, Deleting DEF Saving
<1>5. CASE DropRefresh(p)
  <2>1. PICK d : Writes(p, d) /\ Enters(op[p], d, "dropSession")
    BY <1>5, EnterStep DEF DropRefresh, Inv, Pcs
  <2>2. \A q \in Operation : op'[q] = IF q = p THEN d ELSE op[q]
    BY <2>1 DEF Writes
  <2>3. access' = access /\ refresh' = refresh \ {s} /\ sessions' = sessions /\ op[p].pc = "dropRefresh"
    BY <1>0, <1>5 DEF DropRefresh
  <2>4. \A q \in Operation, t \in Session :
            /\ At(q, {"dropRefresh", "dropSession"}, t)' <=> At(q, {"dropRefresh", "dropSession"}, t)
            /\ At(q, {"dropSession"}, t)' <=> At(q, {"dropSession"}, t) \/ (q = p /\ t = s)
            /\ At(q, {"forgetAccess"}, t)' <=> At(q, {"forgetAccess"}, t)
            /\ At(q, {"forgetAccess", "forgetRefresh"}, t)' <=> At(q, {"forgetAccess", "forgetRefresh"}, t)
            /\ ForgetsIndices(q, t)' <=> ForgetsIndices(q, t)
            /\ Saves(q, t)' <=> Saves(q, t)
    BY <1>0, <2>1, <2>2, <2>3 DEF At, ForgetsIndices, Enters, Saves, Saving
  <2>5. DeletedInOrder'
    BY <2>3, <2>4 DEF Store, DeletedInOrder
  <2>6. Mending'
    BY <1>1, <2>3, <2>4 DEF Store, Mending, Mended
  <2>7. \A t \in Session : Touches(p, t)' => Touches(p, t)
    BY <1>0, <1>2, <2>1, <2>2 DEF Touches, At, ForgetsIndices, Enters
  <2>8. d.pc = "dropSession" /\ d.new = op[p].new
    BY <2>1 DEF Enters
  <2> QED BY <1>1, <1>2, <1>3, <2>1, <2>3, <2>5, <2>6, <2>7, <2>8, Deleting DEF Saving
<1>6. CASE DropSession(p)
  <2>1. Writes(p, Idle)
    BY <1>6, EndStep DEF DropSession, Inv
  <2>2. \A q \in Operation : op'[q] = IF q = p THEN Idle ELSE op[q]
    BY <2>1 DEF Writes
  <2>3. access' = access /\ refresh' = refresh /\ sessions' = sessions \ {s} /\ op[p].pc = "dropSession"
    BY <1>0, <1>6 DEF DropSession
  <2>4. \A q \in Operation, t \in Session :
            /\ At(q, {"dropRefresh", "dropSession"}, t)' => At(q, {"dropRefresh", "dropSession"}, t)
            /\ At(q, {"dropSession"}, t)' => At(q, {"dropSession"}, t)
            /\ t # s => (At(q, {"dropRefresh", "dropSession"}, t)
                            <=> At(q, {"dropRefresh", "dropSession"}, t)')
            /\ t # s => (At(q, {"dropSession"}, t) <=> At(q, {"dropSession"}, t)')
            /\ At(q, {"forgetAccess"}, t)' <=> At(q, {"forgetAccess"}, t)
            /\ At(q, {"forgetAccess", "forgetRefresh"}, t)' <=> At(q, {"forgetAccess", "forgetRefresh"}, t)
            /\ ForgetsIndices(q, t)' <=> ForgetsIndices(q, t)
            /\ Saves(q, t)' <=> Saves(q, t)
    BY <1>0, <2>2, <2>3, IdleFuture DEF At, ForgetsIndices, Saves, Saving
  <2>5. DeletedInOrder'
    BY <2>3, <2>4 DEF Store, DeletedInOrder
  <2>6. s \notin access /\ s \notin refresh
    BY <1>0, <2>3 DEF Store, DeletedInOrder, At
  <2>7. Mending'
    BY <1>1, <2>3, <2>4, <2>6 DEF Store, Mending, Mended
  <2>8. \A t \in Session : Touches(p, t)' => Touches(p, t)
    BY <2>2, IdleFuture DEF Touches, At, ForgetsIndices, Touching
  <2> QED BY <1>1, <1>2, <1>3, <2>1, <2>3, <2>5, <2>7, <2>8, Deleting, IdleFuture DEF Saving
<1> QED BY <1>4, <1>5, <1>6

LEMMA StoreForget ==
    ASSUME Inv, Store, NEW p \in Operation, Forget(p)
    PROVE  Store'
<1>0. PICK s \in Session : op[p].session = s /\ op[p].pc = "forget"
  BY DEF Forget, OfSession, Inv, Knows
<1>1. /\ UNCHANGED <<row, access, refresh, drops>> /\ \A t \in Session : Issued(t)' <=> Issued(t)
      /\ sessions' = sessions \ {s}
  BY <1>0 DEF Forget, limitVars, Issued
<1>2. CASE s \in sessions
  <2>1. Enter(p, "forgetAccess") /\ known' = known
    BY <1>0, <1>2 DEF Forget
  <2>2. PICK d : Writes(p, d) /\ Enters(op[p], d, "forgetAccess")
    BY <2>1, EnterStep DEF Inv, Pcs
  <2>3. \A q \in Operation : op'[q] = IF q = p THEN d ELSE op[q]
    BY <2>2 DEF Writes
  <2>4. \A q \in Operation, t \in Session :
            /\ At(q, {"dropRefresh", "dropSession"}, t)' <=> At(q, {"dropRefresh", "dropSession"}, t)
            /\ At(q, {"dropSession"}, t)' <=> At(q, {"dropSession"}, t)
            /\ At(q, {"forgetAccess"}, t)' <=> At(q, {"forgetAccess"}, t) \/ (q = p /\ t = s)
            /\ At(q, {"forgetAccess", "forgetRefresh"}, t)'
                  <=> At(q, {"forgetAccess", "forgetRefresh"}, t) \/ (q = p /\ t = s)
            /\ ForgetsIndices(q, t)' <=> ForgetsIndices(q, t)
            /\ Saves(q, t)' <=> Saves(q, t)
    BY <1>0, <2>2, <2>3 DEF At, ForgetsIndices, Enters, Saves, Saving
  <2>5. DeletedInOrder'
    BY <1>1, <2>4 DEF Store, DeletedInOrder
  <2>6. Mending'
    BY <1>1, <2>4 DEF Store, Mending, Mended
  <2>7. \A t \in Session : Touches(p, t)' => Touches(p, t) \/ t \in sessions
    BY <1>0, <1>2, <2>2, <2>3 DEF Touches, At, ForgetsIndices, Enters
  <2>8. d.pc = "forgetAccess" /\ d.new = op[p].new
    BY <2>2 DEF Enters
  <2> QED BY <1>0, <1>1, <2>1, <2>2, <2>5, <2>6, <2>7, <2>8, Deleting DEF Saving
<1>3. CASE s \notin sessions
  <2>1. End(p) /\ known' \subseteq known \cup {op[p].new} /\ sessions' = sessions
    BY <1>0, <1>1, <1>3 DEF Forget, Finished
  <2>2. Writes(p, Idle)
    BY <2>1, EndStep DEF Inv
  <2>3. \A q \in Operation : op'[q] = IF q = p THEN Idle ELSE op[q]
    BY <2>2 DEF Writes
  <2>4. \A q \in Operation, t \in Session :
            /\ At(q, {"dropRefresh", "dropSession"}, t)' <=> At(q, {"dropRefresh", "dropSession"}, t)
            /\ At(q, {"dropSession"}, t)' <=> At(q, {"dropSession"}, t)
            /\ At(q, {"forgetAccess"}, t)' <=> At(q, {"forgetAccess"}, t)
            /\ At(q, {"forgetAccess", "forgetRefresh"}, t)' <=> At(q, {"forgetAccess", "forgetRefresh"}, t)
            /\ ForgetsIndices(q, t)' <=> ForgetsIndices(q, t)
            /\ Saves(q, t)' <=> Saves(q, t)
    BY <1>0, <2>3, IdleFuture DEF At, ForgetsIndices, Saves, Saving
  <2>5. DeletedInOrder'
    BY <1>1, <2>1, <2>4 DEF Store, DeletedInOrder
  <2>6. Mending'
    BY <1>1, <2>1, <2>4 DEF Store, Mending, Mended
  <2>7. \A t \in Session : Touches(p, t)' => Touches(p, t)
    BY <2>3, IdleFuture DEF Touches, At, ForgetsIndices, Touching
  <2> QED BY <1>0, <1>1, <2>1, <2>2, <2>5, <2>6, <2>7, Deleting, IdleFuture DEF Saving
<1> QED BY <1>2, <1>3

LEMMA StoreForgetIndex ==
    ASSUME Inv, Store, NEW p \in Operation, ForgetAccess(p) \/ ForgetRefresh(p)
    PROVE  Store'
<1>0. PICK s \in Session : op[p].session = s
  BY DEF ForgetAccess, ForgetRefresh, OfSession, Inv, Knows
<1>1. UNCHANGED <<row, drops>> /\ \A t \in Session : Issued(t)' <=> Issued(t)
  BY DEF ForgetAccess, ForgetRefresh, limitVars, Issued
<1>2. Touches(p, s) /\ op[p].pc \notin Saving
  BY <1>0 DEF ForgetAccess, ForgetRefresh, Touches, At, Touching, Saving
<1>3. s \notin sessions /\ \A q \in Operation : ~Saves(q, s)
  <2>1. At(p, {"forgetAccess", "forgetRefresh"}, s)
    BY <1>0 DEF ForgetAccess, ForgetRefresh, At
  <2> QED BY <1>2, <2>1 DEF Store, SavedInOrder, DeletedInOrder
<1>4. CASE ForgetAccess(p)
  <2>1. PICK d : Writes(p, d) /\ Enters(op[p], d, "forgetRefresh")
    BY <1>4, EnterStep DEF ForgetAccess, Inv, Pcs
  <2>2. \A q \in Operation : op'[q] = IF q = p THEN d ELSE op[q]
    BY <2>1 DEF Writes
  <2>3. access' = access \ {s} /\ refresh' = refresh /\ sessions' = sessions /\ known' = known
        /\ op[p].pc = "forgetAccess"
    BY <1>0, <1>4 DEF ForgetAccess
  <2>4. \A q \in Operation, t \in Session :
            /\ At(q, {"dropRefresh", "dropSession"}, t)' <=> At(q, {"dropRefresh", "dropSession"}, t)
            /\ At(q, {"dropSession"}, t)' <=> At(q, {"dropSession"}, t)
            /\ t # s => (At(q, {"forgetAccess"}, t)' <=> At(q, {"forgetAccess"}, t))
            /\ At(q, {"forgetAccess", "forgetRefresh"}, t)' <=> At(q, {"forgetAccess", "forgetRefresh"}, t)
            /\ ForgetsIndices(q, t)' <=> ForgetsIndices(q, t)
            /\ Saves(q, t)' <=> Saves(q, t)
    BY <1>0, <2>1, <2>2, <2>3 DEF At, ForgetsIndices, Enters, Saves, Saving
  <2>5. DeletedInOrder'
    BY <2>3, <2>4 DEF Store, DeletedInOrder
  <2>6. Mending'
    BY <1>1, <1>3, <2>3, <2>4 DEF Store, Mending, Mended
  <2>7. \A t \in Session : Touches(p, t)' => Touches(p, t)
    BY <1>0, <1>2, <2>1, <2>2 DEF Touches, At, ForgetsIndices, Enters
  <2>8. d.pc = "forgetRefresh" /\ d.new = op[p].new
    BY <2>1 DEF Enters
  <2> QED BY <1>1, <1>2, <1>3, <2>1, <2>3, <2>5, <2>6, <2>7, <2>8, Deleting DEF Saving
<1>5. CASE ForgetRefresh(p)
  <2>0. End(p) /\ known' \subseteq known \cup {op[p].new} /\ op[p].pc = "forgetRefresh"
        /\ access' = access /\ refresh' = refresh \ {s} /\ sessions' = sessions
    BY <1>0, <1>5 DEF ForgetRefresh, Finished
  <2>1. Writes(p, Idle)
    BY <2>0, EndStep DEF Inv
  <2>2. \A q \in Operation : op'[q] = IF q = p THEN Idle ELSE op[q]
    BY <2>1 DEF Writes
  <2>4. \A q \in Operation, t \in Session :
            /\ At(q, {"dropRefresh", "dropSession"}, t)' <=> At(q, {"dropRefresh", "dropSession"}, t)
            /\ At(q, {"dropSession"}, t)' <=> At(q, {"dropSession"}, t)
            /\ At(q, {"forgetAccess"}, t)' <=> At(q, {"forgetAccess"}, t)
            /\ At(q, {"forgetAccess", "forgetRefresh"}, t)' => At(q, {"forgetAccess", "forgetRefresh"}, t)
            /\ t # s => (At(q, {"forgetAccess", "forgetRefresh"}, t)
                            <=> At(q, {"forgetAccess", "forgetRefresh"}, t)')
            /\ ForgetsIndices(q, t)' <=> ForgetsIndices(q, t)
            /\ Saves(q, t)' <=> Saves(q, t)
    BY <1>0, <2>0, <2>2, IdleFuture DEF At, ForgetsIndices, Saves, Saving
  <2>5. DeletedInOrder'
    BY <2>0, <2>4 DEF Store, DeletedInOrder
  <2>6. Mending'
    BY <1>1, <1>3, <2>0, <2>4 DEF Store, Mending, Mended
  <2>7. \A t \in Session : Touches(p, t)' => Touches(p, t)
    BY <2>2, IdleFuture DEF Touches, At, ForgetsIndices, Touching
  <2> QED BY <1>1, <1>2, <1>3, <2>0, <2>1, <2>5, <2>6, <2>7, Deleting, IdleFuture DEF Saving
<1> QED BY <1>4, <1>5

LEMMA StoreForgetAll ==
    ASSUME Inv, Store, NEW p \in Operation, ForgetAll(p)
    PROVE  Store'
<1>0. op[p].pc = "forgetAll"
  BY DEF ForgetAll
<1>1. UNCHANGED <<row, access, refresh, known, drops>> /\ \A t \in Session : Issued(t)' <=> Issued(t)
  BY DEF ForgetAll, limitVars, Issued
<1>2. PICK d : /\ Writes(p, d) /\ d.pc = "forgetIndices" /\ d.new = op[p].new
               /\ d.todo \subseteq sessions /\ sessions' = sessions \ d.todo
  BY ForgetAllStep
<1>3. \A q \in Operation : op'[q] = IF q = p THEN d ELSE op[q]
  BY <1>2 DEF Writes
<1>4. \A q \in Operation, t \in Session :
          /\ At(q, {"dropRefresh", "dropSession"}, t)' <=> At(q, {"dropRefresh", "dropSession"}, t)
          /\ At(q, {"dropSession"}, t)' <=> At(q, {"dropSession"}, t)
          /\ At(q, {"forgetAccess"}, t)' <=> At(q, {"forgetAccess"}, t)
          /\ At(q, {"forgetAccess", "forgetRefresh"}, t)' <=> At(q, {"forgetAccess", "forgetRefresh"}, t)
          /\ ForgetsIndices(q, t)' <=> ForgetsIndices(q, t) \/ (q = p /\ t \in d.todo)
          /\ Saves(q, t)' <=> Saves(q, t)
  BY <1>0, <1>2, <1>3 DEF At, ForgetsIndices, Saves, Saving
<1>5. DeletedInOrder'
  BY <1>1, <1>2, <1>4 DEF Store, DeletedInOrder
<1>6. Mending'
  BY <1>1, <1>2, <1>4 DEF Store, Mending, Mended
<1>7. \A t \in Session : Touches(p, t)' => Touches(p, t) \/ t \in sessions
  BY <1>2, <1>3 DEF Touches, At, ForgetsIndices, Touching
<1> QED BY <1>0, <1>1, <1>2, <1>5, <1>6, <1>7, Deleting DEF Saving

LEMMA StoreForgetIndices ==
    ASSUME Inv, Store, NEW p \in Operation, ForgetIndices(p)
    PROVE  Store'
<1>0. op[p].pc = "forgetIndices"
  BY DEF ForgetIndices
<1>1. UNCHANGED <<row, sessions, known, drops>> /\ \A t \in Session : Issued(t)' <=> Issued(t)
  BY DEF ForgetIndices, limitVars, Issued
<1>2. access' = access \ op[p].todo /\ refresh' = refresh \ op[p].todo
  BY DEF ForgetIndices
<1>3. \A t \in Session : t \in op[p].todo =>
          t \notin sessions /\ \A q \in Operation : ~Saves(q, t)
  <2>1. \A t \in Session : t \in op[p].todo => ForgetsIndices(p, t) /\ Touches(p, t)
    BY <1>0 DEF ForgetsIndices, Touches
  <2> QED BY <2>1 DEF Store, DeletedInOrder, SavedInOrder
<1>4. Writes(p, Idle)
  BY EndStep DEF ForgetIndices, Inv
<1>5. \A q \in Operation : op'[q] = IF q = p THEN Idle ELSE op[q]
  BY <1>4 DEF Writes
<1>6. \A q \in Operation, t \in Session :
          /\ At(q, {"dropRefresh", "dropSession"}, t)' <=> At(q, {"dropRefresh", "dropSession"}, t)
          /\ At(q, {"dropSession"}, t)' <=> At(q, {"dropSession"}, t)
          /\ At(q, {"forgetAccess"}, t)' <=> At(q, {"forgetAccess"}, t)
          /\ At(q, {"forgetAccess", "forgetRefresh"}, t)' <=> At(q, {"forgetAccess", "forgetRefresh"}, t)
          /\ ForgetsIndices(q, t)' => ForgetsIndices(q, t)
          /\ t \notin op[p].todo => (ForgetsIndices(q, t) <=> ForgetsIndices(q, t)')
          /\ Saves(q, t)' <=> Saves(q, t)
  BY <1>0, <1>5, IdleFuture DEF At, ForgetsIndices, Saves, Saving
<1>7. DeletedInOrder'
  BY <1>1, <1>2, <1>6 DEF Store, DeletedInOrder
<1>8. Mending'
  BY <1>1, <1>2, <1>3, <1>6 DEF Store, Mending, Mended
<1>9. \A t \in Session : Touches(p, t)' => Touches(p, t)
  BY <1>5, IdleFuture DEF Touches, At, ForgetsIndices, Touching
<1> QED BY <1>0, <1>1, <1>2, <1>3, <1>4, <1>7, <1>8, <1>9, Deleting, IdleFuture DEF Saving

LEMMA StoreEnds ==
    ASSUME Inv, Store, Crash \/ \E p \in Operation : DropOperation(p)
    PROVE  Store'
<1>1. \A q \in Operation : op'[q] = op[q] \/ op'[q] = Idle
  BY EndStep DEF Crash, DropOperation, Inv, Writes
<1>2. /\ UNCHANGED <<row, known>> /\ \A t \in Session : Issued(t)' <=> Issued(t)
      /\ \/ UNCHANGED <<access, refresh, sessions>> /\ drops' = drops + 1
         \/ /\ access' = {} /\ refresh' = {} /\ sessions' = {}
            /\ \A q \in Operation : op'[q] = Idle
  BY DEF Crash, DropOperation, storeVars, Issued
<1>3. \A q \in Operation, t \in Session :
          /\ Saves(q, t)' => Saves(q, t) /\ op'[q] = op[q]
          /\ Touches(q, t)' => Touches(q, t)
          /\ ForgetsIndices(q, t)' => ForgetsIndices(q, t)
          /\ At(q, {"dropRefresh", "dropSession"}, t)' => At(q, {"dropRefresh", "dropSession"}, t)
          /\ At(q, {"dropSession"}, t)' => At(q, {"dropSession"}, t)
          /\ At(q, {"forgetAccess", "forgetRefresh"}, t)' => At(q, {"forgetAccess", "forgetRefresh"}, t)
          /\ op'[q] = Idle => ~Saves(q, t)'
  BY <1>1, IdleFuture DEF Saves, Touches, At, ForgetsIndices, Touching, Saving
<1>4. NewAlone'
  BY <1>1, <1>2, IdleFuture, NoneAssumption DEF Store, NewAlone
<1>5. Unused' /\ SavedInOrder'
  BY <1>2, <1>3 DEF Store, Unused, SavedInOrder
<1>6. DeletedInOrder'
  BY <1>2, <1>3 DEF Store, DeletedInOrder
<1>7. Mending'
  <2>1. drops \in Nat
    BY BoundAssumption DEF Inv, TypeOK
  <2>2. CASE drops' = drops + 1
    BY <2>1, <2>2 DEF Mending
  <2>3. CASE access' = {} /\ refresh' = {} /\ sessions' = {}
    BY <2>3 DEF Mending, Mended
  <2> QED BY <1>2, <2>2, <2>3
<1> QED BY <1>4, <1>5, <1>6, <1>7 DEF Store

LEMMA StoreBegins ==
    ASSUME Inv, Store, [Next]_vars, \A s \in Session : Issued(s)' <=> Issued(s),
           NEW p \in Operation,
           \/ \E a \in Account : Login(p, a) \/ Disable(p, a) \/ ChangeAccount(p, a)
           \/ \E s \in Session : Authenticate(p, s) \/ Refresh(p, s) \/ Revoke(p, s)
    PROVE  Store'
<1>1. /\ op[p].pc = "idle"
      /\ UNCHANGED <<access, refresh, sessions, known, drops>>
  BY DEF Login, Disable, ChangeAccount, Authenticate, Refresh, Begin, Revoke, storeVars, limitVars
<1>2. ASSUME NEW d, Writes(p, d), d.new = None, d.pc \in {"issue", "revokeAll", "revoke"}
      PROVE  Store'
  BY <1>1, <1>2, OpOnly DEF Saving, Mid, Touching
<1>3. ASSUME NEW d, Writes(p, d), d.new = None, d.pc \in {"getAccess", "getRefresh"},
             d.session \in known
      PROVE  Store'
  BY <1>1, <1>3, OpOnly DEF Saving, Mid
<1>4. ASSUME NEW a \in Account, Login(p, a) \/ Disable(p, a) \/ ChangeAccount(p, a)
      PROVE  Store'
  <2>1. PICK pc \in {"issue", "revokeAll"} :
            op' = [op EXCEPT ![p] = [Idle EXCEPT !.pc = pc, !.account = a]]
    BY <1>4 DEF Login, Disable, ChangeAccount
  <2>2. PICK d : Writes(p, d) /\ Begins(d, pc, a, None)
    BY <2>1, BeginForAccount DEF Inv, Pcs
  <2> QED BY <1>2, <2>2 DEF Begins
<1>5. ASSUME NEW s \in Session, Revoke(p, s)
      PROVE  Store'
  <2>1. op' = [op EXCEPT ![p] = [Idle EXCEPT !.pc = "revoke", !.session = s]]
    BY <1>5 DEF Revoke
  <2>2. PICK d : Writes(p, d) /\ Begins(d, "revoke", None, s)
    BY <2>1, BeginForSession DEF Inv, Pcs
  <2> QED BY <1>2, <2>2 DEF Begins
<1>6. ASSUME NEW s \in Session, Authenticate(p, s) \/ Refresh(p, s)
      PROVE  Store'
  <2>1. PICK pc \in {"getAccess", "getRefresh"} :
            op' = [op EXCEPT ![p] = [Idle EXCEPT !.pc = pc, !.session = s]]
    BY <1>6 DEF Authenticate, Refresh, Begin
  <2>2. PICK d : Writes(p, d) /\ Begins(d, pc, None, s)
    BY <2>1, BeginForSession DEF Inv, Pcs
  <2>3. s \in known
    BY <1>6 DEF Authenticate, Refresh, Begin
  <2> QED BY <1>3, <2>2, <2>3 DEF Begins
<1> QED BY <1>4, <1>5, <1>6

LEMMA StoreReads ==
    ASSUME Inv, Store, [Next]_vars, \A s \in Session : Issued(s)' <=> Issued(s),
           NEW p \in Operation,
           GetSession(p) \/ Check(p) \/ RevokeRow(p) \/ RevokeAll(p) \/ RevokeOthers(p)
    PROVE  Store'
<1>1. /\ op[p].pc \in {"getAccess", "getRefresh", "checkAccess", "checkRefresh", "revoke",
                       "revokeAll", "revokeOthers"}
      /\ UNCHANGED <<access, refresh, sessions, known, drops>>
  BY DEF GetSession, Check, RevokeRow, RevokeAll, RevokeOthers, storeVars, limitVars
<1>2. ASSUME NEW d, Writes(p, d), d.new = op[p].new \/ d.new = None,
             d.pc \in {"idle", "issue", "forget", "forgetAll", "revokeOthers"}
      PROVE  Store'
  BY <1>1, <1>2, OpOnly DEF Saving, Mid, Touching
<1>3. ASSUME NEW d, Writes(p, d), d.new = op[p].new, d.session = op[p].session,
             d.pc \in {"checkAccess", "checkRefresh", "dropAccess"}, op[p].pc \in Touching
      PROVE  Store'
  BY <1>1, <1>3, OpOnly DEF Saving, Mid
<1>4. ASSUME NEW pc \in {"forget", "forgetAll", "revokeOthers"}, Enter(p, pc)
      PROVE  Store'
  BY <1>2, <1>4, EnterStep DEF Inv, Pcs, Enters
<1>5. ASSUME NEW pc \in {"checkAccess", "checkRefresh", "dropAccess"}, Enter(p, pc),
             op[p].pc \in Touching
      PROVE  Store'
  BY <1>3, <1>5, EnterStep DEF Inv, Pcs, Enters
<1>6. CASE End(p)
  BY <1>2, <1>6, EndStep, IdleFuture DEF Inv
<1>7. CASE GetSession(p)
  BY <1>5, <1>6, <1>7 DEF GetSession, Touching
<1>8. CASE Check(p)
  BY <1>2, <1>4, <1>5, <1>6, <1>8, CheckStep DEF Touching
<1>9. CASE RevokeRow(p) \/ RevokeAll(p) \/ RevokeOthers(p)
  BY <1>4, <1>6, <1>9 DEF RevokeRow, RevokeAll, RevokeOthers
<1> QED BY <1>7, <1>8, <1>9

LEMMA StoreStep ==
    ASSUME Inv, Store, [Next]_vars
    PROVE  Store'
<1>1. CASE \E p \in Operation : Issue(p)
  BY <1>1, StoreIssue
<1>2. CASE ~\E p \in Operation : Issue(p)
  <2>1. \A s \in Session : Issued(s)' <=> Issued(s)
    BY <1>2, OldRows DEF Stays, Blank, Issued
  <2>2. drops' = 0 => drops = 0
    BY EventsTyped
  <2>3. UNCHANGED <<access, refresh, sessions, known, op>> => Store'
    BY <2>1, <2>2, StoreUntouched
  <2>4. ASSUME NEW p \in Operation, OperationStep(p)
        PROVE  Store'
    BY <1>2, <2>1, <2>4, StoreSave, StoreDrop, StoreForget, StoreForgetIndex, StoreForgetAll,
       StoreForgetIndices, StoreReads
    DEF OperationStep
  <2>5. ASSUME NEW a \in Account, Enable(a)
        PROVE  Store'
    BY <2>3, <2>5 DEF Enable, storeVars
  <2>6. ASSUME NEW s \in Session, Expire(s)
        PROVE  Store'
    BY <2>3, <2>6 DEF Expire, storeVars
  <2>7. ASSUME NEW c \in Call, CallStep(c)
        PROVE  Store'
    BY <2>3, <2>7
    DEF CallStep, Admit, Permit, LoseSlot, EndCall, GiveBack,
        GiveBackFails, CallUnchanged, storeVars
  <2>8. CASE RevokeToken \/ UNCHANGED vars
    BY <2>3, <2>8 DEF RevokeToken, CallUnchanged, vars, storeVars
  <2> QED BY <2>1, <2>4, <2>5, <2>6, <2>7, <2>8, StoreBegins, StoreEnds DEF Next
<1> QED BY <1>1, <1>2

LEMMA InitStore == Init => Store
<1> SUFFICES ASSUME Init PROVE Store
  OBVIOUS
<1>1. access = {} /\ refresh = {} /\ sessions = {} /\ \A q \in Operation : op[q] = Idle
  BY DEF Init
<1>2. \A q \in Operation, s \in Session :
          /\ ~Saves(q, s) /\ ~Touches(q, s) /\ ~ForgetsIndices(q, s)
          /\ ~At(q, {"dropRefresh", "dropSession"}, s) /\ ~At(q, {"dropSession"}, s)
          /\ ~At(q, {"forgetAccess", "forgetRefresh"}, s)
  BY <1>1, IdleFuture DEF Saves, Touches, At, ForgetsIndices, Touching, Saving
<1>3. NewAlone
  BY <1>1, IdleFuture, NoneAssumption DEF NewAlone
<1>4. Unused /\ SavedInOrder
  BY <1>1, <1>2 DEF Unused, SavedInOrder
<1>5. DeletedInOrder /\ Mending
  BY <1>1, <1>2 DEF DeletedInOrder, Mending, Mended
<1> QED BY <1>3, <1>4, <1>5 DEF Store

LEMMA StoreInvariance == Spec => []Store
<1>1. Inv /\ Store /\ [Next]_vars => Store'
  BY StoreStep
<1> QED BY <1>1, InitStore, Invariance, PTL DEF Spec

\* However save, delete_session, delete_session_by_id and
\* delete_sessions_by_account interleave under their three locks, the three maps
\* hold the same sessions when all operations are over and none was dropped.
THEOREM MapsAgree == Spec => []StoreAgrees
<1>1. Inv /\ Store => StoreAgrees
  <2> SUFFICES ASSUME Inv, Store, Quiet, drops = 0
               PROVE  access = sessions /\ refresh = sessions
    BY DEF StoreAgrees
  <2>1. \A q \in Operation, s \in Session :
            /\ ~Saves(q, s) /\ ~ForgetsIndices(q, s)
            /\ ~At(q, {"dropRefresh", "dropSession"}, s) /\ ~At(q, {"dropSession"}, s)
            /\ ~At(q, {"forgetAccess"}, s) /\ ~At(q, {"forgetAccess", "forgetRefresh"}, s)
    BY DEF Quiet, Saves, ForgetsIndices, At, Saving
  <2>2. \A s \in Session : (s \in access <=> s \in sessions) /\ (s \in refresh <=> s \in sessions)
    BY <2>1 DEF Store, Mending, Mended
  <2> QED BY <2>2 DEF Inv, TypeOK
<1> QED BY <1>1, Invariance, StoreInvariance, PTL
-----------------------------------------------------------------------------
(* A live session stays in the store. *)

Live(s) ==
    row[s].status = "active" /\ row[s].access = "valid" /\ account[row[s].owner] = "active"

Stored(s) == s \in access \cap refresh \cap sessions

\* a future that takes session s out of the store, or will
Removes(d, s) ==
    \/ /\ d.pc \in {"dropAccess", "dropRefresh", "dropSession",
                    "forget", "forgetAccess", "forgetRefresh"}
       /\ d.session = s
    \/ d.pc = "forgetIndices" /\ s \in d.todo

\* a future that ends all sessions of its account
EndsAll(d) == d.pc \in {"revokeAll", "forgetAll"} =>
                  d.account \in Account /\ account[d.account] # "active"

\* a future whose new session is s has put it where it should be by now
Holds(d, s) == d.new = s =>
    /\ d.pc \in {"saveRefresh", "saveSession"} => s \in access
    /\ d.pc = "saveSession" => s \in refresh
    /\ d.pc \in {"revoke", "forget", "forgetAccess", "forgetRefresh"} => Stored(s)

LiveKept ==
    /\ \A s \in Session : row[s].refresh = "expired" => row[s].access = "expired"
    /\ \A q \in Operation : EndsAll(op[q])
    /\ \A q \in Operation, s \in Session : Live(s) => ~Removes(op[q], s)
    /\ crashes = 0 => \A s \in Session : Live(s) =>
          (s \in known => Stored(s)) /\ \A q \in Operation : Holds(op[q], s)

\* no step brings a session to life but the one that issues it
LEMMA LiveStays ==
    ASSUME Inv, LiveKept, [Next]_vars, ~\E p \in Operation : Issue(p)
    PROVE  /\ \A s \in Session : Live(s)' => Live(s)
           /\ \A s \in Session : row'[s].refresh = "expired" => row'[s].access = "expired"
           /\ \A a \in Account : account'[a] = "active" => account[a] = "active"
<1>0. /\ row \in [Session -> Row] /\ TypeOK /\ account \in [Account -> {"active", "disabled", "changed"}]
      /\ \A s \in Session : row[s].refresh = "expired" => row[s].access = "expired"
      /\ \A s \in Session : row[s].status = "active" => row[s].owner \in Account
  BY DEF Inv, TypeOK, LiveKept, RowKnown, Issued
<1>1. \A a \in Account : account'[a] = "active" => account[a] = "active"
  <2>1. ASSUME NEW p \in Operation, NEW a \in Account, Disable(p, a) \/ ChangeAccount(p, a)
        PROVE  \A b \in Account : account'[b] = "active" => account[b] = "active"
    <3>1. PICK x \in {"disabled", "changed", account[a]} :
             account' = [account EXCEPT ![a] = x] /\ (x = "active" => account[a] = "active")
      BY <2>1 DEF Disable, ChangeAccount
    <3> QED BY <1>0, <3>1
  <2>2. ASSUME NEW a \in Account, Enable(a)
        PROVE  \A b \in Account : account'[b] = "active" => account[b] = "active"
    BY <1>0, <2>2 DEF Enable
  <2> QED BY <2>1, <2>2
      DEF Next, vars, Login, Begin, Authenticate, Refresh, Revoke, OperationStep, Issue, SaveAccess,
          SaveRefresh, SaveSession, GetSession, Check, DropAccess, DropRefresh, DropSession,
          RevokeRow, Forget, ForgetAccess, ForgetRefresh, RevokeAll, ForgetAll, ForgetIndices,
          RevokeOthers, DropOperation, Expire, CallStep, Admit, Permit, LoseSlot, EndCall, GiveBack,
          GiveBackFails,
          RevokeToken, Crash, CallUnchanged
<1> DEFINE Ages(r, t) == /\ t.owner = r.owner
                         /\ t.status = "active" => r.status = "active"
                         /\ t.access = "valid" => r.access = "valid"
                         /\ t.refresh = "expired" => r.refresh = "expired" \/ t.access = "expired"
                         /\ r.access = "expired" => t.access = "expired"
<1>2. \A s \in Session : Ages(row[s], row'[s])
  <2>1. CASE UNCHANGED row
    BY <2>1
  <2>2. ASSUME NEW s \in Session, NEW x \in Row, Ages(row[s], x), row' = [row EXCEPT ![s] = x]
        PROVE  \A t \in Session : Ages(row[t], row'[t])
    BY <1>0, <2>2
  <2>3. ASSUME NEW p \in Operation, RevokeRow(p)
        PROVE  \A t \in Session : Ages(row[t], row'[t])
    <3> DEFINE s == op[p].session
               x == [row[s] EXCEPT !.status = "revoked"]
    <3>1. s \in Session /\ row[s] \in Row /\ row' = [row EXCEPT ![s] = x]
      BY <1>0, <2>3 DEF RevokeRow, Inv, Knows, OfSession
    <3>2. x \in Row /\ Ages(row[s], x)
      BY <3>1, RevokedRow
    <3> HIDE DEF x, s, Ages
    <3> QED BY <2>2, <3>1, <3>2
  <2>4. ASSUME NEW p \in Operation, RevokeAll(p) \/ RevokeOthers(p)
        PROVE  \A t \in Session : Ages(row[t], row'[t])
    <3> TAKE t \in Session
    <3>1. row[t] \in Row /\ row'[t] \in {row[t], [row[t] EXCEPT !.status = "revoked"]}
      BY <1>0, <2>4 DEF RevokeAll, RevokeOthers, Revoked
    <3>2. CASE row'[t] = row[t]
      BY <3>2
    <3>3. CASE row'[t] = [row[t] EXCEPT !.status = "revoked"]
      BY <3>1, <3>3, RevokedRow
    <3> QED BY <3>1, <3>2, <3>3
  <2>5. ASSUME NEW s \in Session, Expire(s)
        PROVE  \A t \in Session : Ages(row[t], row'[t])
    <3> DEFINE r == row[s]
               x == [r EXCEPT !.access = "expired"]
               y == [r EXCEPT !.refresh = "expired"]
    <3>1. r \in Row
      BY <1>0
    <3>2. row' = [row EXCEPT ![s] = IF r.access = "valid" THEN x ELSE y]
      BY <2>5 DEF Expire
    <3>3. x \in Row /\ Ages(r, x)
      BY <3>1 DEF Row
    <3>4. r.access # "valid" => y \in Row /\ Ages(r, y)
      BY <3>1 DEF Row
    <3> HIDE DEF x, y, Ages
    <3> QED BY <2>2, <3>2, <3>3, <3>4
  <2> HIDE DEF Ages
  <2> QED BY <2>1, <2>3, <2>4, <2>5
      DEF Next, vars, Login, Begin, Authenticate, Refresh, Revoke, Disable, ChangeAccount, Enable,
          OperationStep, SaveAccess, SaveRefresh, SaveSession, GetSession, Check, DropAccess,
          DropRefresh, DropSession, Forget, ForgetAccess, ForgetRefresh, ForgetAll, ForgetIndices,
          DropOperation, CallStep, Admit, Permit, LoseSlot, EndCall, GiveBack,
          GiveBackFails, RevokeToken, Crash,
          CallUnchanged
<1>3. \A s \in Session : row'[s].status \in {"none", "active", "revoked"} /\ row'[s].access \in {"valid", "expired"}
  BY RowsStay DEF Row
<1> QED BY <1>0, <1>1, <1>2, <1>3 DEF Live

\* a step that writes a future alone and keeps what is live in the store
LEMMA LiveKeptBy ==
    ASSUME Inv, LiveKept, [Next]_vars, ~\E p \in Operation : Issue(p),
           NEW p \in Operation, NEW d, Writes(p, d), crashes' = crashes,
           EndsAll(d)',
           \A s \in Session : Live(s)' /\ Live(s) => ~Removes(d, s),
           crashes = 0 => \A s \in Session : Live(s) =>
               /\ Holds(d, s)'
               /\ s \in access => s \in access'
               /\ s \in refresh => s \in refresh'
               /\ s \in sessions => s \in sessions'
               /\ s \in known' => s \in known \/ Stored(s)'
    PROVE  LiveKept'
<1>1. \A q \in Operation : op'[q] = IF q = p THEN d ELSE op[q]
  BY DEF Writes
<1>2. /\ \A s \in Session : Live(s)' => Live(s)
      /\ \A s \in Session : row'[s].refresh = "expired" => row'[s].access = "expired"
      /\ \A a \in Account : account'[a] = "active" => account[a] = "active"
  BY LiveStays
<1>3. \A q \in Operation : EndsAll(op[q])'
  BY <1>1, <1>2 DEF LiveKept, EndsAll
<1>4. \A q \in Operation, s \in Session : Live(s)' => ~Removes(op'[q], s)
  BY <1>1, <1>2 DEF LiveKept
<1>5. ASSUME crashes = 0, NEW s \in Session, Live(s)'
      PROVE  (s \in known' => Stored(s)') /\ \A q \in Operation : Holds(op[q], s)'
  <2>1. /\ Live(s) /\ (Stored(s) => Stored(s)')
        /\ s \in known => Stored(s)
    BY <1>2, <1>5 DEF LiveKept, Stored
  <2>2. s \in known' => Stored(s)'
    BY <1>5, <2>1
  <2>3. \A q \in Operation : Holds(op[q], s)'
    BY <1>1, <1>5, <2>1 DEF LiveKept, Holds
  <2> QED BY <2>2, <2>3
<1> QED BY <1>2, <1>3, <1>4, <1>5 DEF LiveKept

\* a step that writes no future and nothing of the store
LEMMA LiveKeptUntouched ==
    ASSUME Inv, LiveKept, [Next]_vars, ~\E p \in Operation : Issue(p),
           UNCHANGED <<access, refresh, sessions, known, op, crashes>>
    PROVE  LiveKept'
<1>1. /\ \A s \in Session : Live(s)' => Live(s)
      /\ \A s \in Session : row'[s].refresh = "expired" => row'[s].access = "expired"
      /\ \A a \in Account : account'[a] = "active" => account[a] = "active"
  BY LiveStays
<1> QED BY <1>1 DEF LiveKept, EndsAll, Removes, Holds, Stored

LEMMA IssueKeepsLive ==
    ASSUME Inv, Store, LiveKept, NEW p \in Operation, Issue(p)
    PROVE  LiveKept'
<1>1. PICK s \in Session, d \in Future :
          /\ ~Issued(s) /\ row'[s].refresh = "valid" /\ \A t \in Session \ {s} : row'[t] = row[t]
          /\ Writes(p, d) /\ d.pc = "saveAccess" /\ d.new = s
  BY IssueStep
<1>2. UNCHANGED <<account, access, refresh, sessions, known, crashes>>
  BY DEF Issue, storeVars, limitVars
<1>3. \A q \in Operation : op'[q] = IF q = p THEN d ELSE op[q]
  BY <1>1 DEF Writes
<1>4. s \notin known /\ \A q \in Operation : op[q].new # s /\ op[q].session # s /\ ~ForgetsIndices(q, s)
  BY <1>1 DEF Inv, Knows, RowKnown, Store, Unused, Touches
<1>5. \A t \in Session \ {s} : Live(t)' => Live(t)
  BY <1>1, <1>2 DEF Live
<1>6. \A q \in Operation : EndsAll(op[q])'
  BY <1>1, <1>2, <1>3 DEF LiveKept, EndsAll
<1>7. \A q \in Operation, t \in Session : Live(t)' => ~Removes(op'[q], t)
  BY <1>1, <1>3, <1>4, <1>5 DEF LiveKept, Removes, ForgetsIndices
<1>8. ASSUME crashes = 0, NEW t \in Session, Live(t)'
      PROVE  (t \in known' => Stored(t)') /\ \A q \in Operation : Holds(op[q], t)'
  <2>1. CASE t = s
    BY <1>1, <1>2, <1>3, <1>4, <2>1 DEF Holds
  <2>2. CASE t # s
    BY <1>1, <1>2, <1>3, <1>5, <1>8, <2>2 DEF LiveKept, Holds, Stored
  <2> QED BY <2>1, <2>2
<1>9. \A t \in Session : row'[t].refresh = "expired" => row'[t].access = "expired"
  BY <1>1 DEF LiveKept
<1> QED BY <1>2, <1>6, <1>7, <1>8, <1>9 DEF LiveKept

LEMMA IdleHolds ==
    /\ EndsAll(Idle)' /\ \A s \in Session : ~Removes(Idle, s) /\ Holds(Idle, s)'
BY IdleFuture, NoneAssumption DEF EndsAll, Removes, Holds

\* save: a new session is told to its client when the three maps have it.
LEMMA SavingKeepsLive ==
    ASSUME Inv, LiveKept, [Next]_vars, ~\E q \in Operation : Issue(q), NEW p \in Operation,
           SaveAccess(p) \/ SaveRefresh(p) \/ SaveSession(p)
    PROVE  LiveKept'
<1>0. /\ crashes' = crashes /\ op[p].pc \in Saving
      /\ access \subseteq access' /\ refresh \subseteq refresh' /\ sessions \subseteq sessions'
      /\ crashes = 0 => \A s \in Session : Live(s) => Holds(op[p], s)
  BY DEF SaveAccess, SaveRefresh, SaveSession, limitVars, Saving, LiveKept
<1>1. CASE SaveAccess(p)
  <2>1. PICK d : Writes(p, d) /\ Enters(op[p], d, "saveRefresh")
    BY <1>1, EnterStep DEF SaveAccess, Inv, Pcs
  <2>2. access' = access \cup {op[p].new} /\ known' = known
    BY <1>1 DEF SaveAccess
  <2>3. EndsAll(d)' /\ \A s \in Session : ~Removes(d, s) /\ Holds(d, s)'
    BY <2>1, <2>2 DEF Enters, EndsAll, Removes, Holds
  <2> QED BY <1>0, <2>1, <2>2, <2>3, LiveKeptBy
<1>2. CASE SaveRefresh(p)
  <2>1. PICK d : Writes(p, d) /\ Enters(op[p], d, "saveSession")
    BY <1>2, EnterStep DEF SaveRefresh, Inv, Pcs
  <2>2. refresh' = refresh \cup {op[p].new} /\ known' = known /\ op[p].pc = "saveRefresh"
    BY <1>2 DEF SaveRefresh
  <2>3. EndsAll(d)' /\ \A s \in Session : ~Removes(d, s)
    BY <2>1 DEF Enters, EndsAll, Removes
  <2>4. crashes = 0 => \A s \in Session : Live(s) => Holds(d, s)'
    BY <1>0, <2>1, <2>2 DEF Enters, Holds
  <2> QED BY <1>0, <2>1, <2>2, <2>3, <2>4, LiveKeptBy
<1>3. CASE SaveSession(p)
  <2>1. /\ sessions' = sessions \cup {op[p].new} /\ op[p].pc = "saveSession"
        /\ \/ End(p) /\ known' = known \cup {op[p].new}
           \/ Enter(p, "revoke") /\ known' = known
    BY <1>3 DEF SaveSession
  <2>2. crashes = 0 => \A s \in Session : Live(s) /\ s = op[p].new => Stored(s)'
    BY <1>0, <2>1 DEF Holds, Stored
  <2>3. CASE End(p) /\ known' = known \cup {op[p].new}
    BY <1>0, <2>2, <2>3, EndStep, IdleHolds, LiveKeptBy DEF Inv
  <2>4. CASE Enter(p, "revoke") /\ known' = known
    <3>1. PICK d : Writes(p, d) /\ Enters(op[p], d, "revoke")
      BY <2>4, EnterStep DEF Inv, Pcs
    <3>2. EndsAll(d)' /\ \A s \in Session : ~Removes(d, s)
      BY <3>1 DEF Enters, EndsAll, Removes
    <3>3. crashes = 0 => \A s \in Session : Live(s) => Holds(d, s)'
      BY <2>2, <3>1 DEF Enters, Holds
    <3> QED BY <1>0, <2>4, <3>1, <3>2, <3>3, LiveKeptBy
  <2> QED BY <2>1, <2>3, <2>4
<1> QED BY <1>1, <1>2, <1>3

LEMMA BeginningKeepsLive ==
    ASSUME Inv, LiveKept, [Next]_vars, ~\E q \in Operation : Issue(q), NEW p \in Operation,
           \/ \E a \in Account : Login(p, a) \/ Disable(p, a) \/ ChangeAccount(p, a)
           \/ \E s \in Session : Authenticate(p, s) \/ Refresh(p, s) \/ Revoke(p, s)
    PROVE  LiveKept'
<1>0. UNCHANGED <<access, refresh, sessions, known, crashes>>
  BY DEF Login, Disable, ChangeAccount, Authenticate, Refresh, Begin, Revoke, storeVars, limitVars
<1>1. ASSUME NEW d, Writes(p, d), d.new = None, EndsAll(d)',
             d.pc \in {"issue", "revokeAll", "getAccess", "getRefresh", "revoke"}
      PROVE  LiveKept'
  <2>1. \A s \in Session : ~Removes(d, s) /\ Holds(d, s)'
    BY <1>1, NoneAssumption DEF Removes, Holds
  <2> QED BY <1>0, <1>1, <2>1, LiveKeptBy
<1>2. ASSUME NEW a \in Account, Login(p, a)
      PROVE  LiveKept'
  <2>1. PICK d : Writes(p, d) /\ Begins(d, "issue", a, None)
    BY <1>2, BeginForAccount DEF Login, Inv, Pcs
  <2> QED BY <1>1, <2>1 DEF Begins, EndsAll
<1>3. ASSUME NEW a \in Account, Disable(p, a) \/ ChangeAccount(p, a)
      PROVE  LiveKept'
  <2>1. PICK d : Writes(p, d) /\ Begins(d, "revokeAll", a, None)
    BY <1>3, BeginForAccount DEF Disable, ChangeAccount, Inv, Pcs
  <2>2. account'[a] # "active"
    BY <1>3 DEF Disable, ChangeAccount, Inv, TypeOK
  <2> QED BY <1>1, <2>1, <2>2 DEF Begins, EndsAll
<1>4. ASSUME NEW s \in Session, Authenticate(p, s) \/ Refresh(p, s) \/ Revoke(p, s)
      PROVE  LiveKept'
  <2>1. PICK pc \in {"getAccess", "getRefresh", "revoke"} :
            op' = [op EXCEPT ![p] = [Idle EXCEPT !.pc = pc, !.session = s]]
    BY <1>4 DEF Authenticate, Refresh, Begin, Revoke
  <2>2. PICK d : Writes(p, d) /\ Begins(d, pc, None, s)
    BY <2>1, BeginForSession DEF Inv, Pcs
  <2> QED BY <1>1, <2>1, <2>2 DEF Begins, EndsAll
<1> QED BY <1>2, <1>3, <1>4

\* A session that is live passes the check of its token.
LEMMA LiveIsValid ==
    ASSUME Inv, LiveKept, NEW s \in Session, Live(s)
    PROVE  Valid(s, "access") /\ Valid(s, "refresh")
<1>1. row[s].refresh # "expired" /\ row[s] \in Row
  BY DEF LiveKept, Live, Inv, TypeOK
<1> QED BY <1>1 DEF Live, Valid, Active, Row

\* authenticate_access_token and refresh: only a session that is not live is
\* taken out of the store.
LEMMA ReadingKeepsLive ==
    ASSUME Inv, LiveKept, [Next]_vars, ~\E q \in Operation : Issue(q), NEW p \in Operation,
           GetSession(p) \/ Check(p)
    PROVE  LiveKept'
<1>0. UNCHANGED <<account, row, access, refresh, sessions, known, crashes>>
  BY DEF GetSession, Check, storeVars, limitVars
<1>1. ASSUME NEW d, Writes(p, d), d.pc \in {"issue", "checkAccess", "checkRefresh", "revokeOthers"}
      PROVE  LiveKept'
  <2>1. EndsAll(d)' /\ \A s \in Session : ~Removes(d, s) /\ Holds(d, s)'
    BY <1>1 DEF EndsAll, Removes, Holds
  <2> QED BY <1>0, <1>1, <2>1, LiveKeptBy
<1>2. CASE End(p)
  BY <1>0, <1>2, EndStep, IdleHolds, LiveKeptBy DEF Inv
<1>3. ASSUME NEW pc \in {"checkAccess", "checkRefresh", "revokeOthers"}, Enter(p, pc)
      PROVE  LiveKept'
  BY <1>1, <1>3, EnterStep DEF Inv, Pcs, Enters
<1>4. ASSUME Enter(p, "dropAccess"), ~Live(op[p].session)
      PROVE  LiveKept'
  <2>1. PICK d : Writes(p, d) /\ Enters(op[p], d, "dropAccess")
    BY <1>4, EnterStep DEF Inv, Pcs
  <2>2. EndsAll(d)' /\ \A s \in Session : Holds(d, s)' /\ (Live(s) => ~Removes(d, s))
    BY <1>4, <2>1 DEF Enters, EndsAll, Removes, Holds
  <2> QED BY <1>0, <2>1, <2>2, LiveKeptBy
<1>5. CASE GetSession(p)
  BY <1>2, <1>3, <1>5 DEF GetSession
<1>6. CASE Check(p)
  <2>1. op[p].session \in Session
    BY <1>6 DEF Check, Inv, Knows, OfSession
  <2>2. Live(op[p].session) => Valid(op[p].session, "access") /\ Valid(op[p].session, "refresh")
    BY <2>1, LiveIsValid
  <2> QED BY <1>1, <1>2, <1>3, <1>4, <1>6, <2>2, CheckStep
<1> QED BY <1>5, <1>6

\* delete_session takes out a session that was found not to be live.
LEMMA DroppingKeepsLive ==
    ASSUME Inv, LiveKept, [Next]_vars, ~\E q \in Operation : Issue(q), NEW p \in Operation,
           DropAccess(p) \/ DropRefresh(p) \/ DropSession(p)
    PROVE  LiveKept'
<1> DEFINE c == op[p]
<1>0. /\ UNCHANGED <<known, crashes>> /\ c.pc \in {"dropAccess", "dropRefresh", "dropSession"}
      /\ access \ {c.session} \subseteq access' /\ refresh \ {c.session} \subseteq refresh'
      /\ sessions \ {c.session} \subseteq sessions'
      /\ \A s \in Session : Live(s) => s # c.session
  BY DEF DropAccess, DropRefresh, DropSession, limitVars, LiveKept, Removes
<1>1. ASSUME NEW pc \in {"dropRefresh", "dropSession"}, Enter(p, pc)
      PROVE  LiveKept'
  <2>1. PICK d : Writes(p, d) /\ Enters(c, d, pc)
    BY <1>1, EnterStep DEF Inv, Pcs
  <2>2. EndsAll(d)' /\ \A s \in Session : Holds(d, s)' /\ (Live(s) => ~Removes(d, s))
    BY <1>0, <1>1, <2>1 DEF Enters, EndsAll, Removes, Holds
  <2> HIDE DEF c
  <2> QED BY <1>0, <2>1, <2>2, LiveKeptBy
<1>2. CASE End(p)
  <2> HIDE DEF c
  <2> QED BY <1>0, <1>2, EndStep, IdleHolds, LiveKeptBy DEF Inv
<1> QED BY <1>1, <1>2 DEF DropAccess, DropRefresh, DropSession

\* revoke_session_record: the session it is about is live no more.
LEMMA RevokingKeepsLive ==
    ASSUME Inv, LiveKept, [Next]_vars, ~\E q \in Operation : Issue(q), NEW p \in Operation,
           RevokeRow(p)
    PROVE  LiveKept'
<1> DEFINE c == op[p]
           s0 == c.session
<1>0. /\ UNCHANGED <<access, refresh, sessions, known, crashes>> /\ c.pc = "revoke"
      /\ s0 \in Session /\ row[s0] \in Row /\ row \in [Session -> Row]
      /\ row' = [row EXCEPT ![s0] = [row[s0] EXCEPT !.status = "revoked"]]
  BY DEF RevokeRow, storeVars, limitVars, Inv, TypeOK, Knows, OfSession
<1>1. row'[s0].status = "revoked"
  <2> HIDE DEF s0
  <2> QED BY <1>0, RevokedRow
<1>2. PICK d : Writes(p, d) /\ Enters(c, d, "forget")
  BY EnterStep DEF RevokeRow, Inv, Pcs
<1>3. EndsAll(d)' /\ \A s \in Session : Live(s)' => ~Removes(d, s)
  BY <1>1, <1>2 DEF Enters, EndsAll, Removes, Live
<1>4. crashes = 0 => \A s \in Session : Live(s) => Holds(d, s)'
  BY <1>0, <1>2 DEF LiveKept, Holds, Enters, Stored
<1> HIDE DEF c
<1> QED BY <1>0, <1>2, <1>3, <1>4, LiveKeptBy

\* delete_session_by_id takes out a session that was revoked; the session that
\* a refresh issued in its place is in the store when the client is told of it.
LEMMA ForgettingKeepsLive ==
    ASSUME Inv, LiveKept, [Next]_vars, ~\E q \in Operation : Issue(q), NEW p \in Operation,
           Forget(p) \/ ForgetAccess(p) \/ ForgetRefresh(p)
    PROVE  LiveKept'
<1> DEFINE c == op[p]
<1>0. /\ crashes' = crashes /\ c.pc \in {"forget", "forgetAccess", "forgetRefresh"}
      /\ access \ {c.session} \subseteq access' /\ refresh \ {c.session} \subseteq refresh'
      /\ sessions \ {c.session} \subseteq sessions'
      /\ \A s \in Session : Live(s) => s # c.session
  BY DEF Forget, ForgetAccess, ForgetRefresh, limitVars, LiveKept, Removes
<1>1. crashes = 0 => \A s \in Session : Live(s) =>
          /\ s \in access => s \in access'
          /\ s \in refresh => s \in refresh'
          /\ s \in sessions => s \in sessions'
          /\ c.new = s => Stored(s)'
  BY <1>0 DEF LiveKept, Holds, Stored
<1>2. ASSUME NEW pc \in {"forgetAccess", "forgetRefresh"}, Enter(p, pc), known' = known
      PROVE  LiveKept'
  <2>1. PICK d : Writes(p, d) /\ Enters(c, d, pc)
    BY <1>2, EnterStep DEF Inv, Pcs
  <2>2. EndsAll(d)' /\ \A s \in Session : Live(s) => ~Removes(d, s)
    BY <1>0, <1>2, <2>1 DEF Enters, EndsAll, Removes
  <2>3. crashes = 0 => \A s \in Session : Live(s) => Holds(d, s)'
    BY <1>1, <1>2, <2>1 DEF Enters, Holds
  <2> HIDE DEF c
  <2> QED BY <1>0, <1>1, <1>2, <2>1, <2>2, <2>3, LiveKeptBy
<1>3. CASE Finished(p)
  <2>1. End(p) /\ \A s \in known' : s \in known \/ s = c.new
    BY <1>3 DEF Finished
  <2> HIDE DEF c
  <2> QED BY <1>0, <1>1, <2>1, EndStep, IdleHolds, LiveKeptBy DEF Inv
<1> QED BY <1>2, <1>3 DEF Forget, ForgetAccess, ForgetRefresh

\* revoke_sessions_by_account and delete_sessions_by_account: all sessions they
\* end are of an account that has changed, those issued in between as well.
LEMMA EndingAllKeepsLive ==
    ASSUME Inv, LiveKept, [Next]_vars, ~\E q \in Operation : Issue(q), NEW p \in Operation,
           RevokeAll(p) \/ ForgetAll(p) \/ ForgetIndices(p)
    PROVE  LiveKept'
<1>0. /\ UNCHANGED <<known, crashes>>
      /\ op[p].pc \in {"revokeAll", "forgetAll"} =>
             \A s \in Session : Live(s) => row[s].owner # op[p].account
  BY DEF RevokeAll, ForgetAll, ForgetIndices, limitVars, LiveKept, EndsAll, Live
<1>1. CASE RevokeAll(p)
  <2>1. UNCHANGED <<account, access, refresh, sessions>> /\ op[p].pc = "revokeAll"
    BY <1>1 DEF RevokeAll, storeVars
  <2>2. PICK d : Writes(p, d) /\ Enters(op[p], d, "forgetAll")
    BY <1>1, EnterStep DEF RevokeAll, Inv, Pcs
  <2>3. EndsAll(d)'
    BY <2>1, <2>2 DEF Enters, EndsAll, LiveKept
  <2>4. \A s \in Session : ~Removes(d, s) /\ Holds(d, s)'
    BY <2>2 DEF Enters, Removes, Holds
  <2> QED BY <1>0, <2>1, <2>2, <2>3, <2>4, LiveKeptBy
<1>2. CASE ForgetAll(p)
  <2>1. PICK d : /\ Writes(p, d) /\ d.pc = "forgetIndices"
                 /\ sessions' = sessions \ d.todo
                 /\ \A s \in d.todo : row[s].owner = op[p].account
    BY <1>2, ForgetAllStep
  <2>2. UNCHANGED <<access, refresh>> /\ op[p].pc = "forgetAll"
    BY <1>2 DEF ForgetAll
  <2>3. EndsAll(d)' /\ \A s \in Session : Holds(d, s)' /\ (Live(s) => s \notin d.todo)
    BY <1>0, <2>1, <2>2 DEF EndsAll, Holds
  <2>4. \A s \in Session : Live(s) => ~Removes(d, s)
    BY <2>1, <2>3 DEF Removes
  <2> QED BY <1>0, <2>1, <2>2, <2>3, <2>4, LiveKeptBy
<1>3. CASE ForgetIndices(p)
  <2>1. \A s \in Session : Live(s) => s \notin op[p].todo
    BY <1>3 DEF ForgetIndices, LiveKept, Removes
  <2>2. /\ access' = access \ op[p].todo /\ refresh' = refresh \ op[p].todo
        /\ sessions' = sessions /\ End(p)
    BY <1>3 DEF ForgetIndices
  <2> QED BY <1>0, <2>1, <2>2, EndStep, IdleHolds, LiveKeptBy DEF Inv
<1> QED BY <1>1, <1>2, <1>3

LEMMA EndingKeepsLive ==
    ASSUME Inv, LiveKept, [Next]_vars, ~\E q \in Operation : Issue(q), NEW p \in Operation,
           RevokeOthers(p) \/ DropOperation(p)
    PROVE  LiveKept'
<1>1. End(p) /\ UNCHANGED <<access, refresh, sessions, known, crashes>>
  BY DEF RevokeOthers, DropOperation, storeVars, limitVars
<1> QED BY <1>1, EndStep, IdleHolds, LiveKeptBy DEF Inv

LEMMA CrashKeepsLive ==
    ASSUME Inv, LiveKept, [Next]_vars, ~\E q \in Operation : Issue(q), Crash
    PROVE  LiveKept'
<1>1. crashes' # 0 /\ \A q \in Operation : op'[q] = Idle
  BY DEF Crash, Inv, TypeOK
<1>2. \A s \in Session : row'[s].refresh = "expired" => row'[s].access = "expired"
  BY LiveStays
<1> QED BY <1>1, <1>2, IdleHolds DEF LiveKept, EndsAll, Removes

LEMMA LiveKeptStep ==
    ASSUME Inv, Store, LiveKept, [Next]_vars
    PROVE  LiveKept'
<1>1. CASE \E p \in Operation : Issue(p)
  BY <1>1, IssueKeepsLive
<1>2. CASE ~\E p \in Operation : Issue(p)
  <2>1. UNCHANGED <<access, refresh, sessions, known, op, crashes>> => LiveKept'
    BY <1>2, LiveKeptUntouched
  <2>2. ASSUME NEW p \in Operation, OperationStep(p)
        PROVE  LiveKept'
    BY <1>2, <2>2, SavingKeepsLive, ReadingKeepsLive, DroppingKeepsLive, RevokingKeepsLive,
       ForgettingKeepsLive, EndingAllKeepsLive, EndingKeepsLive DEF OperationStep
  <2>3. ASSUME NEW a \in Account, Enable(a)
        PROVE  LiveKept'
    BY <2>1, <2>3 DEF Enable, storeVars, limitVars
  <2>4. ASSUME NEW s \in Session, Expire(s)
        PROVE  LiveKept'
    BY <2>1, <2>4 DEF Expire, storeVars, limitVars
  <2>5. ASSUME NEW c \in Call, CallStep(c)
        PROVE  LiveKept'
    BY <2>1, <2>5
    DEF CallStep, Admit, Permit, LoseSlot, EndCall, GiveBack,
        GiveBackFails, CallUnchanged, storeVars, limitVars
  <2>6. CASE RevokeToken \/ UNCHANGED vars
    BY <2>1, <2>6 DEF RevokeToken, CallUnchanged, vars, storeVars, limitVars
  <2> QED BY <1>2, <2>2, <2>3, <2>4, <2>5, <2>6, BeginningKeepsLive, EndingKeepsLive, CrashKeepsLive
      DEF Next
<1> QED BY <1>1, <1>2

LEMMA InitLiveKept == Init => LiveKept
<1> SUFFICES ASSUME Init PROVE LiveKept
  OBVIOUS
<1>1. /\ \A q \in Operation : op[q] = Idle
      /\ \A s \in Session : row[s].status = "none" /\ row[s].refresh = "valid"
  BY DEF Init, NoRow
<1> QED BY <1>1, IdleFuture DEF LiveKept, Live, EndsAll

\* refresh, logout, revoke_admin_session, set_account_status and the clean-up in
\* authenticate_access_token: whatever they do at once, a session whose client
\* has its tokens stays in the store while the database has it active and not
\* expired and nothing was to end all sessions of its account.
THEOREM LiveSessionsStay == Spec => []LiveSessionIsKept
<1>1. Inv /\ LiveKept => LiveSessionIsKept
  BY DEF Inv, TypeOK, LiveKept, LiveSessionIsKept, Live, Stored, Valid
<1>2. Inv /\ Store /\ LiveKept /\ [Next]_vars => LiveKept'
  BY LiveKeptStep
<1>3. Spec => []LiveKept
  BY <1>2, InitLiveKept, Invariance, StoreInvariance, PTL DEF Spec
<1> QED BY <1>1, <1>3, Invariance, PTL
=============================================================================
