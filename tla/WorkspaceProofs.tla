-------------------------- MODULE WorkspaceProofs --------------------------
(***************************************************************************)
(* What holds of the shared workspace for any users, requests, operations  *)
(* and number of invitations: its types, that nobody becomes a member      *)
(* without an accepted invitation in any interleaving of requests, and     *)
(* that it keeps an owner as long as requests come one at a time.          *)
(***************************************************************************)
EXTENDS WorkspaceTraffic, TLAPS

USE WorkspaceAssumption DEF WorkspaceAssumption

-----------------------------------------------------------------------------
(* Type correctness.                                                       *)

LEMMA EndType ==
    ASSUME TypeOK, NEW q \in Requests, NEW from, End(q, from)
    PROVE  /\ at' \in [Requests -> Steps]
           /\ who' \in [Requests -> Subjects]
           /\ op' \in [Requests -> Operations \union {Visit}]
           /\ found' \in [Requests -> SUBSET Invitations]
           /\ row' \in [Requests -> MemberRow]
<1>1. NoRow \in MemberRow
  BY DEF NoRow, Row, MemberRow, Roles, Statuses
<1> QED
  BY <1>1 DEF TypeOK, End, Goto, Steps

LEMMA GotoType ==
    ASSUME TypeOK, NEW q \in Requests, NEW from, NEW to \in Steps, Goto(q, from, to)
    PROVE  at' \in [Requests -> Steps]
  BY DEF TypeOK, Goto

\* An invitation that is settled keeps its type.
LEMMA SettledType ==
    ASSUME TypeOK, NEW i \in Invitations, NEW outcome \in Outcomes
    PROVE  Settled(i, outcome) \in InvitationRow
<1>1. invitation[i] \in InvitationRow
  BY DEF TypeOK
<1>2. invitation[i].stamps \union {outcome} \in SUBSET Outcomes
  BY <1>1 DEF InvitationRow
<1> QED
  BY <1>1, <1>2 DEF Settled, InvitationRow, Outcomes

LEMMA FindPendingType ==
    ASSUME TypeOK, NEW q \in Requests, NEW s, NEW from, NEW joining \in Steps, NEW after \in Steps,
           FindPending(q, s, from, joining, after)
    PROVE  TypeOK'
<1>1. found' \in [Requests -> SUBSET Invitations]
  BY DEF TypeOK, FindPending, Pending
<1>2. at' \in [Requests -> Steps]
  BY DEF TypeOK, FindPending
<1> QED
  BY <1>1, <1>2 DEF TypeOK, FindPending, tables, request

LEMMA ReadMemberType ==
    ASSUME TypeOK, NEW q \in Requests, NEW s \in Subjects, NEW from, NEW to \in Steps,
           ReadMember(q, s, from, to)
    PROVE  TypeOK'
  BY GotoType DEF TypeOK, ReadMember, tables, request

LEMMA AcceptType ==
    ASSUME TypeOK, NEW q \in Requests, NEW s \in Subjects, NEW from, NEW after \in Steps,
           Accept(q, s, from, after)
    PROVE  TypeOK'
<1>1. member' \in [Subjects -> MemberRow]
  <2>1. \A i \in found[q] : Accepted(q, i) \in MemberRow
    BY DEF TypeOK, Accepted, Row, MemberRow, InvitationRow, Statuses
  <2> QED
    BY <2>1 DEF TypeOK, Accept
<1>2. invitation' \in [Invitations -> InvitationRow]
  BY SettledType DEF TypeOK, Accept, Outcomes
<1> QED
  BY <1>1, <1>2, GotoType DEF TypeOK, Accept, request

LEMMA ConflictType ==
    ASSUME TypeOK, NEW q \in Requests, NEW s, NEW from, AcceptConflict(q, s, from)
    PROVE  TypeOK'
  BY EndType DEF TypeOK, AcceptConflict, tables

LEMMA InsertType ==
    ASSUME TypeOK, NEW q \in Requests, op[q].email \in Subjects, op[q].role \in Roles, Insert(q)
    PROVE  /\ invitation' \in [Invitations -> InvitationRow]
           /\ UNCHANGED <<profile, member, personal>>
  BY DEF TypeOK, Insert, InvitationRow

\* The operation a request is at work on is well formed.
LEMMA OperationOf ==
    ASSUME TypeOK, NEW q \in Requests
    PROVE  /\ who[q] \in Subjects
           /\ op[q].kind = "invite" => op[q].email \in Subjects /\ op[q].role \in Roles
           /\ op[q].kind = "revoke" => op[q].id \in Invitations
           /\ op[q].kind = "change" =>
                 /\ op[q].target \in Subjects
                 /\ op[q].role \in Roles \union {"same"}
                 /\ op[q].status \in {"active", "disabled", "removed", "same"}
  BY DEF TypeOK, Visit

\* A request past a check of its operation's kind has that kind.
InviteSteps == {"profiling", "inserting", "insertingUnknown", "inviteArrived",
                "inviteJoining", "inviteAccepting", "inviteDone"}
StepsFitOperation ==
    \A q \in Requests :
        /\ at[q] \in InviteSteps => op[q].kind = "invite"
        /\ at[q] \in {"changing", "writing"} => op[q].kind = "change"

\* A request that moves from one step to the next, its operation unchanged.
LEMMA GotoFits ==
    ASSUME TypeOK, StepsFitOperation, NEW q \in Requests, NEW to, at' = [at EXCEPT ![q] = to],
           UNCHANGED op,
           to \in InviteSteps => op[q].kind = "invite",
           to \in {"changing", "writing"} => op[q].kind = "change"
    PROVE  StepsFitOperation'
  BY DEF TypeOK, StepsFitOperation

LEMMA EndFits ==
    ASSUME TypeOK, StepsFitOperation, NEW q \in Requests, NEW from, End(q, from)
    PROVE  StepsFitOperation'
  BY DEF TypeOK, StepsFitOperation, End, Goto, InviteSteps

LEMMA BootstrapType ==
    ASSUME TypeOK, StepsFitOperation, NEW q \in Requests, Bootstrap(q)
    PROVE  TypeOK' /\ StepsFitOperation'
<1>1. ASSUME NEW s \in Subjects, NEW o \in Operations, Arrive(q, s, o)
      PROVE  TypeOK' /\ StepsFitOperation'
  <2>1. TypeOK'
    BY <1>1, GotoType DEF TypeOK, Arrive, Steps
  <2>2. StepsFitOperation'
    BY <1>1 DEF TypeOK, StepsFitOperation, Arrive, Goto, InviteSteps
  <2> QED
    BY <2>1, <2>2
<1>2. CASE BootFindPending(q)
  <2>1. TypeOK'
    BY <1>2, FindPendingType DEF BootFindPending, Steps
  <2>2. StepsFitOperation'
    BY <1>2, GotoFits DEF BootFindPending, FindPending, request, InviteSteps
  <2> QED
    BY <2>1, <2>2
<1>3. CASE BootReadMember(q)
  <2>1. TypeOK'
    BY <1>3, ReadMemberType, OperationOf DEF BootReadMember, Steps
  <2>2. StepsFitOperation'
    BY <1>3, GotoFits DEF BootReadMember, ReadMember, Goto, request, InviteSteps
  <2> QED
    BY <2>1, <2>2
<1>4. CASE BootAccept(q)
  <2>1. TypeOK'
    BY <1>4, AcceptType, OperationOf DEF BootAccept, Steps
  <2>2. StepsFitOperation'
    BY <1>4, GotoFits DEF BootAccept, Accept, Goto, request, InviteSteps
  <2> QED
    BY <2>1, <2>2
<1>5. CASE BootConflict(q)
  BY <1>5, ConflictType, EndFits DEF BootConflict, AcceptConflict
<1>6. CASE ListAccounts(q)
  <2>1. TypeOK'
    BY <1>6 DEF TypeOK, ListAccounts, Goto, Steps, tables, request
  <2>2. StepsFitOperation'
    BY <1>6, GotoFits DEF ListAccounts, Goto, request, InviteSteps
  <2> QED
    BY <2>1, <2>2
<1>7. CASE CreateAccount(q)
  <2>1. personal' \in [Subjects -> Nat]
    BY <1>7, OperationOf DEF TypeOK, CreateAccount
  <2>2. TypeOK'
    BY <1>7, <2>1, GotoType DEF TypeOK, CreateAccount, Steps, request
  <2>3. StepsFitOperation'
    BY <1>7, GotoFits DEF CreateAccount, Goto, request, InviteSteps
  <2> QED
    BY <2>2, <2>3
<1>8. CASE Permit(q)
  <2>1. TypeOK'
    BY <1>8, GotoType DEF TypeOK, Permit, Steps, tables, request
  <2>2. StepsFitOperation'
    BY <1>8, GotoFits DEF Permit, Goto, request, InviteSteps
  <2> QED
    BY <2>1, <2>2
<1>9. CASE EndVisit(q)
  BY <1>9, EndType, EndFits DEF TypeOK, EndVisit, tables
<1> QED
  BY <1>1, <1>2, <1>3, <1>4, <1>5, <1>6, <1>7, <1>8, <1>9 DEF Bootstrap

LEMMA InvitingType ==
    ASSUME TypeOK, StepsFitOperation, NEW q \in Requests, Inviting(q)
    PROVE  TypeOK' /\ StepsFitOperation'
<1>0. op[q].kind = "invite" => op[q].email \in Subjects /\ op[q].role \in Roles
  BY OperationOf
<1>1. CASE Invite(q) \/ InviteLookup(q)
  <2>1. PICK to \in {"profiling", "inserting", "insertingUnknown"} :
            at' = [at EXCEPT ![q] = to] /\ op[q].kind = "invite"
    BY <1>1 DEF Invite, InviteLookup, Goto, StepsFitOperation, InviteSteps
  <2>2. UNCHANGED <<tables, request, found, row>>
    BY <1>1 DEF Invite, InviteLookup
  <2>3. TypeOK'
    BY <2>1, <2>2 DEF TypeOK, tables, request, Steps
  <2>4. StepsFitOperation'
    BY <2>1, <2>2, GotoFits DEF request
  <2> QED
    BY <2>3, <2>4
<1>2. CASE InviteAgain(q) \/ InviteMember(q) \/ InviteEnd(q)
  BY <1>2, EndType, EndFits DEF TypeOK, InviteAgain, InviteMember, InviteEnd, tables
<1>3. CASE InviteUnknown(q)
  <2>1. op[q].kind = "invite"
    BY <1>3 DEF InviteUnknown, End, Goto, StepsFitOperation, InviteSteps
  <2> QED
    BY <1>0, <1>3, <2>1, EndType, EndFits, InsertType DEF TypeOK, InviteUnknown
<1>4. CASE InviteKnown(q)
  <2>1. op[q].kind = "invite"
    BY <1>4 DEF InviteKnown, Goto, StepsFitOperation, InviteSteps
  <2>2. TypeOK'
    BY <1>0, <1>4, <2>1, GotoType, InsertType DEF TypeOK, InviteKnown, request, Steps
  <2>3. StepsFitOperation'
    BY <1>4, <2>1, GotoFits DEF InviteKnown, Goto, request
  <2> QED
    BY <2>2, <2>3
<1>5. CASE InviteFindPending(q)
  <2>1. op[q].kind = "invite"
    BY <1>5 DEF InviteFindPending, FindPending, StepsFitOperation, InviteSteps
  <2>2. TypeOK'
    BY <1>5, FindPendingType DEF InviteFindPending, Steps
  <2>3. StepsFitOperation'
    BY <1>5, <2>1, GotoFits DEF InviteFindPending, FindPending, request
  <2> QED
    BY <2>2, <2>3
<1>6. CASE InviteReadMember(q)
  <2>1. op[q].kind = "invite"
    BY <1>6 DEF InviteReadMember, ReadMember, Goto, StepsFitOperation, InviteSteps
  <2>2. TypeOK'
    BY <1>0, <1>6, <2>1, ReadMemberType DEF InviteReadMember, Steps
  <2>3. StepsFitOperation'
    BY <1>6, <2>1, GotoFits DEF InviteReadMember, ReadMember, Goto, request
  <2> QED
    BY <2>2, <2>3
<1>7. CASE InviteAccept(q)
  <2>1. op[q].kind = "invite"
    BY <1>7 DEF InviteAccept, Accept, Goto, StepsFitOperation, InviteSteps
  <2>2. TypeOK'
    BY <1>0, <1>7, <2>1, AcceptType DEF InviteAccept, Steps
  <2>3. StepsFitOperation'
    BY <1>7, <2>1, GotoFits DEF InviteAccept, Accept, Goto, request
  <2> QED
    BY <2>2, <2>3
<1>8. CASE InviteConflict(q)
  BY <1>8, ConflictType, EndFits DEF InviteConflict, AcceptConflict
<1> QED
  BY <1>1, <1>2, <1>3, <1>4, <1>5, <1>6, <1>7, <1>8 DEF Inviting

LEMMA RevokeType ==
    ASSUME TypeOK, StepsFitOperation, NEW q \in Requests, Revoke(q)
    PROVE  TypeOK' /\ StepsFitOperation'
<1>1. op[q].id \in Invitations
  BY OperationOf DEF Revoke
<1>2. Settled(op[q].id, "revoked") \in InvitationRow
  BY <1>1, SettledType DEF Outcomes
<1>3. invitation' \in [Invitations -> InvitationRow]
  BY <1>1, <1>2 DEF TypeOK, Revoke
<1> QED
  BY <1>3, EndType, EndFits DEF TypeOK, Revoke

LEMMA ChangingType ==
    ASSUME TypeOK, StepsFitOperation, NEW q \in Requests, Changing(q)
    PROVE  TypeOK' /\ StepsFitOperation'
<1>0. op[q].kind = "change" =>
          /\ op[q].target \in Subjects
          /\ op[q].role \in Roles \union {"same"}
          /\ op[q].status \in {"active", "disabled", "removed", "same"}
  BY OperationOf
<1>1. CASE ChangeRead(q)
  <2>1. op[q].kind = "change"
    BY <1>1 DEF ChangeRead
  <2>2. TypeOK'
    BY <1>0, <1>1, <2>1, ReadMemberType DEF ChangeRead, Steps
  <2>3. StepsFitOperation'
    BY <1>1, <2>1, GotoFits DEF ChangeRead, ReadMember, Goto, request, InviteSteps
  <2> QED
    BY <2>2, <2>3
<1>2. CASE ChangeNobody(q) \/ ChangeRefused(q)
  BY <1>2, EndType, EndFits DEF TypeOK, ChangeNobody, ChangeRefused, tables
<1>3. CASE ChangeCounted(q)
  <2>1. op[q].kind = "change"
    BY <1>3 DEF ChangeCounted, Goto, StepsFitOperation
  <2>2. TypeOK'
    BY <1>3, GotoType DEF TypeOK, ChangeCounted, Steps, tables, request
  <2>3. StepsFitOperation'
    BY <1>3, <2>1, GotoFits DEF ChangeCounted, Goto, request, InviteSteps
  <2> QED
    BY <2>2, <2>3
<1>4. CASE ChangeWrite(q)
  <2>1. op[q].kind = "change"
    BY <1>4 DEF ChangeWrite, End, Goto, StepsFitOperation
  <2>2. Changed(q) \in MemberRow
    BY <1>0, <2>1 DEF TypeOK, Changed, Row, MemberRow, Statuses
  <2>3. member' \in [Subjects -> MemberRow]
    BY <1>0, <1>4, <2>1, <2>2 DEF TypeOK, ChangeWrite
  <2> QED
    BY <1>4, <2>3, EndType, EndFits DEF TypeOK, ChangeWrite
<1> QED
  BY <1>1, <1>2, <1>3, <1>4 DEF Changing

(* Every table and every request keeps its type, and a request does only   *)
(* the steps of the operation it asked for.                                *)
THEOREM TypeCorrect == Spec => [](TypeOK /\ StepsFitOperation)
<1>1. Init => TypeOK /\ StepsFitOperation
  <2> SUFFICES ASSUME Init PROVE TypeOK /\ StepsFitOperation
    OBVIOUS
  <2>1. NoRow \in MemberRow /\ Row("account_owner", "active") \in MemberRow
    BY DEF NoRow, Row, MemberRow, Roles, Statuses
  <2>2. TypeOK
    BY <2>1 DEF Init, TypeOK, Steps, InvitationRow, Roles
  <2>3. StepsFitOperation
    BY DEF Init, StepsFitOperation, InviteSteps
  <2> QED
    BY <2>2, <2>3
<1>2. TypeOK /\ StepsFitOperation /\ [Next]_vars => (TypeOK /\ StepsFitOperation)'
  <2> SUFFICES ASSUME TypeOK, StepsFitOperation, [Next]_vars
               PROVE  TypeOK' /\ StepsFitOperation'
    OBVIOUS
  <2>1. CASE UNCHANGED vars
    BY <2>1 DEF vars, TypeOK, StepsFitOperation
  <2>2. ASSUME NEW q \in Requests, Bootstrap(q) \/ Inviting(q) \/ Revoke(q) \/ Changing(q)
        PROVE  TypeOK' /\ StepsFitOperation'
    BY <2>2, BootstrapType, InvitingType, RevokeType, ChangingType
  <2> QED
    BY <2>1, <2>2 DEF Next
<1> QED
  BY <1>1, <1>2, PTL DEF Spec

-----------------------------------------------------------------------------
(* Membership without an invitation.                                       *)

\* What a request that accepts or changes has read is about whom it acts on.
FoundAre(q, s) == \A i \in found[q] : invitation[i].status # "none" /\ invitation[i].email = s
WorkFits(q) ==
    /\ at[q] \in {"joining", "accepting"} => FoundAre(q, who[q])
    /\ at[q] \in {"inviteJoining", "inviteAccepting"} => FoundAre(q, op[q].email)
    /\ at[q] \in {"changing", "writing"} =>
          row[q].status # "none" /\ member[op[q].target].status # "none"

\* What no step does: a member row, an invitation's address or an acceptance
\* never goes away, and a new member has just accepted an invitation.
Keeps ==
    /\ \A s \in Subjects : member[s].status # "none" => member'[s].status # "none"
    /\ \A i \in Invitations : invitation[i].status # "none" =>
          /\ invitation'[i].status # "none"
          /\ invitation'[i].email = invitation[i].email
          /\ invitation[i].status = "accepted" => invitation'[i].status = "accepted"
    /\ \A s \in Subjects : member[s].status = "none" /\ member'[s].status # "none" =>
          \E i \in Invitations : invitation'[i].email = s /\ invitation'[i].status = "accepted"

LEMMA AcceptKeeps ==
    ASSUME TypeOK, NEW q \in Requests, NEW s \in Subjects, FoundAre(q, s), NEW from, NEW after,
           Accept(q, s, from, after)
    PROVE  Keeps
<1>1. PICK i \in found[q] : member' = [member EXCEPT ![s] = Accepted(q, i)]
  BY DEF Accept
<1>2. \A t \in Subjects : member'[t].status # "none" => member[t].status # "none" \/ t = s
  BY <1>1 DEF TypeOK
<1>3. \A t \in Subjects : member[t].status # "none" => member'[t].status # "none"
  BY <1>1 DEF TypeOK, Accepted, Row
<1>4. \A j \in Invitations :
          /\ invitation'[j].email = invitation[j].email
          /\ j \in found[q] => invitation'[j].status = "accepted"
          /\ j \notin found[q] => invitation'[j] = invitation[j]
  <2>1. \A j \in Invitations : invitation[j] \in InvitationRow
    BY DEF TypeOK
  <2>2. \A j \in Invitations :
            invitation'[j] = IF j \in found[q] THEN Settled(j, "accepted") ELSE invitation[j]
    BY DEF Accept
  <2>3. \A j \in Invitations : /\ Settled(j, "accepted").email = invitation[j].email
                               /\ Settled(j, "accepted").status = "accepted"
    BY <2>1 DEF Settled, InvitationRow
  <2> QED
    BY <2>2, <2>3
<1>5. i \in Invitations /\ invitation'[i].email = s /\ invitation'[i].status = "accepted"
  BY <1>4 DEF FoundAre, TypeOK
<1> QED
  BY <1>2, <1>3, <1>4, <1>5 DEF Keeps

LEMMA InsertKeeps ==
    ASSUME TypeOK, NEW q \in Requests, Insert(q)
    PROVE  Keeps
  BY DEF TypeOK, Insert, Keeps

LEMMA RevokeKeeps ==
    ASSUME TypeOK, NEW q \in Requests, Revoke(q)
    PROVE  Keeps
<1>1. op[q].id \in Invitations
  BY OperationOf DEF Revoke
<1>2. invitation[op[q].id] \in InvitationRow
  BY <1>1 DEF TypeOK
<1>3. /\ Settled(op[q].id, "revoked").email = invitation[op[q].id].email
      /\ Settled(op[q].id, "revoked").status = "revoked"
  BY <1>2 DEF Settled, InvitationRow
<1> QED
  BY <1>1, <1>3 DEF TypeOK, Revoke, Keeps

LEMMA WriteKeeps ==
    ASSUME TypeOK, StepsFitOperation, NEW q \in Requests, WorkFits(q), ChangeWrite(q)
    PROVE  Keeps
<1>1. op[q].kind = "change" /\ at[q] = "writing"
  BY DEF ChangeWrite, End, Goto, StepsFitOperation
<1>2. Changed(q).status # "none"
  BY <1>1, OperationOf DEF WorkFits, Changed, Row
<1>3. member[op[q].target].status # "none"
  BY <1>1 DEF WorkFits
<1> QED
  BY <1>2, <1>3 DEF TypeOK, ChangeWrite, Keeps

\* One step of request q: it keeps what is to be kept, and leaves the other
\* requests alone.
LEMMA StepKeeps ==
    ASSUME TypeOK, StepsFitOperation, NEW q \in Requests, WorkFits(q),
           Bootstrap(q) \/ Inviting(q) \/ Revoke(q) \/ Changing(q)
    PROVE  Keeps
<1>0. CASE UNCHANGED <<member, invitation>>
  BY <1>0 DEF Keeps
<1>1. CASE BootAccept(q)
  BY <1>1, AcceptKeeps, OperationOf DEF BootAccept, Accept, Goto, WorkFits
<1>2. CASE InviteAccept(q)
  BY <1>2, AcceptKeeps, OperationOf
  DEF InviteAccept, Accept, Goto, WorkFits, StepsFitOperation, InviteSteps
<1>3. CASE InviteUnknown(q) \/ InviteKnown(q)
  BY <1>3, InsertKeeps DEF InviteUnknown, InviteKnown
<1>4. CASE Revoke(q)
  BY <1>4, RevokeKeeps
<1>5. CASE ChangeWrite(q)
  BY <1>5, WriteKeeps
<1>6. CASE Bootstrap(q) /\ ~BootAccept(q)
  <2>1. UNCHANGED <<member, invitation>>
    BY <1>6 DEF Bootstrap, Arrive, BootFindPending, FindPending, BootReadMember, ReadMember,
       BootConflict, AcceptConflict, ListAccounts, CreateAccount, Permit, EndVisit, tables
  <2> QED
    BY <1>0, <2>1
<1>7. CASE Inviting(q) /\ ~(InviteAccept(q) \/ InviteUnknown(q) \/ InviteKnown(q))
  <2>1. UNCHANGED <<member, invitation>>
    BY <1>7 DEF Inviting, Invite, InviteAgain, InviteLookup, InviteMember, InviteFindPending,
       FindPending, InviteReadMember, ReadMember, InviteConflict, AcceptConflict, InviteEnd, tables
  <2> QED
    BY <1>0, <2>1
<1>8. CASE Changing(q) /\ ~ChangeWrite(q)
  <2>1. UNCHANGED <<member, invitation>>
    BY <1>8 DEF Changing, ChangeRead, ReadMember, ChangeNobody, ChangeRefused, ChangeCounted, tables
  <2> QED
    BY <1>0, <2>1
<1> QED
  BY <1>1, <1>2, <1>3, <1>4, <1>5, <1>6, <1>7, <1>8

LEMMA OthersWait ==
    ASSUME TypeOK, NEW q \in Requests, NEW p \in Requests, p # q,
           Bootstrap(q) \/ Inviting(q) \/ Revoke(q) \/ Changing(q)
    PROVE  /\ at'[p] = at[p] /\ who'[p] = who[p] /\ op'[p] = op[p]
           /\ found'[p] = found[p] /\ row'[p] = row[p]
<1> USE DEF TypeOK, Goto, End, request, tables
<1>1. CASE Bootstrap(q)
  BY <1>1 DEF Bootstrap, Arrive, BootFindPending, FindPending, BootReadMember, ReadMember,
     BootAccept, Accept, BootConflict, AcceptConflict, ListAccounts, CreateAccount, Permit, EndVisit
<1>2. CASE Inviting(q)
  BY <1>2 DEF Inviting, Invite, InviteAgain, InviteLookup, InviteMember, InviteUnknown, InviteKnown,
     InviteFindPending, FindPending, InviteReadMember, ReadMember, InviteAccept, Accept,
     InviteConflict, AcceptConflict, InviteEnd
<1>3. CASE Revoke(q)
  BY <1>3 DEF Revoke
<1>4. CASE Changing(q)
  BY <1>4 DEF Changing, ChangeRead, ReadMember, ChangeNobody, ChangeRefused, ChangeCounted, ChangeWrite
<1> QED
  BY <1>1, <1>2, <1>3, <1>4

LEMMA OthersFit ==
    ASSUME TypeOK, StepsFitOperation, NEW q \in Requests, NEW p \in Requests, p # q,
           WorkFits(p), Keeps,
           Bootstrap(q) \/ Inviting(q) \/ Revoke(q) \/ Changing(q)
    PROVE  WorkFits(p)'
<1>1. /\ at'[p] = at[p] /\ who'[p] = who[p] /\ op'[p] = op[p]
      /\ found'[p] = found[p] /\ row'[p] = row[p]
  BY OthersWait
<1>2. found[p] \subseteq Invitations
  BY DEF TypeOK
<1>3. \A i \in found[p] : invitation[i].status # "none" =>
          invitation'[i].status # "none" /\ invitation'[i].email = invitation[i].email
  BY <1>2 DEF Keeps
<1>4. at[p] \in {"changing", "writing"} => op[p].target \in Subjects
  BY OperationOf DEF StepsFitOperation
<1>5. ASSUME at'[p] \in {"joining", "accepting"}
      PROVE  \A i \in found'[p] : invitation'[i].status # "none" /\ invitation'[i].email = who'[p]
  BY <1>1, <1>3, <1>5 DEF WorkFits, FoundAre
<1>6. ASSUME at'[p] \in {"inviteJoining", "inviteAccepting"}
      PROVE  \A i \in found'[p] : invitation'[i].status # "none" /\ invitation'[i].email = op'[p].email
  BY <1>1, <1>3, <1>6 DEF WorkFits, FoundAre
<1>7. ASSUME at'[p] \in {"changing", "writing"}
      PROVE  row'[p].status # "none" /\ member'[op'[p].target].status # "none"
  BY <1>1, <1>4, <1>7 DEF WorkFits, Keeps
<1> QED
  BY <1>5, <1>6, <1>7 DEF WorkFits, FoundAre

LEMMA OwnFits ==
    ASSUME TypeOK, StepsFitOperation, NEW q \in Requests, WorkFits(q),
           Bootstrap(q) \/ Inviting(q) \/ Revoke(q) \/ Changing(q)
    PROVE  WorkFits(q)'
<1> DEFINE Watched == {"joining", "accepting", "inviteJoining", "inviteAccepting",
                       "changing", "writing"}
<1>0. CASE at'[q] \notin Watched
  BY <1>0 DEF WorkFits
<1>1. CASE BootFindPending(q)
  <2>1. at'[q] \in {"joining", "listing"} /\ found'[q] = Pending(who[q])
    BY <1>1 DEF BootFindPending, FindPending, TypeOK
  <2> QED
    BY <1>1, <2>1 DEF BootFindPending, FindPending, Pending, WorkFits, FoundAre, tables, request
<1>2. CASE BootReadMember(q)
  <2>1. at[q] = "joining" /\ at'[q] = "accepting"
    BY <1>2 DEF BootReadMember, ReadMember, Goto, TypeOK
  <2> QED
    BY <1>2, <2>1 DEF BootReadMember, ReadMember, WorkFits, FoundAre, tables, request
<1>3. CASE InviteFindPending(q)
  <2>1. at'[q] \in {"inviteJoining", "inviteDone"} /\ found'[q] = Pending(op[q].email)
    BY <1>3 DEF InviteFindPending, FindPending, TypeOK
  <2> QED
    BY <1>3, <2>1 DEF InviteFindPending, FindPending, Pending, WorkFits, FoundAre, tables, request
<1>4. CASE InviteReadMember(q)
  <2>1. at[q] = "inviteJoining" /\ at'[q] = "inviteAccepting"
    BY <1>4 DEF InviteReadMember, ReadMember, Goto, TypeOK
  <2> QED
    BY <1>4, <2>1 DEF InviteReadMember, ReadMember, WorkFits, FoundAre, tables, request
<1>5. CASE ChangeRead(q)
  <2>1. at'[q] = "changing" /\ row'[q] = member[op[q].target] /\ member[op[q].target].status # "none"
    BY <1>5 DEF ChangeRead, ReadMember, Goto, TypeOK
  <2> QED
    BY <1>5, <2>1 DEF ChangeRead, ReadMember, WorkFits, FoundAre, tables, request
<1>6. CASE ChangeCounted(q)
  <2>1. at[q] = "changing" /\ at'[q] = "writing"
    BY <1>6 DEF ChangeCounted, Goto, TypeOK
  <2> QED
    BY <1>6, <2>1 DEF ChangeCounted, WorkFits, FoundAre, tables, request
<1>7. CASE Bootstrap(q) /\ ~BootFindPending(q) /\ ~BootReadMember(q)
  <2>1. at'[q] \notin Watched
    BY <1>7 DEF TypeOK, Goto, End, Bootstrap, Arrive, BootAccept, Accept, BootConflict, AcceptConflict,
       ListAccounts, CreateAccount, Permit, EndVisit
  <2> QED
    BY <1>0, <2>1
<1>8. CASE Inviting(q) /\ ~InviteFindPending(q) /\ ~InviteReadMember(q)
  <2>1. at'[q] \notin Watched
    BY <1>8 DEF TypeOK, Goto, End, Inviting, Invite, InviteAgain, InviteLookup, InviteMember,
       InviteUnknown, InviteKnown, InviteAccept, Accept, InviteConflict, AcceptConflict, InviteEnd
  <2> QED
    BY <1>0, <2>1
<1>9. CASE Revoke(q)
  BY <1>0, <1>9 DEF Revoke, End, Goto, TypeOK
<1>10. CASE Changing(q) /\ ~ChangeRead(q) /\ ~ChangeCounted(q)
  BY <1>0, <1>10 DEF Changing, ChangeNobody, ChangeRefused, ChangeWrite, End, Goto, TypeOK
<1> QED
  BY <1>1, <1>2, <1>3, <1>4, <1>5, <1>6, <1>7, <1>8, <1>9, <1>10

(* In every interleaving of any number of requests, whoever has a member   *)
(* row founded the workspace or has accepted an invitation to it.          *)
THEOREM MembersWereInvitedHolds == Spec => []MembersWereInvited
<1> DEFINE Inv == MembersWereInvited /\ \A q \in Requests : WorkFits(q)
<1>1. Init => Inv
  BY DEF Init, MembersWereInvited, WorkFits, NoRow, Row
<1>2. TypeOK /\ StepsFitOperation /\ Inv /\ [Next]_vars => Inv'
  <2> SUFFICES ASSUME TypeOK, StepsFitOperation, Inv, [Next]_vars
               PROVE  Inv'
    OBVIOUS
  <2>1. CASE UNCHANGED vars
    BY <2>1 DEF vars, MembersWereInvited, WorkFits, FoundAre
  <2>2. ASSUME NEW q \in Requests, Bootstrap(q) \/ Inviting(q) \/ Revoke(q) \/ Changing(q)
        PROVE  Inv'
    <3>1. Keeps
      BY <2>2, StepKeeps
    <3>2. \A p \in Requests : WorkFits(p)'
      BY <2>2, <3>1, OwnFits, OthersFit
    <3>3. MembersWereInvited'
      <4> SUFFICES ASSUME NEW s \in Subjects, member'[s].status # "none", s # Founder
                   PROVE  \E i \in Invitations :
                             invitation'[i].email = s /\ invitation'[i].status = "accepted"
        BY DEF MembersWereInvited
      <4> QED
        BY <3>1 DEF Keeps, MembersWereInvited
    <3> QED
      BY <3>2, <3>3
  <2> QED
    BY <2>1, <2>2 DEF Next
<1>3. Spec => []Inv
  BY <1>1, <1>2, TypeCorrect, PTL DEF Spec
<1> QED
  BY <1>3, PTL

-----------------------------------------------------------------------------
(* The last owner, when requests come one at a time.                       *)

\* With no other request open, what a request has read is still so, and an
\* owner it is about to take away is not the last.
ReadIsCurrent(q) ==
    /\ at[q] = "accepting" => row[q] = member[who[q]]
    /\ at[q] = "inviteAccepting" => row[q] = member[op[q].email]
    /\ at[q] \in {"changing", "writing"} => row[q] = member[op[q].target]
    /\ at[q] = "writing" => ~(LeavesOwners(q) /\ OneOwnerLeft)

LEMMA AcceptKeepsOwner ==
    ASSUME TypeOK, HasOwner, NEW q \in Requests, NEW s \in Subjects, row[q] = member[s],
           NEW from, NEW after, Accept(q, s, from, after)
    PROVE  HasOwner'
<1>1. PICK i \in found[q] : member' = [member EXCEPT ![s] = Accepted(q, i)]
  BY DEF Accept
<1>2. PICK t \in Subjects : IsOwner(t)
  BY DEF HasOwner
<1>3. member'[t].role = "account_owner" /\ member'[t].status = "active"
  <2>1. CASE t = s
    BY <1>1, <1>2, <2>1 DEF TypeOK, Accepted, Row, IsOwner, Active
  <2>2. CASE t # s
    BY <1>1, <1>2, <2>2 DEF TypeOK, IsOwner, Active
  <2> QED
    BY <2>1, <2>2
<1> QED
  BY <1>3 DEF HasOwner, IsOwner, Active

LEMMA WriteKeepsOwner ==
    ASSUME TypeOK, StepsFitOperation, HasOwner, NEW q \in Requests, ReadIsCurrent(q), ChangeWrite(q)
    PROVE  HasOwner'
<1> DEFINE x == op[q].target
<1>1. /\ x \in Subjects /\ row[q] = member[x]
      /\ ~(LeavesOwners(q) /\ OneOwnerLeft)
      /\ member' = [member EXCEPT ![x] = Changed(q)]
  BY OperationOf DEF ChangeWrite, End, Goto, StepsFitOperation, ReadIsCurrent
<1>2. \A t \in Subjects : t # x /\ IsOwner(t) => IsOwner(t)'
  BY <1>1 DEF TypeOK, IsOwner, Active
<1>3. CASE LeavesOwners(q)
  <2>1. PICK t, u \in Subjects : IsOwner(t) /\ IsOwner(u) /\ t # u
    BY <1>1, <1>3 DEF OneOwnerLeft
  <2> QED
    BY <1>2, <2>1 DEF HasOwner
<1>4. CASE ~LeavesOwners(q)
  <2>1. PICK t \in Subjects : IsOwner(t)
    BY DEF HasOwner
  <2>2. CASE t # x
    BY <1>2, <2>1, <2>2 DEF HasOwner
  <2>3. CASE t = x
    <3>1. member'[x] = Row("account_owner", "active")
      BY <1>1, <1>4, <2>1, <2>3 DEF LeavesOwners, IsOwner, TypeOK
    <3> QED
      BY <1>1, <3>1 DEF HasOwner, IsOwner, Active, Row
  <2> QED
    BY <2>2, <2>3
<1> QED
  BY <1>3, <1>4

LEMMA OwnReadStaysCurrent ==
    ASSUME TypeOK, StepsFitOperation, NEW q \in Requests, ReadIsCurrent(q),
           Bootstrap(q) \/ Inviting(q) \/ Revoke(q) \/ Changing(q)
    PROVE  ReadIsCurrent(q)'
<1> DEFINE Watched == {"accepting", "inviteAccepting", "changing", "writing"}
<1>0. CASE at'[q] \notin Watched
  BY <1>0 DEF ReadIsCurrent
<1>1. CASE BootReadMember(q)
  <2>1. at'[q] = "accepting" /\ row'[q] = member[who[q]]
    BY <1>1 DEF BootReadMember, ReadMember, Goto, TypeOK
  <2> QED
    BY <1>1, <2>1 DEF BootReadMember, ReadMember, ReadIsCurrent, tables, request
<1>2. CASE InviteReadMember(q)
  <2>1. at'[q] = "inviteAccepting" /\ row'[q] = member[op[q].email]
    BY <1>2 DEF InviteReadMember, ReadMember, Goto, TypeOK
  <2> QED
    BY <1>2, <2>1 DEF InviteReadMember, ReadMember, ReadIsCurrent, tables, request
<1>3. CASE ChangeRead(q)
  <2>1. at'[q] = "changing" /\ row'[q] = member[op[q].target]
    BY <1>3 DEF ChangeRead, ReadMember, Goto, TypeOK
  <2> QED
    BY <1>3, <2>1 DEF ChangeRead, ReadMember, ReadIsCurrent, tables, request
<1>4. CASE ChangeCounted(q)
  <2>1. at[q] = "changing" /\ at'[q] = "writing" /\ ~(LeavesOwners(q) /\ OneOwnerLeft)
    BY <1>4 DEF ChangeCounted, Goto, TypeOK
  <2>2. UNCHANGED <<member, op, row>>
    BY <1>4 DEF ChangeCounted, tables, request
  <2>3. ~(LeavesOwners(q) /\ OneOwnerLeft)'
    BY <2>1, <2>2 DEF LeavesOwners, OneOwnerLeft, Changed, IsOwner, Active
  <2> QED
    BY <2>1, <2>2, <2>3 DEF ReadIsCurrent
<1>5. CASE Bootstrap(q) /\ ~BootReadMember(q)
  <2>1. at'[q] \notin Watched
    BY <1>5 DEF TypeOK, Goto, End, Bootstrap, Arrive, BootFindPending, FindPending, BootAccept, Accept,
       BootConflict, AcceptConflict, ListAccounts, CreateAccount, Permit, EndVisit
  <2> QED
    BY <1>0, <2>1
<1>6. CASE Inviting(q) /\ ~InviteReadMember(q)
  <2>1. at'[q] \notin Watched
    BY <1>6 DEF TypeOK, Goto, End, Inviting, Invite, InviteAgain, InviteLookup, InviteMember,
       InviteUnknown, InviteKnown, InviteFindPending, FindPending, InviteAccept, Accept,
       InviteConflict, AcceptConflict, InviteEnd
  <2> QED
    BY <1>0, <2>1
<1>7. CASE Revoke(q)
  BY <1>0, <1>7 DEF Revoke, End, Goto, TypeOK
<1>8. CASE Changing(q) /\ ~ChangeRead(q) /\ ~ChangeCounted(q)
  BY <1>0, <1>8 DEF Changing, ChangeNobody, ChangeRefused, ChangeWrite, End, Goto, TypeOK
<1> QED
  BY <1>1, <1>2, <1>3, <1>4, <1>5, <1>6, <1>7, <1>8

LEMMA StepKeepsOwner ==
    ASSUME TypeOK, StepsFitOperation, HasOwner, NEW q \in Requests, ReadIsCurrent(q),
           Bootstrap(q) \/ Inviting(q) \/ Revoke(q) \/ Changing(q)
    PROVE  HasOwner'
<1>1. ASSUME member' = member PROVE HasOwner'
  BY <1>1 DEF HasOwner, IsOwner, Active
<1>2. ASSUME BootAccept(q) PROVE HasOwner'
  BY <1>2, AcceptKeepsOwner, OperationOf DEF BootAccept, Accept, Goto, ReadIsCurrent
<1>3. ASSUME InviteAccept(q) PROVE HasOwner'
  BY <1>3, AcceptKeepsOwner, OperationOf
  DEF InviteAccept, Accept, Goto, ReadIsCurrent, StepsFitOperation, InviteSteps
<1>4. ASSUME ChangeWrite(q) PROVE HasOwner'
  BY <1>4, WriteKeepsOwner
<1>5. ASSUME Bootstrap(q) /\ ~BootAccept(q) PROVE HasOwner'
  <2>1. member' = member
    BY <1>5 DEF Bootstrap, Arrive, BootFindPending, FindPending, BootReadMember, ReadMember,
       BootConflict, AcceptConflict, ListAccounts, CreateAccount, Permit, EndVisit, tables
  <2> QED
    BY <1>1, <2>1
<1>6. ASSUME Inviting(q) /\ ~InviteAccept(q) PROVE HasOwner'
  <2>1. member' = member
    BY <1>6 DEF Inviting, Invite, InviteAgain, InviteLookup, InviteMember, InviteUnknown,
       InviteKnown, Insert, InviteFindPending, FindPending, InviteReadMember, ReadMember,
       InviteConflict, AcceptConflict, InviteEnd, tables
  <2> QED
    BY <1>1, <2>1
<1>7. ASSUME Revoke(q) PROVE HasOwner'
  BY <1>1, <1>7 DEF Revoke
<1>8. ASSUME Changing(q) /\ ~ChangeWrite(q) PROVE HasOwner'
  <2>1. member' = member
    BY <1>8 DEF Changing, ChangeRead, ReadMember, ChangeNobody, ChangeRefused, ChangeCounted, tables
  <2> QED
    BY <1>1, <2>1
<1> QED
  BY <1>2, <1>3, <1>4, <1>5, <1>6, <1>7, <1>8

\* With one request at a time the others are idle, before the step and after.
LEMMA OthersIdle ==
    ASSUME TypeOK, OneAtATime, OneAtATime', NEW q \in Requests, NEW p \in Requests, p # q,
           Bootstrap(q) \/ Inviting(q) \/ Revoke(q) \/ Changing(q)
    PROVE  at[p] = "idle" /\ at'[p] = "idle"
<1>1. at'[p] = at[p]
  BY OthersWait
<1>2. at[q] # "idle" \/ at'[q] # "idle"
  BY DEF TypeOK, Goto, End, Bootstrap, Arrive, BootFindPending, FindPending, BootReadMember,
     ReadMember, BootAccept, Accept, BootConflict, AcceptConflict, ListAccounts, CreateAccount,
     Permit, EndVisit, Inviting, Invite, InviteAgain, InviteLookup, InviteMember, InviteUnknown,
     InviteKnown, InviteFindPending, InviteReadMember, InviteAccept, InviteConflict, InviteEnd,
     Revoke, Changing, ChangeRead, ChangeNobody, ChangeRefused, ChangeCounted, ChangeWrite
<1> QED
  BY <1>1, <1>2 DEF OneAtATime

\* Traffic of either kind is made of the steps of Workspace.
THEOREM TrafficImplementsWorkspace == TrafficSpec => Spec
<1>1. TrafficInit => Init
  BY DEF TrafficInit
<1>2. [TrafficNext]_<<vars, serial>> => [Next]_vars
  BY DEF TrafficNext
<1> QED
  BY <1>1, <1>2, PTL DEF TrafficSpec, Spec

LEMMA TrafficTypes == TrafficSpec => [](TypeOK /\ StepsFitOperation)
  BY TypeCorrect, TrafficImplementsWorkspace, PTL

LEMMA OneAtATimeStays == TrafficSpec => [](serial => OneAtATime)
<1>1. TrafficInit => (serial => OneAtATime)
  BY DEF TrafficInit, Init, OneAtATime
<1>2. (serial => OneAtATime) /\ [TrafficNext]_<<vars, serial>> => (serial => OneAtATime)'
  BY DEF TrafficNext, OneAtATime, vars
<1> QED
  BY <1>1, <1>2, PTL DEF TrafficSpec

(* With one request at a time the workspace always has an active owner,    *)
(* whatever sequence of sign-ins, invitations and member changes there is. *)
(* With two open requests it may lose its last owner.                      *)
THEOREM SerialKeepsOwner == TrafficSpec => []SerialHasOwner
<1> DEFINE Inv == serial => HasOwner /\ \A q \in Requests : ReadIsCurrent(q)
<1>1. TrafficInit => Inv
  <2> SUFFICES ASSUME TrafficInit PROVE Inv
    OBVIOUS
  <2>1. IsOwner(Founder)
    BY DEF TrafficInit, Init, IsOwner, Active, Row
  <2> QED
    BY <2>1 DEF TrafficInit, Init, HasOwner, ReadIsCurrent
<1>2. TypeOK /\ StepsFitOperation /\ (serial => OneAtATime) /\ (serial => OneAtATime)' /\ Inv
        /\ [TrafficNext]_<<vars, serial>> => Inv'
  <2> SUFFICES ASSUME TypeOK, StepsFitOperation, OneAtATime, OneAtATime', serial, Inv,
                      [TrafficNext]_<<vars, serial>>
               PROVE  HasOwner' /\ \A q \in Requests : ReadIsCurrent(q)'
    BY DEF TrafficNext
  <2>1. CASE UNCHANGED vars
    BY <2>1 DEF vars, HasOwner, IsOwner, Active, ReadIsCurrent, LeavesOwners, OneOwnerLeft, Changed
  <2>2. ASSUME NEW q \in Requests, Bootstrap(q) \/ Inviting(q) \/ Revoke(q) \/ Changing(q)
        PROVE  HasOwner' /\ \A p \in Requests : ReadIsCurrent(p)'
    <3>1. ASSUME NEW p \in Requests PROVE ReadIsCurrent(p)'
      <4>1. CASE p = q
        BY <2>2, <4>1, OwnReadStaysCurrent
      <4>2. CASE p # q
        BY <2>2, <4>2, OthersIdle DEF ReadIsCurrent
      <4> QED
        BY <4>1, <4>2
    <3>2. HasOwner'
      BY <2>2, StepKeepsOwner
    <3> QED
      BY <3>1, <3>2
  <2> QED
    BY <2>1, <2>2 DEF TrafficNext, Next
<1>3. TrafficSpec => []Inv
  BY <1>1, <1>2, TrafficTypes, OneAtATimeStays, PTL DEF TrafficSpec
<1>4. Inv => SerialHasOwner
  BY DEF SerialHasOwner
<1> QED
  BY <1>3, <1>4, PTL

-----------------------------------------------------------------------------
(* Invitations, when requests come one at a time.                          *)

\* With no other request open, the invitations a request has found are still
\* pending, and the address it is about to invite still has none.
FoundStillPending(q) ==
    /\ at[q] \in {"joining", "accepting"} => found[q] \subseteq Pending(who[q])
    /\ at[q] \in {"inviteJoining", "inviteAccepting"} => found[q] \subseteq Pending(op[q].email)
    /\ at[q] \in {"profiling", "inserting", "insertingUnknown"} => Pending(op[q].email) = {}

\* What a step may do to one invitation without settling it twice.
SettlesOnce(i) ==
    \/ invitation'[i] = invitation[i]
    \/ /\ invitation[i].status = "pending"
       /\ \E outcome \in Outcomes : invitation'[i] = Settled(i, outcome)

LEMMA SettledKeepsInvitations ==
    ASSUME TypeOK, InvitationsSettleOnce, \A i \in Invitations : SettlesOnce(i)
    PROVE  InvitationsSettleOnce'
<1>1. ASSUME NEW i \in Invitations
      PROVE  /\ invitation'[i].stamps = {invitation'[i].status} \intersect Outcomes
             /\ invitation'[i].status = "pending" =>
                  invitation[i].status = "pending" /\ invitation'[i].email = invitation[i].email
  <2>1. invitation[i].stamps = {invitation[i].status} \intersect Outcomes
    BY DEF InvitationsSettleOnce
  <2>2. CASE invitation'[i] = invitation[i]
    BY <2>1, <2>2
  <2>3. ASSUME invitation[i].status = "pending", NEW outcome \in Outcomes,
               invitation'[i] = Settled(i, outcome)
        PROVE  /\ invitation'[i].stamps = {invitation'[i].status} \intersect Outcomes
               /\ invitation'[i].status # "pending"
    <3>1. invitation[i].stamps = {}
      BY <2>1, <2>3 DEF Outcomes
    <3>2. invitation'[i].status = outcome /\ invitation'[i].stamps = {outcome}
      BY <2>3, <3>1 DEF TypeOK, InvitationRow, Settled
    <3> QED
      BY <3>2 DEF Outcomes
  <2> QED
    BY <2>2, <2>3 DEF SettlesOnce
<1>2. \A s \in Subjects : Pending(s)' \subseteq Pending(s)
  BY <1>1 DEF Pending
<1> QED
  BY <1>1, <1>2 DEF InvitationsSettleOnce

LEMMA AcceptSettles ==
    ASSUME TypeOK, InvitationsSettleOnce, NEW q \in Requests, NEW s, found[q] \subseteq Pending(s),
           NEW from, NEW after, Accept(q, s, from, after)
    PROVE  InvitationsSettleOnce'
<1>1. \A i \in Invitations : SettlesOnce(i)
  BY DEF Accept, Pending, SettlesOnce, Outcomes
<1> QED
  BY <1>1, SettledKeepsInvitations

LEMMA RevokeSettles ==
    ASSUME TypeOK, InvitationsSettleOnce, NEW q \in Requests, Revoke(q)
    PROVE  InvitationsSettleOnce'
<1>1. op[q].id \in Invitations
  BY OperationOf DEF Revoke
<1>2. \A i \in Invitations : SettlesOnce(i)
  BY <1>1 DEF Revoke, SettlesOnce, Outcomes, TypeOK
<1> QED
  BY <1>2, SettledKeepsInvitations

LEMMA InsertSettles ==
    ASSUME TypeOK, InvitationsSettleOnce, NEW q \in Requests, Pending(op[q].email) = {}, Insert(q)
    PROVE  InvitationsSettleOnce'
<1>1. PICK i \in Invitations :
          /\ invitation[i].status = "none"
          /\ invitation' = [invitation EXCEPT ![i] =
                [status |-> "pending", email |-> op[q].email, role |-> op[q].role, stamps |-> {}]]
  BY DEF Insert
<1>2. /\ invitation'[i].status = "pending" /\ invitation'[i].email = op[q].email
      /\ invitation'[i].stamps = {}
      /\ \A j \in Invitations : j # i => invitation'[j] = invitation[j]
  BY <1>1 DEF TypeOK
<1>3. \A j \in Invitations : invitation'[j].stamps = {invitation'[j].status} \intersect Outcomes
  BY <1>2 DEF InvitationsSettleOnce, Outcomes
<1>4. ASSUME NEW s \in Subjects, NEW j \in Pending(s)', NEW k \in Pending(s)' PROVE j = k
  BY <1>2, <1>4 DEF Pending, InvitationsSettleOnce
<1> QED
  BY <1>3, <1>4 DEF InvitationsSettleOnce

LEMMA OwnFoundStaysPending ==
    ASSUME TypeOK, StepsFitOperation, NEW q \in Requests, FoundStillPending(q),
           Bootstrap(q) \/ Inviting(q) \/ Revoke(q) \/ Changing(q)
    PROVE  FoundStillPending(q)'
<1> DEFINE Watched == {"joining", "accepting", "inviteJoining", "inviteAccepting",
                       "profiling", "inserting", "insertingUnknown"}
<1>0. CASE at'[q] \notin Watched
  BY <1>0 DEF FoundStillPending
<1>1. CASE BootFindPending(q)
  <2>1. at'[q] \in {"joining", "listing"} /\ found'[q] = Pending(who[q])
    BY <1>1 DEF BootFindPending, FindPending, TypeOK
  <2> QED
    BY <1>1, <2>1 DEF BootFindPending, FindPending, Pending, FoundStillPending, tables, request
<1>2. CASE BootReadMember(q)
  <2>1. at[q] = "joining" /\ at'[q] = "accepting"
    BY <1>2 DEF BootReadMember, ReadMember, Goto, TypeOK
  <2> QED
    BY <1>2, <2>1 DEF BootReadMember, ReadMember, Pending, FoundStillPending, tables, request
<1>3. CASE Invite(q)
  <2>1. at'[q] = "profiling" /\ Pending(op[q].email) = {}
    BY <1>3 DEF Invite, Goto, TypeOK
  <2> QED
    BY <1>3, <2>1 DEF Invite, Pending, FoundStillPending, tables, request
<1>4. CASE InviteLookup(q)
  <2>1. at[q] = "profiling" /\ at'[q] \in {"inserting", "insertingUnknown"}
    BY <1>4 DEF InviteLookup, Goto, TypeOK
  <2> QED
    BY <1>4, <2>1 DEF InviteLookup, Pending, FoundStillPending, tables, request
<1>5. CASE InviteFindPending(q)
  <2>1. at'[q] \in {"inviteJoining", "inviteDone"} /\ found'[q] = Pending(op[q].email)
    BY <1>5 DEF InviteFindPending, FindPending, TypeOK
  <2> QED
    BY <1>5, <2>1 DEF InviteFindPending, FindPending, Pending, FoundStillPending, tables, request
<1>6. CASE InviteReadMember(q)
  <2>1. at[q] = "inviteJoining" /\ at'[q] = "inviteAccepting"
    BY <1>6 DEF InviteReadMember, ReadMember, Goto, TypeOK
  <2> QED
    BY <1>6, <2>1 DEF InviteReadMember, ReadMember, Pending, FoundStillPending, tables, request
<1>7. CASE Bootstrap(q) /\ ~BootFindPending(q) /\ ~BootReadMember(q)
  <2>1. at'[q] \notin Watched
    BY <1>7 DEF TypeOK, Goto, End, Bootstrap, Arrive, BootAccept, Accept, BootConflict, AcceptConflict,
       ListAccounts, CreateAccount, Permit, EndVisit
  <2> QED
    BY <1>0, <2>1
<1>8. CASE Inviting(q) /\ ~Invite(q) /\ ~InviteLookup(q) /\ ~InviteFindPending(q) /\ ~InviteReadMember(q)
  <2>1. at'[q] \notin Watched
    BY <1>8 DEF TypeOK, Goto, End, Inviting, InviteAgain, InviteMember, InviteUnknown, InviteKnown,
       InviteAccept, Accept, InviteConflict, AcceptConflict, InviteEnd
  <2> QED
    BY <1>0, <2>1
<1>9. CASE Revoke(q)
  BY <1>0, <1>9 DEF Revoke, End, Goto, TypeOK
<1>10. CASE Changing(q)
  <2>1. at'[q] \notin Watched
    BY <1>10 DEF TypeOK, Goto, End, Changing, ChangeRead, ReadMember, ChangeNobody, ChangeRefused,
       ChangeCounted, ChangeWrite
  <2> QED
    BY <1>0, <2>1
<1> QED
  BY <1>1, <1>2, <1>3, <1>4, <1>5, <1>6, <1>7, <1>8, <1>9, <1>10

LEMMA StepSettlesOnce ==
    ASSUME TypeOK, StepsFitOperation, InvitationsSettleOnce, NEW q \in Requests, FoundStillPending(q),
           Bootstrap(q) \/ Inviting(q) \/ Revoke(q) \/ Changing(q)
    PROVE  InvitationsSettleOnce'
<1>1. ASSUME UNCHANGED invitation PROVE InvitationsSettleOnce'
  BY <1>1 DEF InvitationsSettleOnce, Pending
<1>2. CASE BootAccept(q)
  <2>1. Accept(q, who[q], "accepting", "listing")
    BY <1>2 DEF BootAccept
  <2>2. at[q] = "accepting"
    BY <2>1 DEF Accept, Goto
  <2>3. found[q] \subseteq Pending(who[q])
    BY <2>2 DEF FoundStillPending
  <2> QED
    BY <2>1, <2>3, AcceptSettles
<1>3. CASE InviteAccept(q)
  <2>1. Accept(q, op[q].email, "inviteAccepting", "inviteDone")
    BY <1>3 DEF InviteAccept
  <2>2. at[q] = "inviteAccepting"
    BY <2>1 DEF Accept, Goto
  <2>3. found[q] \subseteq Pending(op[q].email)
    BY <2>2 DEF FoundStillPending
  <2> QED
    BY <2>1, <2>3, AcceptSettles
<1>4. CASE InviteUnknown(q) \/ InviteKnown(q)
  BY <1>4, InsertSettles DEF InviteUnknown, InviteKnown, End, Goto, FoundStillPending
<1>5. CASE Revoke(q)
  BY <1>5, RevokeSettles
<1>6. CASE Bootstrap(q) /\ ~BootAccept(q)
  <2>1. UNCHANGED invitation
    BY <1>6 DEF Bootstrap, Arrive, BootFindPending, FindPending, BootReadMember, ReadMember,
       BootConflict, AcceptConflict, ListAccounts, CreateAccount, Permit, EndVisit, tables
  <2> QED
    BY <1>1, <2>1
<1>7. CASE Inviting(q) /\ ~(InviteAccept(q) \/ InviteUnknown(q) \/ InviteKnown(q))
  <2>1. UNCHANGED invitation
    BY <1>7 DEF Inviting, Invite, InviteAgain, InviteLookup, InviteMember, InviteFindPending,
       FindPending, InviteReadMember, ReadMember, InviteConflict, AcceptConflict, InviteEnd, tables
  <2> QED
    BY <1>1, <2>1
<1>8. CASE Changing(q)
  <2>1. UNCHANGED invitation
    BY <1>8 DEF Changing, ChangeRead, ReadMember, ChangeNobody, ChangeRefused, ChangeCounted,
       ChangeWrite, tables
  <2> QED
    BY <1>1, <2>1
<1> QED
  BY <1>2, <1>3, <1>4, <1>5, <1>6, <1>7, <1>8

(* With one request at a time a user has at most one pending invitation    *)
(* and each invitation has one outcome: no accepting or inviting request   *)
(* acts on a pending invitation it has read too long ago.                  *)
THEOREM SerialSettlesOnce == TrafficSpec => []SerialInvitationsSettleOnce
<1> DEFINE Inv == serial => InvitationsSettleOnce /\ \A q \in Requests : FoundStillPending(q)
<1>1. TrafficInit => Inv
  BY DEF TrafficInit, Init, InvitationsSettleOnce, Pending, FoundStillPending, Outcomes
<1>2. TypeOK /\ StepsFitOperation /\ (serial => OneAtATime) /\ (serial => OneAtATime)' /\ Inv
        /\ [TrafficNext]_<<vars, serial>> => Inv'
  <2> SUFFICES ASSUME TypeOK, StepsFitOperation, OneAtATime, OneAtATime', serial, Inv,
                      [TrafficNext]_<<vars, serial>>
               PROVE  InvitationsSettleOnce' /\ \A q \in Requests : FoundStillPending(q)'
    BY DEF TrafficNext
  <2>1. CASE UNCHANGED vars
    BY <2>1 DEF vars, InvitationsSettleOnce, Pending, FoundStillPending
  <2>2. ASSUME NEW q \in Requests, Bootstrap(q) \/ Inviting(q) \/ Revoke(q) \/ Changing(q)
        PROVE  InvitationsSettleOnce' /\ \A p \in Requests : FoundStillPending(p)'
    <3>1. ASSUME NEW p \in Requests PROVE FoundStillPending(p)'
      <4>1. CASE p = q
        BY <2>2, <4>1, OwnFoundStaysPending
      <4>2. CASE p # q
        BY <2>2, <4>2, OthersIdle DEF FoundStillPending
      <4> QED
        BY <4>1, <4>2
    <3>2. InvitationsSettleOnce'
      BY <2>2, StepSettlesOnce
    <3> QED
      BY <3>1, <3>2
  <2> QED
    BY <2>1, <2>2 DEF TrafficNext, Next
<1>3. TrafficSpec => []Inv
  BY <1>1, <1>2, TrafficTypes, OneAtATimeStays, PTL DEF TrafficSpec
<1>4. Inv => SerialInvitationsSettleOnce
  BY DEF SerialInvitationsSettleOnce
<1> QED
  BY <1>3, <1>4, PTL

-----------------------------------------------------------------------------
(* Personal workspaces, when requests come one at a time.                  *)

\* What list_accounts_for_subject has seen is still so: nobody else creates.
NoneYet(q) == at[q] = "creating" => personal[who[q]] = 0

LEMMA StepCreatesOnce ==
    ASSUME TypeOK, OnePersonalWorkspace, NEW q \in Requests, NoneYet(q),
           Bootstrap(q) \/ Inviting(q) \/ Revoke(q) \/ Changing(q)
    PROVE  OnePersonalWorkspace' /\ NoneYet(q)'
<1>1. CASE CreateAccount(q)
  <2>1. who[q] \in Subjects /\ personal[who[q]] = 0 /\ personal \in [Subjects -> Nat]
    BY <1>1 DEF TypeOK, CreateAccount, Goto, NoneYet
  <2>2. personal' = [personal EXCEPT ![who[q]] = @ + 1] /\ at'[q] = "selecting"
    BY <1>1 DEF TypeOK, CreateAccount, Goto
  <2>3. \A s \in Subjects : personal'[s] <= 1
    BY <2>1, <2>2 DEF OnePersonalWorkspace
  <2> QED
    BY <2>2, <2>3 DEF OnePersonalWorkspace, NoneYet
<1>2. CASE ListAccounts(q)
  <2>1. personal[who[q]] \in Nat
    BY DEF TypeOK
  <2>2. personal' = personal /\ who' = who /\ (at'[q] = "creating" => ~(personal[who[q]] > 0))
    BY <1>2 DEF TypeOK, ListAccounts, Goto, tables, request
  <2> QED
    BY <2>1, <2>2 DEF OnePersonalWorkspace, NoneYet
<1>3. CASE ~CreateAccount(q) /\ ~ListAccounts(q)
  <2>1. CASE Bootstrap(q)
    <3>1. personal' = personal
      BY <1>3, <2>1 DEF Bootstrap, Arrive, BootFindPending, FindPending, BootReadMember, ReadMember,
         BootAccept, Accept, BootConflict, AcceptConflict, Permit, EndVisit, tables
    <3>2. at'[q] # "creating"
      BY <1>3, <2>1 DEF TypeOK, Goto, End, Bootstrap, Arrive, BootFindPending, FindPending, BootReadMember,
         ReadMember, BootAccept, Accept, BootConflict, AcceptConflict, Permit, EndVisit
    <3> QED
      BY <3>1, <3>2 DEF OnePersonalWorkspace, NoneYet
  <2>2. CASE Inviting(q)
    <3>1. personal' = personal
      BY <2>2 DEF Inviting, Invite, InviteAgain, InviteLookup, InviteMember, InviteUnknown, InviteKnown,
         Insert, InviteFindPending, FindPending, InviteReadMember, ReadMember, InviteAccept, Accept,
         InviteConflict, AcceptConflict, InviteEnd, tables
    <3>2. at'[q] # "creating"
      BY <2>2 DEF TypeOK, Goto, End, Inviting, Invite, InviteAgain, InviteLookup, InviteMember,
         InviteUnknown, InviteKnown, InviteFindPending, FindPending, InviteReadMember, ReadMember,
         InviteAccept, Accept, InviteConflict, AcceptConflict, InviteEnd
    <3> QED
      BY <3>1, <3>2 DEF OnePersonalWorkspace, NoneYet
  <2>3. CASE Revoke(q) \/ Changing(q)
    <3>1. personal' = personal
      BY <2>3 DEF Revoke, Changing, ChangeRead, ReadMember, ChangeNobody, ChangeRefused, ChangeCounted,
         ChangeWrite, tables
    <3>2. at'[q] # "creating"
      BY <2>3 DEF TypeOK, Goto, End, Revoke, Changing, ChangeRead, ReadMember, ChangeNobody,
         ChangeRefused, ChangeCounted, ChangeWrite
    <3> QED
      BY <3>1, <3>2 DEF OnePersonalWorkspace, NoneYet
  <2> QED
    BY <2>1, <2>2, <2>3
<1> QED
  BY <1>1, <1>2, <1>3

(* With one request at a time signing in creates at most one personal      *)
(* workspace for a user, whatever becomes of its memberships between two   *)
(* sign-ins.  Two first requests at once may create two.                   *)
THEOREM SerialOnePersonalWorkspace == TrafficSpec => [](serial => OnePersonalWorkspace)
<1> DEFINE Inv == serial => OnePersonalWorkspace /\ \A q \in Requests : NoneYet(q)
<1>1. TrafficInit => Inv
  BY DEF TrafficInit, Init, OnePersonalWorkspace, NoneYet
<1>2. TypeOK /\ StepsFitOperation /\ (serial => OneAtATime) /\ (serial => OneAtATime)' /\ Inv
        /\ [TrafficNext]_<<vars, serial>> => Inv'
  <2> SUFFICES ASSUME TypeOK, OneAtATime, OneAtATime', serial, Inv, [TrafficNext]_<<vars, serial>>
               PROVE  OnePersonalWorkspace' /\ \A q \in Requests : NoneYet(q)'
    BY DEF TrafficNext
  <2>1. CASE UNCHANGED vars
    BY <2>1 DEF vars, OnePersonalWorkspace, NoneYet
  <2>2. ASSUME NEW q \in Requests, Bootstrap(q) \/ Inviting(q) \/ Revoke(q) \/ Changing(q)
        PROVE  OnePersonalWorkspace' /\ \A p \in Requests : NoneYet(p)'
    <3>1. OnePersonalWorkspace' /\ NoneYet(q)'
      BY <2>2, StepCreatesOnce
    <3>2. \A p \in Requests : p # q => NoneYet(p)'
      BY <2>2, OthersIdle DEF NoneYet
    <3> QED
      BY <3>1, <3>2
  <2> QED
    BY <2>1, <2>2 DEF TrafficNext, Next
<1>3. TrafficSpec => []Inv
  BY <1>1, <1>2, TrafficTypes, OneAtATimeStays, PTL DEF TrafficSpec
<1> QED
  BY <1>3, PTL
=============================================================================
