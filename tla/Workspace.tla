----------------------------- MODULE Workspace -----------------------------
(***************************************************************************)
(* One shared workspace: its members, its invitations and the personal     *)
(* workspaces that signing in creates (src/tryops/db.py, accounts).        *)
(* Every API request first bootstraps its user, then checks that the user  *)
(* may manage the workspace, then does its operation, each in transactions *)
(* of its own at READ COMMITTED: a statement reads what is committed, and  *)
(* the writes of a transaction, which depend on what it has read before    *)
(* only, appear at its commit.                                             *)
(***************************************************************************)
EXTENDS Integers

CONSTANTS
    Subjects,     \* users; a user's e-mail address is the user
    Founder,      \* the user who created the workspace
    Admins,       \* users whose scopes include admin:read
    Requests,     \* request threads of the API
    Invitations,  \* BOUND: 1 .. the number of invitations ever created
    Operations    \* what requests ask for, see Arrive

Roles == {"account_owner", "account_member", "account_viewer"}
Statuses == {"none", "active", "disabled", "removed"}

\* A visit only signs in; a change leaves out what is to stay the "same".
ASSUME WorkspaceAssumption ==
    /\ Founder \in Subjects
    /\ Admins \subseteq Subjects
    /\ Invitations \subseteq Nat
    /\ \A o \in Operations :
        \/ o.kind = "visit"
        \/ o.kind = "invite" /\ o.email \in Subjects /\ o.role \in Roles
        \/ o.kind = "revoke" /\ o.id \in Invitations
        \/ /\ o.kind = "change" /\ o.target \in Subjects
           /\ o.role \in Roles \union {"same"}
           /\ o.status \in {"active", "disabled", "removed", "same"}

VARIABLES
    profile,      \* profile[s]: s has a user_profiles row
    member,       \* member[s]: role and status of the account_members row of s
    personal,     \* personal[s]: personal workspaces created for s
    invitation,   \* invitation[i]: status, e-mail, role, and which of accepted_at,
                  \* revoked_at are set
    at,           \* at[q]: where request q is
    who,          \* who[q]: the authenticated user of q
    op,           \* op[q]: its operation
    found,        \* found[q]: pending invitations it has read
    row           \* row[q]: the member row it has read

vars == <<profile, member, personal, invitation, at, who, op, found, row>>
tables == <<profile, member, personal, invitation>>
request == <<who, op>>

Row(role, status) == [role |-> role, status |-> status]
NoRow == Row("account_member", "none")
Visit == [kind |-> "visit"]

Init ==
    /\ profile = [s \in Subjects |-> s = Founder]
    /\ member = [s \in Subjects |-> IF s = Founder THEN Row("account_owner", "active") ELSE NoRow]
    /\ personal = [s \in Subjects |-> IF s = Founder THEN 1 ELSE 0]
    /\ invitation = [i \in Invitations |->
          [status |-> "none", email |-> Founder, role |-> "account_member", stamps |-> {}]]
    /\ at = [q \in Requests |-> "idle"]
    /\ who = [q \in Requests |-> Founder]
    /\ op = [q \in Requests |-> Visit]
    /\ found = [q \in Requests |-> {}]
    /\ row = [q \in Requests |-> NoRow]

Goto(q, from, to) ==
    /\ at[q] = from
    /\ at' = [at EXCEPT ![q] = to]

\* A request that ends forgets what it has read.
End(q, from) ==
    /\ Goto(q, from, "idle")
    /\ found' = [found EXCEPT ![q] = {}]
    /\ row' = [row EXCEPT ![q] = NoRow]
    /\ who' = [who EXCEPT ![q] = Founder]
    /\ op' = [op EXCEPT ![q] = Visit]

Active(s) == member[s].status = "active"
IsOwner(s) == Active(s) /\ member[s].role = "account_owner"
Outcomes == {"accepted", "revoked"}
Settled(i, outcome) ==
    [invitation[i] EXCEPT !.status = outcome, !.stamps = @ \union {outcome}]
Pending(s) == {i \in Invitations : invitation[i].status = "pending" /\ invitation[i].email = s}

-----------------------------------------------------------------------------
(* Accepting the pending invitations of s, on behalf of request q: in the  *)
(* bootstrap of s itself, or by a request that has just invited s.         *)

FindPending(q, s, from, joining, after) ==
    /\ at[q] = from
    /\ at' = [at EXCEPT ![q] = IF Pending(s) = {} THEN after ELSE joining]
    /\ found' = [found EXCEPT ![q] = Pending(s)]
    /\ UNCHANGED <<tables, request, row>>

ReadMember(q, s, from, to) ==
    /\ Goto(q, from, to)
    /\ row' = [row EXCEPT ![q] = member[s]]
    /\ UNCHANGED <<tables, request, found>>

\* The member row after acceptance: an active member keeps its role, others
\* get the role of the invitation processed first.
Accepted(q, i) == Row(IF row[q].status = "active" THEN row[q].role ELSE invitation[i].role, "active")

\* A plausible bug, used nowhere below: the invitation is marked in a transaction of its own, which fails.
AcceptHalfway(q, s, from, after) ==
    /\ Goto(q, from, after)
    /\ row[q].status = "none" => member[s].status = "none"
    /\ \E i \in found[q] : member' = [member EXCEPT ![s] = Accepted(q, i)]
    /\ UNCHANGED <<profile, personal, invitation, request, found, row>>

\* The updates of the member and of all invitations found, and the commit.
Accept(q, s, from, after) ==
    /\ Goto(q, from, after)
    /\ row[q].status = "none" => member[s].status = "none"
    /\ \E i \in found[q] : member' = [member EXCEPT ![s] = Accepted(q, i)]
    /\ invitation' = [i \in Invitations |->
          IF i \in found[q] THEN Settled(i, "accepted") ELSE invitation[i]]
    /\ UNCHANGED <<profile, personal, request, found, row>>

\* Another request has inserted the row: the INSERT violates UNIQUE(account_id,
\* subject), the transaction is rolled back and the request fails.
AcceptConflict(q, s, from) ==
    /\ End(q, from)
    /\ row[q].status = "none" /\ member[s].status # "none"
    /\ UNCHANGED tables

-----------------------------------------------------------------------------
(* Plausible bugs, one per operator; nothing below uses them.              *)

\* The UPDATE does not ask for a pending invitation.
RevokeAny(q) ==
    /\ op[q].kind = "revoke"
    /\ invitation' = [invitation EXCEPT ![op[q].id] = Settled(op[q].id, "revoked")]
    /\ End(q, "permitted")
    /\ UNCHANGED <<profile, member, personal>>

\* A change that names one field only clears the other.
ChangedRaw(q) == Row(op[q].role, op[q].status)

\* Removing an owner is not counted as a loss of one.
LeavesOwnersDemotedOnly(q) == row[q].role = "account_owner" /\ op[q].role \notin {"same", "account_owner"}

-----------------------------------------------------------------------------
(* Bootstrap: _bootstrap_or_demo_account, at the start of every request.   *)

\* The user is authenticated and its profile upserted and committed.
Arrive(q, s, o) ==
    /\ Goto(q, "idle", "arrived")
    /\ o.kind = "invite" => \E i \in Invitations : invitation[i].status = "none"
    /\ profile' = [profile EXCEPT ![s] = TRUE]
    /\ who' = [who EXCEPT ![q] = s]
    /\ op' = [op EXCEPT ![q] = o]
    /\ UNCHANGED <<member, personal, invitation, found, row>>

BootFindPending(q) == FindPending(q, who[q], "arrived", "joining", "listing")
BootReadMember(q) == ReadMember(q, who[q], "joining", "accepting")
BootAccept(q) == Accept(q, who[q], "accepting", "listing")
BootConflict(q) == AcceptConflict(q, who[q], "accepting")

\* list_accounts_for_subject: is there any active membership?
ListAccounts(q) ==
    /\ Goto(q, "listing", IF Active(who[q]) \/ personal[who[q]] > 0 THEN "selecting" ELSE "creating")
    /\ UNCHANGED <<tables, request, found, row>>

\* create_account: a new id every time, so nothing conflicts.
CreateAccount(q) ==
    /\ Goto(q, "creating", "selecting")
    /\ personal' = [personal EXCEPT ![who[q]] = @ + 1]
    /\ UNCHANGED <<profile, member, invitation, request, found, row>>

\* resolve_account_for_subject and _can_manage_account, for a request that
\* names the workspace; the operation runs on a connection of its own.
MayManage(s) == Active(s) /\ (s \in Admins \/ IsOwner(s))

Permit(q) ==
    /\ op[q].kind # "visit" /\ MayManage(who[q])
    /\ Goto(q, "selecting", "permitted")
    /\ UNCHANGED <<tables, request, found, row>>

\* A visit is answered; a request that may not manage is refused.
EndVisit(q) ==
    /\ op[q].kind = "visit" \/ ~MayManage(who[q])
    /\ End(q, "selecting")
    /\ UNCHANGED tables

-----------------------------------------------------------------------------
(* create_account_invitation.                                              *)

\* A pending invitation of the same address is returned as it is.
Invite(q) ==
    /\ op[q].kind = "invite" /\ Pending(op[q].email) = {}
    /\ Goto(q, "permitted", "profiling")
    /\ UNCHANGED <<tables, request, found, row>>

InviteAgain(q) ==
    /\ op[q].kind = "invite" /\ Pending(op[q].email) # {}
    /\ End(q, "permitted")
    /\ UNCHANGED tables

\* The profile of the address is looked up, and if there is one its membership.
InviteLookup(q) ==
    /\ Goto(q, "profiling", IF profile[op[q].email] THEN "inserting" ELSE "insertingUnknown")
    /\ profile[op[q].email] => ~Active(op[q].email)
    /\ UNCHANGED <<tables, request, found, row>>

InviteMember(q) ==
    /\ End(q, "profiling")
    /\ profile[op[q].email] /\ Active(op[q].email)
    /\ UNCHANGED tables

Insert(q) ==
    /\ \E i \in Invitations :
        /\ invitation[i].status = "none"
        /\ \A j \in Invitations : j < i => invitation[j].status # "none"
        /\ invitation' = [invitation EXCEPT ![i] =
              [status |-> "pending", email |-> op[q].email, role |-> op[q].role, stamps |-> {}]]
    /\ UNCHANGED <<profile, member, personal>>

\* Without a profile the invitation waits for the first sign-in.
InviteUnknown(q) == End(q, "insertingUnknown") /\ Insert(q)

\* With one it is accepted at once, for the invited user.
InviteKnown(q) ==
    /\ Goto(q, "inserting", "inviteArrived")
    /\ Insert(q)
    /\ UNCHANGED <<request, found, row>>

InviteFindPending(q) == FindPending(q, op[q].email, "inviteArrived", "inviteJoining", "inviteDone")
InviteReadMember(q) == ReadMember(q, op[q].email, "inviteJoining", "inviteAccepting")
InviteAccept(q) == Accept(q, op[q].email, "inviteAccepting", "inviteDone")
InviteConflict(q) == AcceptConflict(q, op[q].email, "inviteAccepting")
InviteEnd(q) == End(q, "inviteDone") /\ UNCHANGED tables

-----------------------------------------------------------------------------
(* revoke_account_invitation.                                              *)

Revoke(q) ==
    /\ op[q].kind = "revoke"
    /\ invitation' = [invitation EXCEPT ![op[q].id] =
          IF @.status = "pending" THEN Settled(op[q].id, "revoked") ELSE @]
    /\ End(q, "permitted")
    /\ UNCHANGED <<profile, member, personal>>

-----------------------------------------------------------------------------
(* update_account_member and remove_account_member.                        *)

ChangeRead(q) ==
    /\ op[q].kind = "change" /\ member[op[q].target].status # "none"
    /\ ReadMember(q, op[q].target, "permitted", "changing")

ChangeNobody(q) ==
    /\ op[q].kind = "change" /\ member[op[q].target].status = "none"
    /\ End(q, "permitted")
    /\ UNCHANGED tables

\* What the row becomes: what the request leaves out stays as it was read.
Changed(q) == Row(IF op[q].role = "same" THEN row[q].role ELSE op[q].role,
                  IF op[q].status = "same" THEN row[q].status ELSE op[q].status)

\* The row read is an owner's and the change takes that away.
LeavesOwners(q) == row[q].role = "account_owner" /\ Changed(q) # Row("account_owner", "active")

\* _active_owner_count <= 1
OneOwnerLeft == \A s, t \in Subjects : IsOwner(s) /\ IsOwner(t) => s = t

ChangeRefused(q) ==
    /\ End(q, "changing")
    /\ LeavesOwners(q) /\ OneOwnerLeft
    /\ UNCHANGED tables

ChangeCounted(q) ==
    /\ Goto(q, "changing", "writing")
    /\ ~(LeavesOwners(q) /\ OneOwnerLeft)
    /\ UNCHANGED <<tables, request, found, row>>

ChangeWrite(q) ==
    /\ End(q, "writing")
    /\ member' = [member EXCEPT ![op[q].target] = Changed(q)]
    /\ UNCHANGED <<profile, personal, invitation>>

-----------------------------------------------------------------------------

Bootstrap(q) ==
    \/ \E s \in Subjects, o \in Operations : Arrive(q, s, o)
    \/ BootFindPending(q) \/ BootReadMember(q) \/ BootAccept(q) \/ BootConflict(q)
    \/ ListAccounts(q) \/ CreateAccount(q) \/ Permit(q) \/ EndVisit(q)

Inviting(q) ==
    \/ Invite(q) \/ InviteAgain(q) \/ InviteLookup(q) \/ InviteMember(q)
    \/ InviteUnknown(q) \/ InviteKnown(q)
    \/ InviteFindPending(q) \/ InviteReadMember(q) \/ InviteAccept(q) \/ InviteConflict(q)
    \/ InviteEnd(q)

Changing(q) == ChangeRead(q) \/ ChangeNobody(q) \/ ChangeRefused(q) \/ ChangeCounted(q) \/ ChangeWrite(q)

Next == \E q \in Requests : Bootstrap(q) \/ Inviting(q) \/ Revoke(q) \/ Changing(q)

Spec == Init /\ [][Next]_vars

-----------------------------------------------------------------------------
(* Properties.                                                             *)

MemberRow == [role : Roles, status : Statuses]
InvitationRow == [status : {"none", "pending", "accepted", "revoked"}, email : Subjects,
                  role : Roles, stamps : SUBSET Outcomes]
Steps == {"idle", "arrived", "joining", "accepting", "listing", "creating", "selecting",
          "permitted", "profiling", "inserting", "insertingUnknown", "inviteArrived",
          "inviteJoining", "inviteAccepting", "inviteDone", "changing", "writing"}

TypeOK ==
    /\ profile \in [Subjects -> BOOLEAN]
    /\ member \in [Subjects -> MemberRow]
    /\ personal \in [Subjects -> Nat]
    /\ invitation \in [Invitations -> InvitationRow]
    /\ at \in [Requests -> Steps]
    /\ who \in [Requests -> Subjects]
    /\ op \in [Requests -> Operations \union {Visit}]
    /\ found \in [Requests -> SUBSET Invitations]
    /\ row \in [Requests -> MemberRow]

(* Whoever is a member, of whatever status, founded the workspace or has   *)
(* an accepted invitation to it, in every interleaving of sign-ins,        *)
(* invitations, revocations and member changes.                            *)
MembersWereInvited ==
    \A s \in Subjects : member[s].status # "none" =>
        \/ s = Founder
        \/ \E i \in Invitations : invitation[i].email = s /\ invitation[i].status = "accepted"

(* The workspace always has an active owner ("cannot remove or demote the  *)
(* last workspace owner").                                                 *)
HasOwner == \E s \in Subjects : IsOwner(s)

(* Signing in creates at most one personal workspace for a user.           *)
OnePersonalWorkspace == \A s \in Subjects : personal[s] <= 1

(* Invitations settle once: a user has at most one pending invitation, and  *)
(* one that was revoked is never accepted, nor the reverse: its status is   *)
(* the one outcome it has had.                                              *)
InvitationsSettleOnce ==
    /\ \A s \in Subjects : \A i, j \in Pending(s) : i = j
    /\ \A i \in Invitations :
           invitation[i].stamps = {invitation[i].status} \intersect Outcomes
=============================================================================
