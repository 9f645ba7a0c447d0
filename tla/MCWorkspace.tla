---------------------------- MODULE MCWorkspace ----------------------------
(***************************************************************************)
(* TLC instances of Workspace.                                             *)
(***************************************************************************)
EXTENDS WorkspaceTraffic, TLC

CONSTANTS ana, bob, eve, q1, q2

TwoSubjects == {ana, bob}
ThreeSubjects == {ana, bob, eve}
OneRequest == {q1}
TwoRequests == {q1, q2}
OneInvitation == 1 .. 1
TwoInvitations == 1 .. 2
ThreeInvitations == 1 .. 3

Visits == {[kind |-> "visit"]}
Invites(users) == [kind : {"invite"}, email : users, role : {"account_owner", "account_member"}]
Revokes == [kind : {"revoke"}, id : Invitations]
Removals(users) == [kind : {"change"}, target : users, role : {"same"}, status : {"removed"}]
Demotions(users) == [kind : {"change"}, target : users, role : {"account_member"}, status : {"same"}]
Promotions(users) == [kind : {"change"}, target : users, role : {"account_owner"}, status : {"active"}]

EveryOperation ==
    Visits \union Invites(Subjects) \union Revokes \union Removals(Subjects)
        \union Demotions(Subjects) \union Promotions(Subjects)
SharedOperations ==
    Visits \union Invites({bob}) \union Revokes \union Removals({ana, bob})

RequestSymmetry == Permutations({q1, q2})

-----------------------------------------------------------------------------
(* Two scenes of one run: requests of any user for any operation, one at a *)
(* time, and two requests at a time of ana and bob for fewer operations.   *)

SceneNext ==
    /\ TrafficNext
    /\ ~serial => \A q \in Requests : who'[q] # eve /\ op'[q] \in SharedOperations
SceneSpec == TrafficInit /\ [][SceneNext]_<<vars, serial>>
=============================================================================
