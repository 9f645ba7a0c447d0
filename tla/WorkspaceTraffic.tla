-------------------------- MODULE WorkspaceTraffic --------------------------
(***************************************************************************)
(* Workspace under two kinds of traffic: requests of any users that        *)
(* overlap as they please, and requests that come one at a time.  What     *)
(* the checks of the API promise (api.py, update_account_member and        *)
(* create_account_invitation) is only kept under the second kind.          *)
(***************************************************************************)
EXTENDS Workspace

VARIABLE serial   \* requests come one at a time

OneAtATime == \A q, r \in Requests : at[q] # "idle" /\ at[r] # "idle" => q = r

TrafficInit == Init /\ serial \in BOOLEAN

TrafficNext ==
    /\ Next
    /\ UNCHANGED serial
    /\ serial => OneAtATime'

TrafficSpec == TrafficInit /\ [][TrafficNext]_<<vars, serial>>

-----------------------------------------------------------------------------

(* With one request at a time the workspace always has an active owner:    *)
(* update_account_member refuses to take the last one away.                *)
SerialHasOwner == serial => HasOwner

(* With one request at a time a user has at most one pending invitation,   *)
(* and one that was revoked is never accepted, nor the reverse.            *)
SerialInvitationsSettleOnce == serial => InvitationsSettleOnce
=============================================================================
