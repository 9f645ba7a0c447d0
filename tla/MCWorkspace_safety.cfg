SPECIFICATION SceneSpec
CONSTANTS
    ana = ana
    bob = bob
    eve = eve
    q1 = q1
    q2 = q2
    Founder = ana
    Admins = {eve}
    Subjects <- ThreeSubjects
    Requests <- TwoRequests
    Invitations <- TwoInvitations
    Operations <- EveryOperation
SYMMETRY RequestSymmetry
INVARIANTS
    MembersWereInvited
    SerialHasOwner
    SerialInvitationsSettleOnce
CHECK_DEADLOCK FALSE
