SPECIFICATION SceneSpec
CONSTANTS
    ana = ana
    bob = bob
    eve = eve
    q1 = q1
    q2 = q2
    Founder = ana
    Admins = {}
    Subjects <- TwoSubjects
    Requests <- TwoRequests
    Invitations <- OneInvitation
    Operations <- Visits
INVARIANTS
    OnePersonalWorkspace
CHECK_DEADLOCK FALSE
