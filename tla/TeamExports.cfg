SPECIFICATION Spec
CONSTANTS
    f = f
    a = a
    b = b
    Users <- MCUsers
    Founder = f
    Recipients <- MCRecipients
    Links = {l1}
    NoUser = nobody
    MaxUses = 1
    MaxAttempts = 2
    MaxOpen = 1
    MaxIncidents = 2
INVARIANTS
    AuthorityHolds
    NoReturnByOldInvitation
    DownloadShowsTheTeam
PROPERTIES
    EveryExportEnds
CHECK_DEADLOCK FALSE
