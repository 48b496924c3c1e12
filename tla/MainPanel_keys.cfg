SPECIFICATION FairSpec
CONSTANTS
    Pid <- ThePids
    Parent <- TheParents
    SearchLimit = 100
    MaxTyped = 12
INVARIANTS
    FollowedSelected
PROPERTIES
    MenuHitsTarget
    FamilyTagged
    PidSearchFinds
