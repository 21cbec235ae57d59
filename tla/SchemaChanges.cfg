\* Versions of a schema proposed, judged, merged and loaded in any order.
SPECIFICATION Spec
CONSTANTS
    None = None
    Null = None
    Initial <- Starts
    Versions <- Proposals
INVARIANTS
    EveryMemberAccountedOnce
    SilenceMeansSame
    FollowedPathsKeepMeaning
    MergedSchemasLoad
