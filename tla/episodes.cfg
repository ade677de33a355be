SPECIFICATION FairSpec
CONSTANTS
    Episode = {e1, e2}
    MaxMessages = 2
    MaxDuration = 1
    MaxItems = 2
INVARIANTS
    ManifestTrue
    ProtectionFollows
PROPERTIES
    KnownEpisodeKept
    RecordingEnds
