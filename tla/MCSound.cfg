CONSTANTS
    Channels = {0, 1}
    Notes = 2
    Loud = 2
    MaxCalls = 2
    Chosen = {0}
    Songs <- MCSongs
    Shots <- MCShots
    Together <- MCTogether
    Sfx <- MCSfx
    Song <- MCSong
SPECIFICATION FairSpec
INVARIANTS OneVoicePerEffect PatternHasTime
PROPERTIES EffectEnds FadeOutEnds
