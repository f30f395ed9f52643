SPECIFICATION FairSpec
CONSTANT Sessions = {s1, s2}
INVARIANT StoredIsStopped
PROPERTIES SignalEndsProcess EndReleasesCamera
