CONSTANT Workers = {w1, w2, w3, w4, w5}
SPECIFICATION FairSpec
INVARIANT PullRunsAlone
PROPERTY PullIsNotStarved
