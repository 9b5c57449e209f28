\* Every test, with progress lines in all but the first two.
SPECIFICATION Spec
CONSTANTS
    FewIters = 2
    ManyIters = 5
    Every = 2
INVARIANTS
    ThresholdFollowsTest
    CallerUndisturbed
    OkMeansMeasured
