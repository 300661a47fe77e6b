CONSTANTS
    Texts <- MCTexts
    GuideKinds = {"region", "sensitivity"}
    MinConfidence = 60
    MaxAdjustments = 2
    MaxGuided = 3
SPECIFICATION GuideSpec
INVARIANT GuidanceTakesEffect
CHECK_DEADLOCK FALSE
