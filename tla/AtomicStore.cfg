SPECIFICATION Spec
CONSTANTS
    Writers = {w1, w2}
    Names = {n1, n2}
    Free = free
    MaxPowerLoss = 2
INVARIANTS NoTornFile FreshAnswersSurvive
