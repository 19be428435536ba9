CONSTANTS
    k1 = k1
    alice = alice
    bob = bob
    f1 = f1
    Keys = {k1}
    Operators = {alice, bob}
    Fields = {f1}
    MaxMarks = 0
    BulkActions = {"stop", "force_stop"}
    ApprovalTtl = 1
    MaxApprovals = 1
    MaxCalls = 2
    MaxNow = 1
SPECIFICATION Spec
SYMMETRY Symmetry
INVARIANT TwoApprovers
CHECK_DEADLOCK FALSE
