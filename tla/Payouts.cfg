SPECIFICATION Spec
CONSTANTS
    Payouts = {p1, p2}
    Workers = {a1, a2}
    Amounts = {1, 2}
    MaxEarned = 2
    MaxDecisions = 1
    None = None
SYMMETRY Symmetry
INVARIANTS NeverOverdrawn OneSendPerApproval MoneyAccounted
