CONSTANTS
    t1 = t1  t2 = t2  i1 = i1  i2 = i2  i3 = i3  x = x  y = y
    a1 = a1  a2 = a2  a3 = a3  a4 = a4  a5 = a5  alice = alice  bob = bob
    cap = cap  narrow = narrow  ident = ident  stranger = stranger
    NoToken = NoToken  NoCall = NoCall  NoRow = NoRow  Blank = Blank
    Threads <- MCThreads
    ProposalIds <- MCProposalIds
    Proposals <- RaceProposals
    Approvals <- MCApprovals
    Tokens <- MCTokens
    Scope <- MCScope
    Requests <- RaceRequests
    Perishable <- NoCredentials
    Revocable <- NoCredentials
    Quorum = 2
    UseLedger = TRUE
    UseCapabilities = TRUE
    UseIdentities = TRUE
SPECIFICATION Spec
SYMMETRY Symmetry
INVARIANTS InDoubtOnlyAfterFailure PaidByQuorum ReservedBeforeSpent ReplyMatchesLedger StaleAuthorityNeverActs AtMostOneEffect
PROPERTY ImplementsContract
