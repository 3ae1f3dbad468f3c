CONSTANTS
    read = read  append = append  restart = restart  raw = raw
    unknown = unknown  text = text  service = service  alice = alice  Blank = Blank
    Nameless = Nameless  Absent = Absent
    Targets <- MCTargets
    Rule <- MCRule
    Keys <- MCKeys
    Values <- MCValues
    TooLong <- MCTooLong
    Taints <- MCTaints
    Domains <- MCDomains
    Inputs <- MCInputs
    Fetched <- MCFetched
    Reviewers <- MCReviewers
    Removables <- MCRemovables
    Drafts <- MCDrafts
    Ttl = 1
    MaxTime = 1
    MaxGrants = 2
SPECIFICATION FlowSpec
INVARIANTS RemovedByReview WorseEvidenceNeverHelps CrossDomainNeverDrives
    CapabilityOnlyNarrows OnlyStoredClaimsSlip LowRiskStaysAvailable
