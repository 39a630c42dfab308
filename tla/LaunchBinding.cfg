SPECIFICATION FairSpec
CONSTANTS
    source = source
    native = native
    dataset = dataset
    tokenizer = tokenizer
    evaluation = evaluation
    converted = converted
    early = early
    late = late
    Files = {source, native, dataset, tokenizer, evaluation, converted}
    Order <- MCOrder
    Trees = {source, native, dataset, tokenizer}
    Source = source
    Native = native
    Dataset = dataset
    Tokenizer = tokenizer
    Evaluation = evaluation
    Converted = converted
    Modules = {early, late}
    Late = {late}
    Installed = {late}
    Exact = {0, 1}
    MaxChanges = 2
    Horizon = 2
    MaxKills = 1
    None = None
CHECK_DEADLOCK FALSE
INVARIANTS
    EvidenceAtomic
    TrainedOnLaunch
    ReturnedMeansHeld
PROPERTIES
    QuietRunEnds
