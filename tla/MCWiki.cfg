CONSTANTS
    memory = memory
    pricing = pricing
    tool = tool
    curator = curator
    Docs <- MCDocs
    Pages <- MCPages
    Cites <- MCCites
    Editors <- MCEditors
    Curators <- MCCurators
    Changes <- MCChanges
    Texts = {1, 2}
    MaxDoc = 3
    MaxPage = 3
    MaxFaults = 1
SPECIFICATION FairSpec
INVARIANTS
    EditsKept
    ReplacedFenced
PROPERTIES
    SummariesMarked
    StaleRefreshed
CHECK_DEADLOCK FALSE
