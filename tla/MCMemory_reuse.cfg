SPECIFICATION MemorySpec
CONSTANTS ContextTokens = 44 CuratorTokens = 0 DefaultWorkingSet = 16 WorkingSetTokens = 0
 SystemSize = 9 TaskSizes = {1,40} DumpSize = 5 FileSize = 2 Reds = {5,30} MapPosition = "pinned" Distill = TRUE CharsPerToken = {6, 8}
 Submissions = 2 MaxTurns = 3
CHECK_DEADLOCK FALSE
INVARIANT AssembleSucceeds
