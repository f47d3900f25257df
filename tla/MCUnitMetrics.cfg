SPECIFICATION Spec
CONSTANTS
  Programs <- MCPrograms
  Revisions <- MCRevisions
  Standard <- MCStandard
  Area <- MCArea
  MAX_PROCESSES = 2
  MaxRuns = 3
  MaxKills = 1
  NoMetric = NoMetric
INVARIANTS TypeOK ConfAgrees ConfOnce NoClash RerunSame SharedByWidth ReportAgrees
CHECK_DEADLOCK FALSE
