SPECIFICATION Spec
CONSTANTS
  Workflow <- MCWorkflow
  Root = "flow"
  MaxResumes = 1
INVARIANTS
  ResumeIsAnswered
