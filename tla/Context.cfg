\* One skill or rule of every shape, and directories of more than the caps.
SPECIFICATION Spec
CONSTANTS
  MaxSkills = 2
  MaxRules = 2
  MaxRulePaths = 2
  Layouts <- MCLayouts
  Globs <- MCGlobs
INVARIANTS
  ContextTypeOK
  ProjectFirst
  SkillsAsWritten
  NoSkillMissed
  
CHECK_DEADLOCK FALSE
