CONSTANTS
  t1 = t1
  t2 = t2
  s1 = s1
  s2 = s2
  s3 = s3
  s4 = s4
  s5 = s5
  Terminals = {t1, t2}
  PROMPT_ROLES <- MCRoles
  Plans <- MCPlans
  Mine <- MCMine
  MAX_EDITS = 1
  Services = {s1, s2, s3, s4, s5}
  NameOf <- MCNameOf
  HostOf <- MCHostOf
  Malformed = {s5}
  PaperGuards = {s1, s2, s3, s5}
  VersionOf <- MCVersionOf
  Preferences <- MCPreferences
  NoPreference = ""
  WINDOW = 2
SPECIFICATION CommandSpec
INVARIANT ChosenFromAll
PROPERTY EditsKept
PROPERTY PromptsAuditable
PROPERTY CommandsEnd
CHECK_DEADLOCK FALSE
