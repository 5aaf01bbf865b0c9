CONSTANTS
  Http = {t1, t2}
  Home = home
  Annex = annex
  Bot = bot
  Spare = spare
  Dock = dock
  Flow = flow
  Skill = skill
  Scene = {home, annex, attic}
  Robot = {bot, spare, rookie}
  Station = {dock, desk}
  Workflow = {flow, other}
  Capability = {skill, knack}
  Unused = Unused
  Deleted = Deleted
  None = None
  Requests = 3
SPECIFICATION Spec
INVARIANTS OneScenePerRobot PlacesAgree NewestIsOnlyDraft SaveKept
PROPERTIES PublishedFrozen
SYMMETRY ThreadSymmetry
CHECK_DEADLOCK FALSE
