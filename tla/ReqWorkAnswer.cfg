SPECIFICATION Spec

CONSTANTS
  k1 = k1
  k2 = k2
  correctness = correctness
  Tiers <- Plan
  NoTier = NoTier
  Repo = {d1, d2}
  Reviewer = {correctness}
  Reflector = reflector
  Says <- Voices
  NoReport = NoReport
  Faults = {"drop"}

INVARIANTS
  QuestionIsAsked
