SPECIFICATION Spec
CONSTANTS
  Technology = {"akamai-waf", "edr-s1", "other"}
  Adapters = {"akamai-waf", "edr-s1"}
INVARIANTS
  CapabilityTypeOK
  TranslatedIsJudged
  SecRuleNeverGuessed
  InferenceIsTruthful
PROPERTIES
  NoVerdictAfterSignal
  InvocationEnds
