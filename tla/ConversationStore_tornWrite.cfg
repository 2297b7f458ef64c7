SPECIFICATION Spec
CONSTANTS
  Savers = {s1, s2}
  MaxVersion = 4
  Environments = {{"tornWrite"}}
PROPERTIES AlwaysSurvives
