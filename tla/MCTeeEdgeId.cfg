\* Names with an arrow in them.
SPECIFICATION Spec
CONSTANTS
  Name <- ArrowName
  Type <- MCType
PROPERTY CreatedMeansNew
