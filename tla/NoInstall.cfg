SPECIFICATION Spec
CONSTANTS
  Default = default
  Steam = steam
  Override = override
  Relative = relative
  None = None
  archive = archive
  v1 = v1
  v2 = v2
  Archives = {archive}
  Versions = {v1, v2}
  Drive <- Drives
  Held <- HeldNames
  TwoBytes <- ReadNames
  Read <- NamesRead
  Template <- Manifest
  LangFiles <- Languages
  Texts <- FolderTexts
  TemplateFiles <- TemplateData
PROPERTIES NoInstallIsTrue
