SPECIFICATION Spec
CONSTANTS
  c1 = c1
  c2 = c2
  c3 = c3
  blog = blog
  shop = shop
  static = static
  php = php
  broken = broken
  Nothing = Nothing
  Call <- MCCall
  Site <- MCSite
  Content <- MCContent
  Bad <- MCBad
  Php <- MCPhp
  OneWriter = TRUE
  MaxCrashes = 0
CHECK_DEADLOCK FALSE
PROPERTIES OrphanHasNoFile
