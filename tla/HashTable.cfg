SPECIFICATION TableSpec
CONSTANTS
  k1 = k1  k2 = k2  k3 = k3  k4 = k4  s1 = s1  s2 = s2  s3 = s3  v1 = v1  v2 = v2
  NULL = NULL
  Keys <- FourKeys
  Strings <- ThreeStrings
  Str <- StrOfFour
  Hash <- SameHash
  UsesKeyEquals = TRUE
  Values <- TwoValues
  Size = 2
  Deletes = FALSE
  MaxTables = 2
PROPERTIES TableHolds ImplementsStore
