SPECIFICATION Spec
CONSTANTS
  Given <- GivenHere
  MaxWord = 3
INVARIANTS
  LookupsPreserved
  Delivered
  AcceptedIsUsable
  PackageRows
