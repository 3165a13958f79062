\* A field of 17 elements, packed elements of 4 bits, bytes and words of 2 bits,
\* JSON numbers of 2 bits, two milliseconds to a second.
CONSTANTS
  P = 17
  PackBits = 4
  Byte = 2
  Word = 2
  NatBits = 4
  TextMax = 2
  NotUtf8 = {3}
  Replacement <- MCReplacement
  Dated <- MCDated
  JsonBits = 2
  MsPerSec = 2
  Camel <- MCCamel
  GadgetField = 32771
  RawValues = {0, 1, 2, 3, 4, 7, 8, 15, 16}
SPECIFICATION MCSpec
PROPERTIES
  InputsAgree
  InputsExact
  LimbsExact
  SignaturesExact
CHECK_DEADLOCK FALSE
