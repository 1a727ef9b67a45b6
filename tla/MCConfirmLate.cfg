SPECIFICATION Spec
CONSTANTS
  Runs = {r1, r2, r3}
  Cards = {k1, k2}
  None = None
PROPERTY
  LateSignatureHarmless
