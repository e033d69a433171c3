CONSTANTS
  Thread = {t1, t2}
  Feature <- AnyFeature
  Cpu <- MCCpu
  Scalar <- MCScalar
  MaxResets = 1
  MaxCalls = 3
SPECIFICATION Spec
SYMMETRY MCSymmetry
VIEW MCView
INVARIANTS
  TypeOK
  NoIllegalInstruction
  SecretsErased
  AgreementHolds
