CONSTANTS
  i1 = i1
  i2 = i2
  r1 = r1
  r2 = r2
  r3 = r3
  a1 = a1
  a2 = a2
  Instances = {i1, i2}
  Requests = {r1, r2, r3}
  InstanceOf <- MCInstanceOf
  Members = {m1}
  PolicySigner = PolicySigner
  Keys = {k1, k2, k3}
  Agents = {a1, a2}
  InitialPolicy <- MCInitialPolicy
  None = None
  MaxCrashes = 1
SYMMETRY MCSymmetry
SPECIFICATION Spec
INVARIANTS
  TypeOK
  ImportedIsReadable
  OneKeyPerName
  ListedIsWhole
  PolicyVerifies
PROPERTY
  ImplementsKeyRegister
