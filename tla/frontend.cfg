SPECIFICATION Spec
CONSTANTS
    v1 = v1
    v2 = v2
    None = None
    Versions = {v1, v2}
    Troubles <- Mild
INVARIANTS TypeOK DistWhole NeverLost LastIsServed
PROPERTIES RecoveryRestores
