SPECIFICATION Spec
CONSTANT
    Bits <- FewBits
INVARIANTS
    ShownIsDriven
    InputIsTyped
