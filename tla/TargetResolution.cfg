SPECIFICATION Spec
INVARIANTS
    TypeOK
    
    ReverseDnsYields
    
CHECK_DEADLOCK FALSE
