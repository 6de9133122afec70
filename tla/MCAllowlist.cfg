SPECIFICATION Spec
CONSTANTS
    sysprog = sysprog
    solora = solora
    jupiter = jupiter
    orca = orca
    spl = spl
    memo = memo
    Programs <- MCPrograms
    SystemProgram <- sysprog
    Solora <- solora
    MaxAllowed = 4
INVARIANTS
    TypeOK
    AllowlistWellFormed
PROPERTY
    ImplementsAllowedSet
