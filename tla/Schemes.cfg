SPECIFICATION Spec

CONSTANTS
    Q = 5
    Hash <- MCHash
    P1 = 5
    Q1 = 11
    E = 3
    IdBits = 8
    N = 3
    Groups = {"bls12381", "ed25519", "rsa512"}
    Secrets = {0, 2, 3}
    Coeffs = {1, 3}
    Nonces = {1, 4}
    Messages = {2, 3, 10}
    Vs = {2, 5}
    Us = {2, 3, 5}

INVARIANTS
    TypeOK
    HonestAccepted
    AssembleRight
    ShareExact
    BelowThreshold

CHECK_DEADLOCK FALSE
