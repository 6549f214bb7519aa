---------------------------- MODULE MCCertAgent ------------------------------
EXTENDS CertAgent

CONSTANTS r1, r2, k1, k2
=============================================================================
