--------------------------- MODULE RecordsBase ---------------------------
(* What the manager's records share.  The components have no state in      *)
(* common, so the variables s1, s2 and so on are those of whichever        *)
(* component is in focus, and API keys have variables of their own.        *)
EXTENDS Naturals

CONSTANTS
    A, B, C, D,              \* pairs of interchangeable identities
    p1, p2, p3, p4, n1, n2, n3, n4, None

VARIABLES focus, s1, s2, s3, s4, s5, s6, s7, s8, s9, s10, s11, s12, s13, s14
=============================================================================
