--------------------------- MODULE MCUserAccounts ---------------------------
(***************************************************************************)
(* UserAccounts for TLC: one or two requests at a time.                    *)
(***************************************************************************)
EXTENDS UserAccounts, TLC

CONSTANTS r1, r2

OneRequest  == {r1}
TwoRequests == {r1, r2}

AllOps == {"invite", "resend", "register", "login", "fail", "link", "redeem", "edit",
           "expire", "unlock", "lock"}

IdentityOps == {"invite", "register", "login", "link", "redeem"}

LoginOps == IdentityOps \cup {"fail"}

OverlapOps == IdentityOps \cup {"fail", "edit"}

\* Once requests have overlapped, the properties that still say something are
\* about identities and failed logins: the links for passwords and extended
\* public keys, an admin's lock and a reset that was skipped are not explored
\* any further.
Telling ==
    contended =>
        ~adminLock /\ ~unreset /\ row.tok["xpub"] = Nil /\ row.tok["reset"] = Nil

MCSymmetry == Permutations(Requests)
=============================================================================
