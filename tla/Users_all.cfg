\* The bootstrapped account and two more; three sessions, two requests in
\* flight, and a password for every account and one more to change.
CONSTANTS
    Root = Root
    User = {Root, u1, u2}
    Session = {s1, s2, s3}
    Request = {r1, r2}
    MaxPasswords = 4
SYMMETRY Symmetry
SPECIFICATION Spec
INVARIANTS OneSuperAdmin OnlyAdminsLogIn SessionsKnowThePassword
