------------------------------ MODULE MCAccounts ------------------------------
(* A small instance of Accounts: one account with a session and a reset    *)
(* token to begin with, room for a second one.                             *)
EXTENDS Accounts, TLC

CONSTANTS u1, u2, e1, e2, p1, p2, s1, s2, t1, t2, r1, r2, k1, k2, k3

MCFirst == [user |-> u1, email |-> e1, password |-> p1, session |-> s1, token |-> t1]

Draft(start, end, every) ==
  [quiet |-> TRUE, start |-> start, end |-> end, zone |-> 60, every |-> every]

(* Night hours by default, the whole day, hours of the day, and a body     *)
(* that does not validate.                                                 *)
MCDrafts == {Draft(Absent, Absent, 0), Draft(480, 480, 5), Draft(540, 1020, Day),
             Draft(Malformed, 480, 60)}

MCMoments == {0, 419, 420, 480, 959, 960, 1259, 1260, 1439}

Interchangeable == Permutations({r1, r2}) \cup Permutations({k1, k2, k3})
=============================================================================
