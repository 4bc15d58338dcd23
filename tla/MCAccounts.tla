---------------------------- MODULE MCAccounts ----------------------------
(***************************************************************************)
(* Model values for Accounts: two administrators, one new username.       *)
(***************************************************************************)
EXTENDS Accounts, TLC

CONSTANTS r1, r2

SeedRow  == NewRow("admin", "p0", "admin")
OtherRow == NewRow("b", "p0", "admin")

Names  == {[name |-> "c", pw |-> "p0", role |-> "user"]}
Logins == {[name |-> "b", old |-> "p0", pw |-> "p0"], [name |-> "b", old |-> "p0", pw |-> "p1"]}

Body(pw, role, active) == [pw |-> pw, role |-> role, active |-> active]
Patches == {Body("p1", "-", "-"), Body("p1", "root", "-"), Body("-", "user", "-"),
            Body("-", "-", "on"), Body("-", "-", "off")}

Mirror == Permutations(Request)

=============================================================================
