SPECIFICATION Spec
CONSTANTS
 Posts = {p1, p2}
 Names = {"a", "b"}
 Passwords = {1, 2}
 Roles <- RoleSets
 Titles = {1}
 Keys = {k1}
 MaxPosts = 3
 MaxRestarts = 1
 SavesOverlap = FALSE
 AnyFile = FALSE
 OldFiles = FALSE
 Meets = {1}
 Options = {0, 1}
 HeatCount = 4
 TestPostsOverlap = FALSE
 LateRegisters = FALSE
INVARIANTS AsSaid UsersSignIn TestMeetsAsAsked PageOfThisPass
CHECK_DEADLOCK FALSE
