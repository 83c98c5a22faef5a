--------------------------------- MODULE Panel ---------------------------------
(***************************************************************************)
(* The control plane's own store and the panel that writes it               *)
(* (src/cloud/cloud_auth.py, cloud_control.py): the owner's login, the other *)
(* users, the organizers and their relay keys, the server settings, and the *)
(* backup that is downloaded and restored.                                  *)
(*                                                                         *)
(* The settings and the login are read and written back as one dict         *)
(* (load_creds, save_creds), each in a transaction of its own, so a post    *)
(* that saves them is two steps; other posts write single rows.  A post     *)
(* with an image, or a restore, spends seconds between the two.             *)
(***************************************************************************)
EXTENDS Integers, FiniteSets

CONSTANTS
    Posts,       \* the panel posts that may be in progress at once
    Names,       \* login names
    Passwords,   \* the owner's first one is the least
    Roles,       \* sets of tabs a user may be given
    Titles,      \* what the Appearance tab may be set to
    Keys,        \* relay keys
    MaxPosts,    \* bound: posts and backups
    MaxRestarts, \* bound: restarts of the control plane
    SavesOverlap, \* BOOLEAN: another write may land while a post saves the dict
    AnyFile,     \* BOOLEAN: a backup may be taken once a rollout or test meets were started
    OldFiles     \* BOOLEAN: a file may be restored once a login was renamed or added

ASSUME PanelAssumption ==
    /\ Posts # {} /\ Names # {} /\ Passwords \subseteq Nat /\ 1 \in Passwords
    /\ \A r \in Roles : r \subseteq {"admin", "meets", "organizers", "appearance"} /\ r # {}
    /\ Titles \subseteq Nat
    /\ {MaxPosts, MaxRestarts} \subseteq Nat
    /\ {SavesOverlap, AnyFile, OldFiles} \subseteq BOOLEAN

VARIABLES
    owner,     \* the admin row: name and password
    users,     \* users[n]: the other users, or NoUser
    orgs,      \* orgs[k]: the organizers, or NoOrg
    settings,  \* the settings table
    post,      \* post[p]: a post in progress
    file,      \* the backup downloaded, or NoFile
    meant,     \* what the posts answered said last: the login, the settings
    answered,  \* answered[k]: the ids a relay without a meet_uid was given
    spent      \* what the bounds count

panelVars == <<owner, users, orgs, settings, post, file, meant, answered, spent>>

NoUser == [pw |-> 0, roles |-> {}]
NoOrg == [there |-> FALSE, active |-> FALSE, legacy |-> 0]
NoFile == [full |-> FALSE, orgs |-> [k \in {} |-> NoOrg], settings |-> [f \in {} |-> 0],
           owner |-> [name |-> "", pw |-> 0], users |-> [n \in {} |-> NoUser]]
Tabs == {"admin", "meets", "organizers", "appearance"}
NoRow == -1
Off == 0
On == 1
Running == 1
Stopped == 2
Done == 3
NoSettings == [title |-> NoRow, counting |-> NoRow, rollout |-> NoRow,
               wanted |-> NoRow, options |-> NoRow]
\* The settings the Appearance tab shows.
Shown == {"title", "counting"}
Idle == [kind |-> "none", creds |-> NoSettings, owner |-> [name |-> "", pw |-> 0], arg |-> 0]

\* expand_roles: "admin" implies the rest.
Expanded(roles) == IF "admin" \in roles THEN Tabs ELSE roles

\* verify_user: the tabs a name and password open; the owner's name is looked
\* at first.
SignIn(name, pw) ==
    IF name = owner.name THEN IF pw = owner.pw THEN Tabs ELSE {}
    ELSE IF users[name] # NoUser /\ pw = users[name].pw THEN Expanded(users[name].roles) ELSE {}

\* user_exists.
UserExists(name) == name = owner.name \/ users[name] # NoUser

\* require_role: somebody is signed in who may open the tab.
May(tab) == \E n \in Names, pw \in Passwords : tab \in SignIn(n, pw)

Savers == {"title", "counting", "login", "restore"}
Saving == \E p \in Posts : post[p].kind \in Savers
\* A write may land now: nobody is between load_creds and save_creds.
Clear == SavesOverlap \/ ~Saving

Begin(p, kind, tab, arg) ==
    /\ post[p] = Idle /\ Clear /\ May(tab)
    /\ kind \in Savers /\ ~SavesOverlap => \A q \in Posts : post[q] = Idle
    /\ spent.posts < MaxPosts
    /\ spent' = [spent EXCEPT !.posts = @ + 1]
    /\ post' = [post EXCEPT ![p] = [kind |-> kind, creds |-> settings, owner |-> owner, arg |-> arg]]

\* A post of one statement.
Posted(tab) ==
    /\ Clear /\ May(tab) /\ spent.posts < MaxPosts
    /\ spent' = [spent EXCEPT !.posts = @ + 1]

-----------------------------------------------------------------------------
(* Posts that save the dict: load_creds ... save_creds.                     *)

\* route_picker_appearance, set_analytics: the dict loaded.
LoadTitle(p, t) ==
    /\ Begin(p, "title", "appearance", t)
    /\ UNCHANGED <<owner, users, orgs, settings, file, meant, answered>>

LoadCounting(p, on) ==
    /\ Begin(p, "counting", "appearance", on)
    /\ UNCHANGED <<owner, users, orgs, settings, file, meant, answered>>

\* Mutant: the new name not looked up.
LoadLoginTaken(p, name, pw) ==
    /\ Begin(p, "login", "admin", [name |-> name, pw |-> pw])
    /\ UNCHANGED <<owner, users, orgs, settings, file, meant, answered>>

\* change_credentials by the owner: the password checked, the new name free.
LoadLogin(p, name, pw) ==
    /\ Begin(p, "login", "admin", [name |-> name, pw |-> pw])
    /\ name = owner.name \/ ~UserExists(name)
    /\ UNCHANGED <<owner, users, orgs, settings, file, meant, answered>>

\* The dict a post writes back.
Creds(p) ==
    LET d == post[p]
    IN  CASE d.kind = "title" -> [d.creds EXCEPT !.title = d.arg]
          [] d.kind = "counting" -> [d.creds EXCEPT !.counting = d.arg]
          [] OTHER -> d.creds

\* save_creds: exactly these settings.
SaveCreds(creds) == settings' = creds

\* save_creds, the login included: it was loaded with the rest.
Save(p) ==
    /\ post[p].kind \in {"title", "counting", "login"}
    /\ SaveCreds(Creds(p))
    /\ owner' = IF post[p].kind = "login" THEN post[p].arg ELSE post[p].owner
    /\ meant' = [meant EXCEPT !.settings.title = IF post[p].kind = "title" THEN post[p].arg ELSE @,
                              !.settings.counting = IF post[p].kind = "counting" THEN post[p].arg ELSE @,
                              !.owner = IF post[p].kind = "login" THEN post[p].arg ELSE @]
    /\ post' = [post EXCEPT ![p] = Idle]
    /\ UNCHANGED <<users, orgs, file, answered, spent>>

-----------------------------------------------------------------------------
(* The other users: _user_action.                                           *)

\* user_add, in two transactions: the name is free, then the row.
LoadUser(p, name, pw, roles) ==
    /\ Begin(p, "user_add", "admin", [name |-> name, pw |-> pw, roles |-> roles])
    /\ ~UserExists(name)
    /\ UNCHANGED <<owner, users, orgs, settings, file, meant, answered>>

AddUser(p) ==
    LET u == post[p].arg
    IN  /\ post[p].kind = "user_add"
        /\ post' = [post EXCEPT ![p] = Idle]
        /\ IF users[u.name] = NoUser
           THEN /\ users' = [users EXCEPT ![u.name] = [pw |-> u.pw, roles |-> u.roles]]
           ELSE UNCHANGED users
        /\ UNCHANGED <<owner, orgs, settings, file, meant, answered, spent>>

\* user_save, and change_credentials of another user: one row.
UpdateUser(name, pw, roles) ==
    /\ Posted("admin") /\ users[name] # NoUser
    /\ users' = [users EXCEPT ![name] = [pw |-> pw, roles |-> roles]]
    /\ UNCHANGED <<owner, orgs, settings, post, file, meant, answered>>

DeleteUser(name) ==
    /\ Posted("admin") /\ users[name] # NoUser
    /\ users' = [users EXCEPT ![name] = NoUser]
    /\ UNCHANGED <<owner, orgs, settings, post, file, meant, answered>>

-----------------------------------------------------------------------------
(* Organizers.                                                              *)

AddOrganizer(k) ==
    /\ Clear /\ May("organizers") /\ spent.posts < MaxPosts
    /\ ~orgs[k].there /\ k \notin spent.keys
    /\ spent' = [spent EXCEPT !.posts = @ + 1, !.keys = @ \cup {k}]
    /\ orgs' = [orgs EXCEPT ![k] = [NoOrg EXCEPT !.active = TRUE, !.there = TRUE]]
    /\ UNCHANGED <<owner, users, settings, post, file, meant, answered>>

Revoke(k) ==
    /\ Posted("organizers") /\ orgs[k].there
    /\ orgs' = [orgs EXCEPT ![k].active = FALSE]
    /\ UNCHANGED <<owner, users, settings, post, file, meant, answered>>

DeleteOrganizer(k) ==
    /\ Posted("organizers") /\ orgs[k].there
    /\ orgs' = [orgs EXCEPT ![k] = NoOrg]
    /\ answered' = [answered EXCEPT ![k] = {}]
    /\ UNCHANGED <<owner, users, settings, post, file, meant>>

\* The organizer's Pi asks where to publish, without a meet_uid: legacy_meet_id,
\* an id minted once.
Ask(k) ==
    /\ orgs[k].there /\ orgs[k].active
    /\ LET id == IF orgs[k].legacy # 0 THEN orgs[k].legacy ELSE 1 + Cardinality(spent.minted)
       IN  /\ orgs' = [orgs EXCEPT ![k].legacy = id]
           /\ answered' = [answered EXCEPT ![k] = @ \cup {id}]
           /\ spent' = [spent EXCEPT !.minted = @ \cup {id}]
           /\ Cardinality(spent'.minted) <= MaxPosts
    /\ UNCHANGED <<owner, users, settings, post, file, meant>>

-----------------------------------------------------------------------------
(* Backup and restore.                                                      *)

\* route_backup_keys: the organizers, every setting, and with ?full=1 the
\* login and the users.
Backup(full) ==
    /\ Posted("admin")
    /\ AnyFile \/ (settings.rollout = NoRow /\ settings.wanted = NoRow)
    /\ file' = [full |-> full, orgs |-> orgs, settings |-> settings,
                owner |-> IF full THEN owner ELSE NoFile.owner,
                users |-> IF full THEN users ELSE NoFile.users]
    /\ UNCHANGED <<owner, users, orgs, settings, post, meant, answered>>

\* restore_keys: an organizer of the file replaces the row, but for a legacy id
\* the file has not.
RestoredOrg(k) ==
    [file.orgs[k] EXCEPT !.legacy = IF file.orgs[k].legacy # 0 THEN file.orgs[k].legacy ELSE orgs[k].legacy]

Restore(p) ==
    /\ file # NoFile /\ Begin(p, "restore", "admin", 0)
    /\ OldFiles \/ ~file.full \/ owner.name = file.owner.name
    /\ orgs' = [k \in Keys |-> IF file.orgs[k].there THEN RestoredOrg(k) ELSE orgs[k]]
    /\ UNCHANGED <<owner, users, settings, file, meant, answered>>

\* Mutant: the file's settings instead of those loaded.
MergedWhole(creds) == file.settings

\* The file's settings over those loaded; a row the file has not stays.
Merged(creds) == [f \in DOMAIN creds |-> IF file.settings[f] = NoRow THEN creds[f] ELSE file.settings[f]]

RestoreSave(p) ==
    /\ post[p].kind = "restore"
    /\ SaveCreds(Merged(post[p].creds))
    /\ owner' = IF file.full THEN file.owner ELSE post[p].owner
    /\ users' = IF file.full
                THEN [n \in Names |-> IF file.users[n] # NoUser THEN file.users[n] ELSE users[n]]
                ELSE users
    /\ meant' = [settings |-> [f \in DOMAIN settings |->
                                  IF f \in Shown /\ file.settings[f] # NoRow THEN file.settings[f]
                                  ELSE meant.settings[f]],
                 owner |-> IF file.full THEN file.owner ELSE meant.owner]
    /\ post' = [post EXCEPT ![p] = Idle]
    /\ UNCHANGED <<orgs, file, answered, spent>>

-----------------------------------------------------------------------------
(* Rollouts, as far as their row of the settings goes; the control plane    *)
(* restarts.                                                                *)

StartRollout ==
    /\ Posted("admin") /\ settings.rollout # Running
    /\ settings' = [settings EXCEPT !.rollout = Running]
    /\ meant' = [meant EXCEPT !.settings.rollout = Running]
    /\ UNCHANGED <<owner, users, orgs, post, file, answered>>

StopRollout ==
    /\ Posted("admin") /\ settings.rollout = Running
    /\ settings' = [settings EXCEPT !.rollout = Stopped]
    /\ meant' = [meant EXCEPT !.settings.rollout = Stopped]
    /\ UNCHANGED <<owner, users, orgs, post, file, answered>>

\* The maintenance loop's advance_rollout, when the last node is done.
RolloutDone ==
    /\ Clear /\ settings.rollout = Running
    /\ settings' = [settings EXCEPT !.rollout = Done]
    /\ meant' = [meant EXCEPT !.settings.rollout = Done]
    /\ UNCHANGED <<owner, users, orgs, post, file, answered, spent>>

PanelInit ==
    /\ owner = [name |-> CHOOSE n \in Names : TRUE, pw |-> 1]
    /\ users = [n \in Names |-> NoUser] /\ orgs = [k \in Keys |-> NoOrg]
    /\ settings = NoSettings /\ post = [p \in Posts |-> Idle] /\ file = NoFile
    /\ meant = [owner |-> owner, settings |-> settings]
    /\ answered = [k \in Keys |-> {}]
    /\ spent = [posts |-> 0, restarts |-> 0, keys |-> {}, minted |-> {}]

PanelNext ==
    \/ \E p \in Posts :
          \/ \E t \in Titles : LoadTitle(p, t)
          \/ \E on \in {Off, On} : LoadCounting(p, on)
          \/ \E n \in Names, pw \in Passwords : LoadLogin(p, n, pw)
          \/ \E n \in Names, pw \in Passwords, r \in Roles : LoadUser(p, n, pw, r)
          \/ Save(p) \/ AddUser(p) \/ Restore(p) \/ RestoreSave(p)
    \/ \E n \in Names : DeleteUser(n) \/ \E pw \in Passwords, r \in Roles : UpdateUser(n, pw, r)
    \/ \E k \in Keys :
          \/ AddOrganizer(k) \/ Revoke(k) \/ DeleteOrganizer(k)
          \/ Ask(k)
    \/ \E full \in BOOLEAN : Backup(full)
    \/ StartRollout \/ StopRollout \/ RolloutDone

-----------------------------------------------------------------------------
(* Properties.                                                              *)

Answered == \A p \in Posts : post[p] = Idle

\* What a post answered for stays as it said until a later one is about the
\* same: a post changes what its form shows and no other setting, nor the
\* login (load_creds and save_creds of the whole dict; a restore brings back
\* the appearance and the counting, and the logins of a full backup).  And a
\* relay without a meet_uid publishes under one id for as long as its organizer
\* is there, whatever backup is restored (legacy_meet_id, COALESCE).
AsSaid ==
    /\ Answered => settings = meant.settings /\ owner = meant.owner
    /\ \A k \in Keys : Cardinality(answered[k]) <= 1

\* Every login signs in with its own password and opens its own tabs
\* (verify_user looks at the owner's name first).
UsersSignIn ==
    \A n \in Names : users[n] # NoUser => SignIn(n, users[n].pw) = Expanded(users[n].roles)
================================================================================
