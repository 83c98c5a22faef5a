-------------------------- MODULE ControlPlaneProofs --------------------------
(***************************************************************************)
(* Proofs about the cloud's own services, with none of the cases the code  *)
(* leaves open: about ControlPlane, for any posts, logins, keys and test   *)
(* meets, and about Rollout, for any nodes, versions, rollouts, outages    *)
(* and forgotten nodes.                                                    *)
(***************************************************************************)
EXTENDS ControlPlane, Rollout, FiniteSetTheorems, WellFoundedInduction, TLAPS

\* None of the cases the code leaves open (README, "Cases").
Serialised == ~SavesOverlap /\ ~AnyFile /\ ~OldFiles /\ ~TestPostsOverlap

-----------------------------------------------------------------------------
(* The inductive invariant.                                                *)

Logins == [name : Names, pw : Passwords]
Users == [pw : Nat, roles : SUBSET Tabs]
Organizers == [there : BOOLEAN, active : BOOLEAN, legacy : Nat]
Values == Nat \cup {NoRow}
Settings == [title : Values, counting : Values, rollout : Values, wanted : Values,
             options : Values]
Kinds == Savers \cup TestPosts \cup {"none", "user_add"}

\* A post, whose argument is its form.
PostTyped(d) ==
    /\ d = [kind |-> d.kind, creds |-> d.creds, owner |-> d.owner, arg |-> d.arg]
    /\ d.kind \in Kinds
    /\ d.kind \in {"title", "counting"} => d.arg \in Nat
    /\ d.kind = "login" => d.arg \in Logins
    /\ d.kind = "user_add" => d.arg.name \in Names /\ d.arg.pw \in Passwords /\ d.arg.roles \in SUBSET Tabs
    /\ d.kind \in {"start", "wanted", "options"} => d.arg.count \in Meets /\ d.arg.opts \in Options

PanelTyped ==
    /\ owner \in Logins /\ users \in [Names -> Users] /\ orgs \in [Keys -> Organizers]
    /\ settings \in Settings
    /\ post = [p \in Posts |-> post[p]] /\ \A p \in Posts : PostTyped(post[p])
    /\ spent \in [posts : Nat, restarts : Nat, keys : SUBSET Keys, minted : SUBSET Nat]
    /\ IsFiniteSet(spent.minted)
    /\ answered \in [Keys -> SUBSET Nat]

\* A post that saves the dict runs alone, and what it loaded is what is stored.
SavesAlone ==
    \A p \in Posts : post[p].kind \in Savers =>
        /\ \A q \in Posts : q # p => post[q] = Idle
        /\ post[p].creds = settings /\ post[p].owner = owner

\* What each post found when it looked is still so.
NamesFree ==
    /\ users[owner.name] = NoUser
    /\ \A p \in Posts :
          /\ post[p].kind = "login" => \/ post[p].arg.name = owner.name
                                       \/ users[post[p].arg.name] = NoUser
          /\ post[p].kind = "user_add" => post[p].arg.name # owner.name
          /\ post[p].kind = "restore" => /\ file # NoFile
                                         /\ file.full => file.owner.name = owner.name

\* A Start or Stop of the test meets runs alone among them.
TestsAlone ==
    /\ \A p, q \in Posts : post[p].kind \in TestPosts /\ post[q].kind \in TestPosts => p = q
    /\ \A p \in Posts :
          /\ post[p].kind \in {"wanted", "options"} => runner.opts = post[p].arg.opts
          /\ post[p].kind = "options" => settings.wanted # NoRow
    /\ settings.options # NoRow => settings.wanted # NoRow

\* A backup taken before any rollout or test meet.
FileEarly ==
    file # NoFile =>
        /\ file.settings \in Settings /\ file.full \in BOOLEAN
        /\ file.settings.rollout = NoRow /\ file.settings.wanted = NoRow
        /\ file.settings.options = NoRow
        /\ file.full => /\ file.owner \in Logins /\ file.users \in [Names -> Users]
                        /\ file.users[file.owner.name] = NoUser

\* An organizer's id is minted once, and no backup holds another.
OneId ==
    \A k \in Keys :
        /\ answered[k] \subseteq {orgs[k].legacy}
        /\ orgs[k].legacy = 0 => answered[k] = {}
        /\ orgs[k].there => k \in spent.keys
        /\ ~orgs[k].there => answered[k] = {}
        /\ file # NoFile =>
             /\ file.orgs[k] \in Organizers
             /\ file.orgs[k].there => k \in spent.keys
             /\ file.orgs[k].there /\ orgs[k].there /\ file.orgs[k].legacy # 0
                  => orgs[k].legacy = file.orgs[k].legacy

\* What was answered for is what is stored.
Said == meant = [owner |-> owner, settings |-> settings]

IInv == /\ PanelTyped /\ SavesAlone /\ NamesFree /\ TestsAlone /\ FileEarly
        /\ OneId /\ Said

-----------------------------------------------------------------------------
(* The initial state, and steps that leave the panel's store alone.        *)

LEMMA IdleIsIdle == Idle.kind = "none" /\ "none" \notin Savers \cup TestPosts
  BY DEF Idle, Savers, TestPosts

\* While a post saves, every other one is idle.
LEMMA Quiet ==
  ASSUME IInv, NEW p \in Posts, post[p].kind \notin Savers \cup {"none"}
  PROVE  \A q \in Posts : post[q].kind \notin Savers
  BY IdleIsIdle DEF IInv, SavesAlone

LEMMA InitIInv == Init => IInv
<1> SUFFICES ASSUME Init PROVE IInv OBVIOUS
<1> USE PanelAssumption DEF Init, PanelInit, TestInit
<1>1. PanelTyped
  <2>1. owner \in Logins
    BY DEF Logins
  <2>2. users \in [Names -> Users] /\ orgs \in [Keys -> Organizers] /\ settings \in Settings
    BY DEF Users, NoUser, Organizers, NoOrg, Settings, NoSettings, Values, NoRow
  <2>3. \A p \in Posts : PostTyped(post[p])
    BY DEF PostTyped, Idle, Kinds
  <2>4. IsFiniteSet(spent.minted)
    BY FS_EmptySet
  <2> QED BY <2>1, <2>2, <2>3, <2>4 DEF PanelTyped
<1>2. SavesAlone /\ NamesFree /\ TestsAlone /\ FileEarly /\ Said
  BY DEF SavesAlone, NamesFree, TestsAlone, FileEarly, Said, Idle, Savers, TestPosts,
         Logins, NoSettings
<1>3. OneId
  BY DEF OneId, NoOrg
<1> QED BY <1>1, <1>2, <1>3 DEF IInv

LEMMA Untouched ==
  ASSUME IInv, UNCHANGED panelVars, UNCHANGED runner PROVE IInv'
  BY DEF IInv, panelVars, PanelTyped, SavesAlone, NamesFree, TestsAlone, FileEarly, OneId,
         Said, PostTyped

-----------------------------------------------------------------------------
(* Posts in two steps.                                                     *)

\* A post that begins: nobody saves meanwhile, and a saver finds nobody at all.
LEMMA Begins ==
  ASSUME IInv, Serialised, NEW p \in Posts, NEW kind \in Savers \cup {"user_add"}, NEW tab, NEW arg,
         Begin(p, kind, tab, arg),
         PostTyped([kind |-> kind, creds |-> settings, owner |-> owner, arg |-> arg])
  PROVE  /\ post' = [post EXCEPT ![p] = [kind |-> kind, creds |-> settings, owner |-> owner,
                                         arg |-> arg]]
         /\ post' = [q \in Posts |-> post'[q]] /\ \A q \in Posts : PostTyped(post'[q])
         /\ spent' \in [posts : Nat, restarts : Nat, keys : SUBSET Keys, minted : SUBSET Nat]
         /\ spent'.keys = spent.keys /\ spent'.minted = spent.minted
         /\ \A q \in Posts : post[q].kind \notin Savers
         /\ kind \in Savers => \A q \in Posts : post[q] = Idle
<1> USE DEF IInv, Serialised, Begin, Clear, Saving
<1>1. post = [q \in Posts |-> post[q]] /\ \A q \in Posts : PostTyped(post[q])
  BY DEF PanelTyped
<1>2. spent \in [posts : Nat, restarts : Nat, keys : SUBSET Keys, minted : SUBSET Nat]
  BY DEF PanelTyped
<1> QED BY <1>1, <1>2

\* ... which changes nothing else, keeps the invariant.
LEMMA BeginKeeps ==
  ASSUME IInv, Serialised, NEW p \in Posts, NEW kind \in Savers \cup {"user_add"}, NEW tab, NEW arg,
         Begin(p, kind, tab, arg),
         PostTyped([kind |-> kind, creds |-> settings, owner |-> owner, arg |-> arg]),
         UNCHANGED <<owner, users, settings, file, meant, answered, runner>>,
         orgs' \in [Keys -> Organizers], OneId',
         kind = "login" => arg.name = owner.name \/ users[arg.name] = NoUser,
         kind = "user_add" => arg.name # owner.name,
         kind = "restore" => file # NoFile /\ (file.full => file.owner.name = owner.name)
  PROVE  IInv'
<1> DEFINE new == [kind |-> kind, creds |-> settings, owner |-> owner, arg |-> arg]
<1>1. /\ post' = [post EXCEPT ![p] = new]
      /\ post' = [q \in Posts |-> post'[q]] /\ \A q \in Posts : PostTyped(post'[q])
      /\ spent' \in [posts : Nat, restarts : Nat, keys : SUBSET Keys, minted : SUBSET Nat]
      /\ spent'.keys = spent.keys /\ spent'.minted = spent.minted
      /\ \A q \in Posts : post[q].kind \notin Savers
      /\ kind \in Savers => \A q \in Posts : post[q] = Idle
  BY Begins
<1>2. \A q \in Posts : post'[q] = IF q = p THEN new ELSE post[q]
  BY <1>1 DEF IInv, PanelTyped
<1>3. kind \notin TestPosts /\ "user_add" \notin Savers
  BY DEF TestPosts, Savers
<1>4. PanelTyped'
  BY <1>1 DEF IInv, PanelTyped
<1>5. SavesAlone'
  BY <1>1, <1>2, <1>3 DEF SavesAlone
<1>6. NamesFree'
  BY <1>2 DEF IInv, NamesFree
<1>7. TestsAlone'
  BY <1>2, <1>3 DEF IInv, TestsAlone, TestPosts
<1>8. FileEarly' /\ Said'
  BY DEF IInv, FileEarly, Said
<1> QED BY <1>4, <1>5, <1>6, <1>7, <1>8 DEF IInv

LEMMA LoadKeeps ==
  ASSUME IInv, Serialised, NEW p \in Posts,
         \/ \E t \in Titles : LoadTitle(p, t)
         \/ \E on \in {Off, On} : LoadCounting(p, on)
         \/ \E n \in Names, pw \in Passwords : LoadLogin(p, n, pw)
         \/ \E n \in Names, pw \in Passwords, r \in Roles : LoadUser(p, n, pw, r),
         UNCHANGED runner
  PROVE  IInv'
<1> USE PanelAssumption DEF PostTyped, Kinds, Savers
<1>0. ASSUME NEW kind \in Savers \cup {"user_add"}, NEW tab, NEW arg, Begin(p, kind, tab, arg),
             UNCHANGED <<orgs, answered, file>>
      PROVE  orgs' \in [Keys -> Organizers] /\ OneId'
  BY <1>0 DEF IInv, PanelTyped, OneId, Begin
<1>1. ASSUME NEW t \in Titles, LoadTitle(p, t) PROVE IInv'
  BY <1>0, <1>1, BeginKeeps DEF LoadTitle
<1>2. ASSUME NEW on \in {Off, On}, LoadCounting(p, on) PROVE IInv'
  BY <1>0, <1>2, BeginKeeps DEF LoadCounting, Off, On
<1>3. ASSUME NEW n \in Names, NEW pw \in Passwords, LoadLogin(p, n, pw) PROVE IInv'
  BY <1>0, <1>3, BeginKeeps DEF LoadLogin, Logins, UserExists
<1>4. ASSUME NEW n \in Names, NEW pw \in Passwords, NEW r \in Roles, LoadUser(p, n, pw, r)
      PROVE  IInv'
  <2>1. r \in SUBSET Tabs
    BY DEF Tabs
  <2> QED BY <1>0, <1>4, <2>1, BeginKeeps DEF LoadUser, UserExists
<1> QED BY <1>1, <1>2, <1>3, <1>4

LEMMA RestoreKeeps ==
  ASSUME IInv, Serialised, NEW p \in Posts, Restore(p), UNCHANGED runner PROVE IInv'
<1> USE DEF Restore
<1>1. /\ PostTyped([kind |-> "restore", creds |-> settings, owner |-> owner, arg |-> 0])
      /\ "restore" \in Savers
  BY DEF PostTyped, Kinds, Savers
<1>2. \A k \in Keys : RestoredOrg(k) = [there |-> file.orgs[k].there, active |-> file.orgs[k].active,
           legacy |-> IF file.orgs[k].legacy # 0 THEN file.orgs[k].legacy ELSE orgs[k].legacy]
  BY DEF RestoredOrg, IInv, OneId, Organizers
<1>3. orgs' \in [Keys -> Organizers]
  BY <1>2 DEF IInv, PanelTyped, OneId, Organizers
<1>4. spent'.keys = spent.keys
  BY DEF Begin, IInv, PanelTyped
<1>5. OneId'
  <2>1. SUFFICES ASSUME NEW k \in Keys PROVE OneId!(k)'
    BY DEF OneId
  <2> QED BY <1>2, <1>3, <1>4 DEF IInv, OneId, PanelTyped, Organizers
<1>6. file.full => file.owner.name = owner.name
  BY DEF Serialised
<1> QED BY <1>1, <1>3, <1>5, <1>6, BeginKeeps

\* A post that ends leaves the others as they were.
LEMMA Ends ==
  ASSUME IInv, NEW p \in Posts, post' = [post EXCEPT ![p] = Idle]
  PROVE  /\ post' = [q \in Posts |-> post'[q]] /\ \A q \in Posts : PostTyped(post'[q])
         /\ \A q \in Posts : post'[q] = IF q = p THEN Idle ELSE post[q]
<1>1. PostTyped(Idle)
  BY DEF PostTyped, Idle, Kinds
<1> QED BY <1>1 DEF IInv, PanelTyped

LEMMA SaveKeeps ==
  ASSUME IInv, NEW p \in Posts, Save(p), UNCHANGED runner PROVE IInv'
<1>1. /\ post' = [q \in Posts |-> post'[q]] /\ \A q \in Posts : PostTyped(post'[q])
      /\ \A q \in Posts : post'[q] = Idle
  BY Ends DEF IInv, SavesAlone, Savers, Save
<1>2. post[p].creds = settings /\ post[p].owner = owner /\ PostTyped(post[p])
  BY DEF IInv, SavesAlone, Savers, PanelTyped, Save
<1>3. settings' = CASE post[p].kind = "title" -> [settings EXCEPT !.title = post[p].arg]
                    [] post[p].kind = "counting" -> [settings EXCEPT !.counting = post[p].arg]
                    [] OTHER -> settings
  BY <1>2 DEF Creds, Save, SaveCreds
<1>4. settings' \in Settings /\ settings'.wanted = settings.wanted /\ settings'.options = settings.options
  BY <1>2, <1>3 DEF IInv, PanelTyped, Settings, Values, PostTyped
<1>5. /\ owner' = IF post[p].kind = "login" THEN post[p].arg ELSE owner
      /\ UNCHANGED <<users, orgs, file, answered, spent>>
  BY <1>2 DEF Save
<1>6. owner' \in Logins /\ users'[owner'.name] = NoUser
  BY <1>2, <1>5 DEF IInv, PanelTyped, PostTyped, NamesFree
<1>7. PanelTyped'
  BY <1>1, <1>4, <1>5, <1>6 DEF IInv, PanelTyped
<1>8. SavesAlone' /\ TestsAlone' /\ NamesFree'
  BY <1>1, <1>4, <1>6, IdleIsIdle DEF IInv, SavesAlone, TestsAlone, NamesFree
<1>9. Said'
  <2>1. CASE post[p].kind = "title"
    BY <2>1, <1>2, <1>3 DEF IInv, Said, PanelTyped, Settings, Save
  <2>2. CASE post[p].kind = "counting"
    BY <2>2, <1>2, <1>3 DEF IInv, Said, PanelTyped, Settings, Save
  <2>3. CASE post[p].kind = "login"
    BY <2>3, <1>2, <1>3 DEF IInv, Said, PanelTyped, Settings, Save
  <2> QED BY <2>1, <2>2, <2>3 DEF Save
<1>10. FileEarly' /\ OneId'
  BY <1>5 DEF IInv, FileEarly, OneId
<1> QED BY <1>7, <1>8, <1>9, <1>10 DEF IInv

-----------------------------------------------------------------------------
(* Posts of one statement, and the relay's question.                       *)

\* A write of the users' or the organizers' rows.
LEMMA AddUserKeeps ==
  ASSUME IInv, NEW p \in Posts, AddUser(p), UNCHANGED runner PROVE IInv'
<1> DEFINE u == post[p].arg
<1>1. /\ post' = [q \in Posts |-> post'[q]] /\ \A q \in Posts : PostTyped(post'[q])
      /\ \A q \in Posts : post'[q] = IF q = p THEN Idle ELSE post[q]
  BY Ends DEF AddUser
<1>2. /\ post[p].kind = "user_add"
      /\ users' = users \/ users' = [users EXCEPT ![u.name] = [pw |-> u.pw, roles |-> u.roles]]
      /\ UNCHANGED <<owner, orgs, settings, file, meant, answered, spent>>
  BY DEF AddUser
<1>3. \A q \in Posts : post[q].kind \notin Savers
  BY <1>2, Quiet DEF Savers
<1>4. u.name \in Names /\ u.pw \in Nat /\ u.roles \in SUBSET Tabs /\ u.name # owner.name
  BY <1>2, PanelAssumption DEF IInv, PanelTyped, PostTyped, NamesFree
<1>5. users' \in [Names -> Users] /\ users'[owner.name] = NoUser
  <2>1. [pw |-> u.pw, roles |-> u.roles] \in Users
    BY <1>4 DEF Users
  <2>2. users \in [Names -> Users] /\ owner.name \in Names /\ users[owner.name] = NoUser
    BY DEF IInv, PanelTyped, NamesFree, Logins
  <2> HIDE DEF u
  <2> QED BY <1>2, <1>4, <2>1, <2>2
<1>6. PanelTyped'
  BY <1>1, <1>2, <1>5 DEF IInv, PanelTyped
<1>7. SavesAlone' /\ TestsAlone' /\ NamesFree'
  BY <1>1, <1>2, <1>3, <1>5, IdleIsIdle DEF IInv, SavesAlone, TestsAlone, NamesFree, Savers
<1>8. FileEarly' /\ OneId' /\ Said'
  BY <1>2 DEF IInv, FileEarly, OneId, Said
<1> QED BY <1>6, <1>7, <1>8 DEF IInv

\* What every step that leaves the posts, the login and the settings keeps.
LEMMA RowKeeps ==
  ASSUME IInv, ~Saving, UNCHANGED <<owner, settings, post, meant, runner>>,
         spent' \in [posts : Nat, restarts : Nat, keys : SUBSET Keys, minted : SUBSET Nat],
         spent'.minted = spent.minted,
         users' \in [Names -> Users], users'[owner.name] = NoUser,
         orgs' \in [Keys -> Organizers], answered' \in [Keys -> SUBSET Nat],
         OneId', FileEarly'
  PROVE  IInv'
<1>1. \A q \in Posts : post'[q].kind \notin Savers
  BY DEF Saving
<1>2. PanelTyped'
  BY DEF IInv, PanelTyped
<1>3. SavesAlone' /\ TestsAlone' /\ Said'
  BY <1>1 DEF IInv, SavesAlone, TestsAlone, Said
<1>4. NamesFree'
  BY <1>1 DEF IInv, NamesFree, Savers
<1> QED BY <1>2, <1>3, <1>4 DEF IInv

LEMMA UserKeeps ==
  ASSUME IInv, Serialised, UNCHANGED runner, NEW n \in Names,
         \/ \E pw \in Passwords, r \in Roles : UpdateUser(n, pw, r)
         \/ DeleteUser(n)
  PROVE  IInv'
<1>1. /\ ~Saving /\ users[n] # NoUser
      /\ UNCHANGED <<owner, orgs, settings, post, file, meant, answered>>
      /\ spent' = [spent EXCEPT !.posts = @ + 1]
  BY DEF Serialised, UpdateUser, DeleteUser, Posted, Clear
<1>2. PICK u \in Users : users' = [users EXCEPT ![n] = u]
  <2>1. ASSUME NEW pw \in Passwords, NEW r \in Roles, UpdateUser(n, pw, r)
        PROVE  \E u \in Users : users' = [users EXCEPT ![n] = u]
    <3>1. [pw |-> pw, roles |-> r] \in Users
      BY PanelAssumption DEF Users, Tabs
    <3> QED BY <2>1, <3>1 DEF UpdateUser
  <2>2. ASSUME DeleteUser(n) PROVE \E u \in Users : users' = [users EXCEPT ![n] = u]
    <3>1. NoUser \in Users
      BY DEF Users, NoUser
    <3> QED BY <2>2, <3>1 DEF DeleteUser
  <2> QED BY <2>1, <2>2
<1>3. n # owner.name
  BY <1>1 DEF IInv, NamesFree
<1>4. users' \in [Names -> Users] /\ users'[owner.name] = NoUser
  BY <1>2, <1>3 DEF IInv, PanelTyped, NamesFree, Logins
<1>5. /\ spent' \in [posts : Nat, restarts : Nat, keys : SUBSET Keys, minted : SUBSET Nat]
      /\ spent'.minted = spent.minted /\ spent'.keys = spent.keys
  BY <1>1 DEF IInv, PanelTyped
<1>6. orgs' \in [Keys -> Organizers] /\ answered' \in [Keys -> SUBSET Nat] /\ OneId' /\ FileEarly'
  BY <1>1, <1>5 DEF IInv, PanelTyped, OneId, FileEarly
<1> QED BY <1>1, <1>4, <1>5, <1>6, RowKeeps

LEMMA OrganizerKeeps ==
  ASSUME IInv, Serialised, UNCHANGED runner, NEW k \in Keys,
         AddOrganizer(k) \/ Revoke(k) \/ DeleteOrganizer(k)
  PROVE  IInv'
<1>1. /\ ~Saving
      /\ UNCHANGED <<owner, users, settings, post, file, meant>>
  BY DEF Serialised, AddOrganizer, Revoke, DeleteOrganizer, Posted, Clear
<1>2. /\ spent' \in [posts : Nat, restarts : Nat, keys : SUBSET Keys, minted : SUBSET Nat]
      /\ spent'.minted = spent.minted /\ spent.keys \subseteq spent'.keys
      /\ AddOrganizer(k) => k \in spent'.keys
  <2>1. spent \in [posts : Nat, restarts : Nat, keys : SUBSET Keys, minted : SUBSET Nat]
    BY DEF IInv, PanelTyped
  <2>2. CASE spent' = [spent EXCEPT !.posts = @ + 1] /\ ~AddOrganizer(k)
    BY <2>1, <2>2
  <2>3. CASE spent' = [spent EXCEPT !.posts = @ + 1, !.keys = @ \cup {k}]
    <3> DEFINE once == [spent EXCEPT !.posts = @ + 1]
    <3>1. /\ once \in [posts : Nat, restarts : Nat, keys : SUBSET Keys, minted : SUBSET Nat]
          /\ once.keys = spent.keys /\ once.minted = spent.minted
      BY <2>1
    <3>2. spent' = [once EXCEPT !.keys = spent.keys \cup {k}]
      BY <2>3
    <3> HIDE DEF once
    <3> QED BY <2>1, <3>1, <3>2
  <2> QED BY <2>2, <2>3 DEF AddOrganizer, Revoke, DeleteOrganizer, Posted
<1>3. orgs \in [Keys -> Organizers] /\ answered \in [Keys -> SUBSET Nat]
  BY DEF IInv, PanelTyped
<1>4. users' \in [Names -> Users] /\ users'[owner.name] = NoUser /\ FileEarly'
  BY <1>1 DEF IInv, PanelTyped, NamesFree, FileEarly
<1>5. ASSUME NEW o \in Organizers, NEW a \in {{}, answered[k]},
             orgs' = [orgs EXCEPT ![k] = o], answered' = [answered EXCEPT ![k] = a],
             o.legacy \in {0, orgs[k].legacy}, o.legacy # orgs[k].legacy => a = {},
             ~o.there => a = {}, o.there => k \in spent'.keys,
             \/ o.legacy = orgs[k].legacy /\ (o.there => orgs[k].there)
             \/ ~o.there
             \/ k \notin spent.keys
      PROVE  IInv'
  <2>1. orgs' \in [Keys -> Organizers] /\ answered' \in [Keys -> SUBSET Nat]
    BY <1>3, <1>5
  <2>2. OneId'
    BY <1>1, <1>2, <1>3, <1>5 DEF IInv, OneId, Organizers
  <2> QED BY <1>1, <1>2, <1>4, <2>1, <2>2, RowKeeps
<1>6. CASE AddOrganizer(k)
  <2> DEFINE o == [NoOrg EXCEPT !.active = TRUE, !.there = TRUE]
  <2>1. o \in Organizers /\ o.legacy = 0
    BY DEF NoOrg, Organizers
  <2>2. /\ orgs' = [orgs EXCEPT ![k] = o] /\ k \notin spent.keys
        /\ answered' = [answered EXCEPT ![k] = answered[k]] /\ answered[k] = {}
    BY <1>3, <1>6 DEF AddOrganizer, IInv, OneId
  <2> HIDE DEF o
  <2> QED BY <1>2, <1>5, <1>6, <2>1, <2>2
<1>7. CASE Revoke(k)
  <2> DEFINE o == [orgs[k] EXCEPT !.active = FALSE]
  <2>1. o \in Organizers /\ o.legacy = orgs[k].legacy
    BY <1>3 DEF Organizers
  <2>2. /\ orgs' = [orgs EXCEPT ![k] = o] /\ orgs[k].there /\ k \in spent'.keys
        /\ answered' = [answered EXCEPT ![k] = answered[k]]
    BY <1>2, <1>3, <1>7 DEF Revoke, IInv, OneId
  <2>3. o.there
    BY <1>3, <2>2 DEF Organizers
  <2> HIDE DEF o
  <2> QED BY <1>5, <2>1, <2>2, <2>3
<1>8. CASE DeleteOrganizer(k)
  <2>1. NoOrg = [there |-> FALSE, active |-> FALSE, legacy |-> 0]
    BY DEF NoOrg
  <2> QED BY <1>5, <1>8, <2>1 DEF DeleteOrganizer, Organizers
<1> QED BY <1>6, <1>7, <1>8

LEMMA AskKeeps ==
  ASSUME IInv, NEW k \in Keys, Ask(k), UNCHANGED runner PROVE IInv'
<1> DEFINE id == IF orgs[k].legacy # 0 THEN orgs[k].legacy ELSE 1 + Cardinality(spent.minted)
<1>1. id \in Nat \ {0}
  BY FS_CardinalityType DEF IInv, PanelTyped, Organizers
<1>2. /\ orgs' = [orgs EXCEPT ![k].legacy = id]
      /\ answered' = [answered EXCEPT ![k] = @ \cup {id}]
      /\ spent' = [spent EXCEPT !.minted = @ \cup {id}]
      /\ UNCHANGED <<owner, users, settings, post, file, meant>>
      /\ orgs[k].there
  BY DEF Ask
<1> HIDE DEF id
<1>3. spent' \in [posts : Nat, restarts : Nat, keys : SUBSET Keys, minted : SUBSET Nat]
  BY <1>1, <1>2 DEF IInv, PanelTyped
<1>4. IsFiniteSet(spent'.minted) /\ spent'.keys = spent.keys
  BY <1>2, FS_AddElement DEF IInv, PanelTyped
<1>5. orgs' \in [Keys -> Organizers] /\ answered' \in [Keys -> SUBSET Nat]
  BY <1>1, <1>2 DEF IInv, PanelTyped, Organizers
<1>6. PanelTyped'
  BY <1>2, <1>3, <1>4, <1>5 DEF IInv, PanelTyped
<1>7. orgs[k].legacy = 0 \/ id = orgs[k].legacy
  BY DEF id
<1>8. OneId'
  BY <1>1, <1>2, <1>4, <1>7 DEF IInv, PanelTyped, OneId, Organizers
<1>9. SavesAlone' /\ NamesFree' /\ TestsAlone' /\ FileEarly' /\ Said'
  BY <1>2 DEF IInv, SavesAlone, NamesFree, TestsAlone, FileEarly, Said
<1> QED BY <1>6, <1>8, <1>9 DEF IInv

-----------------------------------------------------------------------------
(* Backup, the end of a restore, and rollouts.                             *)

LEMMA BackupKeeps ==
  ASSUME IInv, Serialised, NEW full \in BOOLEAN, Backup(full), UNCHANGED runner PROVE IInv'
<1>1. /\ \A q \in Posts : post[q].kind \notin Savers
      /\ UNCHANGED <<owner, users, orgs, settings, post, meant, answered>>
      /\ settings.rollout = NoRow /\ settings.wanted = NoRow /\ settings.options = NoRow
  BY DEF Backup, Posted, Serialised, Clear, Saving, IInv, TestsAlone
<1>2. /\ spent' \in [posts : Nat, restarts : Nat, keys : SUBSET Keys, minted : SUBSET Nat]
      /\ spent'.minted = spent.minted /\ spent.keys = spent'.keys
  BY DEF IInv, PanelTyped, Backup, Posted
<1>3. /\ file'.full = full /\ file'.orgs = orgs /\ file'.settings = settings
      /\ full => file'.owner = owner /\ file'.users = users
  BY DEF Backup
<1>4. PanelTyped'
  BY <1>1, <1>2 DEF IInv, PanelTyped
<1>5. SavesAlone' /\ TestsAlone' /\ Said'
  BY <1>1 DEF IInv, SavesAlone, TestsAlone, Said
<1>6. NamesFree' /\ FileEarly'
  BY <1>1, <1>3 DEF IInv, NamesFree, FileEarly, PanelTyped, Savers
<1>7. OneId'
  BY <1>1, <1>2, <1>3 DEF IInv, OneId, PanelTyped
<1> QED BY <1>4, <1>5, <1>6, <1>7 DEF IInv

LEMMA RestoreSaveKeeps ==
  ASSUME IInv, NEW p \in Posts, RestoreSave(p), UNCHANGED runner PROVE IInv'
<1>1. /\ post[p].kind = "restore" /\ post' = [post EXCEPT ![p] = Idle]
      /\ settings' = Merged(post[p].creds)
      /\ owner' = IF file.full THEN file.owner ELSE post[p].owner
      /\ users' = IF file.full
                  THEN [n \in Names |-> IF file.users[n] # NoUser THEN file.users[n] ELSE users[n]]
                  ELSE users
      /\ UNCHANGED <<orgs, file, answered, spent>>
  BY DEF RestoreSave, SaveCreds
<1>2. /\ post' = [q \in Posts |-> post'[q]] /\ \A q \in Posts : PostTyped(post'[q])
      /\ \A q \in Posts : post'[q] = Idle
  BY <1>1, Ends DEF IInv, SavesAlone, Savers
<1>3. /\ post[p].creds = settings /\ post[p].owner = owner
      /\ file # NoFile /\ (file.full => file.owner.name = owner.name)
  BY <1>1 DEF IInv, SavesAlone, NamesFree, Savers
<1> DEFINE Fields == {"title", "counting", "rollout", "wanted", "options"}
<1>4. DOMAIN settings = Fields
  BY DEF IInv, PanelTyped, Settings
<1>5. settings' = [f \in Fields |-> IF file.settings[f] = NoRow THEN settings[f] ELSE file.settings[f]]
  BY <1>1, <1>3, <1>4 DEF Merged
<1>6. /\ file.settings \in Settings /\ settings \in Settings
      /\ file.settings.rollout = NoRow /\ file.settings.wanted = NoRow /\ file.settings.options = NoRow
  BY <1>3 DEF IInv, FileEarly, PanelTyped
<1>7. /\ settings'.title \in Values /\ settings'.counting \in Values
      /\ settings'.rollout = settings.rollout /\ settings'.wanted = settings.wanted
      /\ settings'.options = settings.options
  BY <1>5, <1>6 DEF Settings
<1>8. settings' \in Settings
  <2>1. settings' = [title |-> settings'.title, counting |-> settings'.counting,
                     rollout |-> settings'.rollout, wanted |-> settings'.wanted,
                     options |-> settings'.options]
    BY <1>5
  <2> QED BY <1>6, <1>7, <2>1 DEF Settings
<1>9. meant' = [settings |-> settings', owner |-> owner']
  <2>1. meant' = [settings |-> [f \in Fields |-> IF f \in Shown /\ file.settings[f] # NoRow
                                                 THEN file.settings[f] ELSE settings[f]],
                  owner |-> IF file.full THEN file.owner ELSE owner]
    BY <1>4 DEF IInv, Said, RestoreSave
  <2>2. \A f \in Fields : (IF f \in Shown /\ file.settings[f] # NoRow THEN file.settings[f] ELSE settings[f])
                        = IF file.settings[f] = NoRow THEN settings[f] ELSE file.settings[f]
    BY <1>6 DEF Shown
  <2> QED BY <1>1, <1>3, <1>5, <2>1, <2>2
<1>10. owner' \in Logins /\ owner'.name = owner.name
  BY <1>1, <1>3 DEF IInv, PanelTyped, FileEarly
<1>11. users' \in [Names -> Users] /\ users'[owner.name] = NoUser
  BY <1>1, <1>3 DEF IInv, PanelTyped, FileEarly, NamesFree, Logins
<1>12. PanelTyped'
  BY <1>1, <1>2, <1>8, <1>10, <1>11 DEF IInv, PanelTyped
<1>13. SavesAlone' /\ NamesFree' /\ TestsAlone'
  BY <1>2, <1>7, <1>10, <1>11, IdleIsIdle DEF IInv, SavesAlone, NamesFree, TestsAlone
<1>14. FileEarly' /\ OneId'
  BY <1>1 DEF IInv, FileEarly, OneId
<1> QED BY <1>9, <1>12, <1>13, <1>14 DEF IInv, Said

LEMMA RolloutKeeps ==
  ASSUME IInv, Serialised, StartRollout \/ StopRollout \/ RolloutDone, UNCHANGED runner
  PROVE  IInv'
<1> USE DEF StartRollout, StopRollout, RolloutDone, Posted, Clear, Saving, Serialised
<1>1. /\ \A q \in Posts : post[q].kind \notin Savers
      /\ UNCHANGED <<owner, users, orgs, post, file, answered>>
  OBVIOUS
<1>2. /\ spent' \in [posts : Nat, restarts : Nat, keys : SUBSET Keys, minted : SUBSET Nat]
      /\ spent'.minted = spent.minted /\ spent.keys = spent'.keys
  BY DEF IInv, PanelTyped
<1>3. PICK v \in {Running, Stopped, Done} :
         /\ settings' = [settings EXCEPT !.rollout = v]
         /\ meant' = [meant EXCEPT !.settings.rollout = v]
  OBVIOUS
<1>4. /\ settings' \in Settings /\ settings'.wanted = settings.wanted
      /\ settings'.options = settings.options
  BY <1>3 DEF IInv, PanelTyped, Settings, Values, Running, Stopped, Done
<1>5. Said'
  BY <1>1, <1>3 DEF IInv, Said
<1>6. PanelTyped'
  BY <1>1, <1>2, <1>4 DEF IInv, PanelTyped
<1>7. SavesAlone' /\ NamesFree' /\ TestsAlone' /\ FileEarly'
  BY <1>1, <1>4 DEF IInv, SavesAlone, NamesFree, TestsAlone, FileEarly
<1>8. OneId'
  BY <1>1, <1>2 DEF IInv, OneId
<1> QED BY <1>5, <1>6, <1>7, <1>8 DEF IInv

-----------------------------------------------------------------------------
(* The test meets' posts.                                                  *)

LEMMA TestStep ==
  ASSUME IInv, ~Saving, NEW p \in Posts, NEW d, PostTyped(d), d.kind \in TestPosts \cup {"none"},
         post' = [post EXCEPT ![p] = d],
         \A q \in Posts : q # p => post[q].kind \notin TestPosts,
         UNCHANGED <<owner, users, orgs, file, answered>>,
         spent' \in [posts : Nat, restarts : Nat, keys : SUBSET Keys, minted : SUBSET Nat],
         spent'.keys = spent.keys, spent'.minted = spent.minted,
         settings' \in Settings, Said',
         d.kind \in {"wanted", "options"} => runner'.opts = d.arg.opts,
         d.kind = "options" => settings'.wanted # NoRow,
         settings'.options # NoRow => settings'.wanted # NoRow
  PROVE  IInv'
<1>1. /\ post' = [q \in Posts |-> post'[q]] /\ \A q \in Posts : PostTyped(post'[q])
      /\ \A q \in Posts : post'[q] = IF q = p THEN d ELSE post[q]
  BY DEF IInv, PanelTyped
<1>2. \A q \in Posts : post'[q].kind \notin Savers
  BY <1>1 DEF Saving, Savers, TestPosts
<1>3. PanelTyped'
  BY <1>1 DEF IInv, PanelTyped
<1>4. SavesAlone'
  BY <1>2 DEF SavesAlone
<1>5. NamesFree'
  BY <1>1, <1>2 DEF IInv, NamesFree, Savers, TestPosts
<1>6. TestsAlone'
  BY <1>1 DEF TestsAlone, TestPosts
<1>7. FileEarly' /\ OneId'
  BY DEF IInv, FileEarly, OneId
<1> QED BY <1>3, <1>4, <1>5, <1>6, <1>7 DEF IInv

LEMMA TestPostKeeps ==
  ASSUME IInv, Serialised, NEW p \in Posts,
         \/ \E n \in Meets, opts \in Options : Start(p, n, opts)
         \/ Stop(p)
  PROVE  IInv'
<1>1. /\ ~Saving /\ \A q \in Posts : post[q].kind \notin TestPosts
      /\ UNCHANGED <<owner, users, orgs, settings, file, meant, answered, runner>>
      /\ spent' = [spent EXCEPT !.posts = @ + 1]
  BY DEF Serialised, Start, Stop, TestPost, Clear, StopMeets
<1>2. PICK d : /\ PostTyped(d) /\ d.kind \in {"start", "zero"}
               /\ post' = [post EXCEPT ![p] = d]
  <2>0. PostTyped(Idle)
    BY DEF PostTyped, Idle, Kinds
  <2>1. ASSUME NEW n \in Meets, NEW opts \in Options, Start(p, n, opts)
        PROVE  \E d : PostTyped(d) /\ d.kind \in {"start", "zero"} /\ post' = [post EXCEPT ![p] = d]
    <3> DEFINE arg == [count |-> n, opts |-> opts]
    <3> DEFINE e == [Idle EXCEPT !.kind = "start"]
    <3> DEFINE d == [e EXCEPT !.arg = arg]
    <3>1. e.kind = "start" /\ e = [kind |-> e.kind, creds |-> e.creds, owner |-> e.owner, arg |-> e.arg]
      BY <2>0 DEF PostTyped
    <3>2. arg.count = n /\ arg.opts = opts /\ post' = [post EXCEPT ![p] = d]
      BY <2>1 DEF Start
    <3> HIDE DEF arg, e
    <3>3. d.kind = "start" /\ PostTyped(d)
      BY <3>1, <3>2 DEF PostTyped, Kinds, TestPosts
    <3> HIDE DEF d
    <3> QED BY <3>2, <3>3
  <2>2. ASSUME Stop(p)
        PROVE  \E d : PostTyped(d) /\ d.kind \in {"start", "zero"} /\ post' = [post EXCEPT ![p] = d]
    <3> DEFINE d == [Idle EXCEPT !.kind = "zero"]
    <3>1. d.kind = "zero" /\ PostTyped(d)
      BY <2>0 DEF PostTyped, Kinds, TestPosts
    <3> QED BY <2>2, <3>1 DEF Stop
  <2> QED BY <2>1, <2>2
<1>3. /\ spent' \in [posts : Nat, restarts : Nat, keys : SUBSET Keys, minted : SUBSET Nat]
      /\ spent'.minted = spent.minted /\ spent'.keys = spent.keys
  BY <1>1 DEF IInv, PanelTyped
<1>4. settings' \in Settings /\ Said' /\ (settings'.options # NoRow => settings'.wanted # NoRow)
  BY <1>1 DEF IInv, PanelTyped, Said, TestsAlone
<1>5. d.kind \in TestPosts
  BY <1>2 DEF TestPosts
<1> QED BY <1>1, <1>2, <1>3, <1>4, <1>5, TestStep

\* A step of a Start or Stop under way.
LEMMA TestGoesOn ==
  ASSUME IInv, NEW p \in Posts, NEW kind \in {"wanted", "options", "forget"},
         post[p].kind \in TestPosts, Goes(p, kind),
         kind \in {"wanted", "options"} => post[p].kind \in {"start", "wanted"},
         UNCHANGED <<owner, users, orgs, file, answered, spent>>,
         settings' \in Settings, Said',
         kind # "forget" => runner'.opts = post[p].arg.opts,
         kind = "options" => settings'.wanted # NoRow,
         settings'.options # NoRow => settings'.wanted # NoRow
  PROVE  IInv'
<1> DEFINE d == [post[p] EXCEPT !.kind = kind]
<1>0. PostTyped(post[p])
  BY DEF IInv, PanelTyped
<1>1. /\ d.kind = kind /\ d.arg = post[p].arg
      /\ d = [kind |-> d.kind, creds |-> d.creds, owner |-> d.owner, arg |-> d.arg]
  BY <1>0 DEF PostTyped
<1>1a. post' = [post EXCEPT ![p] = d]
  BY DEF IInv, PanelTyped, Goes
<1>1b. PostTyped(d)
  BY <1>0, <1>1 DEF PostTyped, Kinds, TestPosts
<1>2. ~Saving
  BY Quiet DEF Saving, TestPosts, Savers
<1>3. \A q \in Posts : q # p => post[q].kind \notin TestPosts
  BY DEF IInv, TestsAlone
<1>4. d.kind \in TestPosts
  BY <1>1 DEF TestPosts
<1> HIDE DEF d
<1>5. /\ spent' \in [posts : Nat, restarts : Nat, keys : SUBSET Keys, minted : SUBSET Nat]
      /\ spent'.minted = spent.minted /\ spent'.keys = spent.keys
  BY DEF IInv, PanelTyped
<1> QED BY <1>1, <1>1a, <1>1b, <1>2, <1>3, <1>4, <1>5, TestStep

LEMMA TestPostEnds ==
  ASSUME IInv, NEW p \in Posts, post[p].kind \in TestPosts, post' = [post EXCEPT ![p] = Idle],
         UNCHANGED <<owner, users, orgs, file, answered, spent>>,
         settings' \in Settings, Said',
         settings'.options # NoRow => settings'.wanted # NoRow
  PROVE  IInv'
<1>1. PostTyped(Idle)
  BY DEF PostTyped, Idle, Kinds
<1>2. ~Saving
  BY Quiet DEF Saving, TestPosts, Savers
<1>3. \A q \in Posts : q # p => post[q].kind \notin TestPosts
  BY DEF IInv, TestsAlone
<1>4. /\ spent' \in [posts : Nat, restarts : Nat, keys : SUBSET Keys, minted : SUBSET Nat]
      /\ spent'.minted = spent.minted /\ spent'.keys = spent.keys
  BY DEF IInv, PanelTyped
<1> QED BY <1>1, <1>2, <1>3, <1>4, IdleIsIdle, TestStep

\* One setting written.
LEMMA PutField ==
  ASSUME IInv, NEW field \in {"wanted", "options"}, NEW value \in Nat, Put(field, value, value),
         field = "options" => settings.wanted # NoRow
  PROVE  /\ settings' \in Settings /\ Said'
         /\ settings'.wanted # NoRow
         /\ UNCHANGED <<owner, users, orgs, file, answered, spent, runner>>
<1>1. /\ settings' = [settings EXCEPT ![field] = value]
      /\ meant' = [meant EXCEPT !.settings[field] = value]
      /\ UNCHANGED <<owner, users, orgs, file, answered, spent, runner>>
  BY DEF Put, testVars
<1>2. value # NoRow /\ value \in Values
  BY DEF NoRow, Values
<1>3. settings' \in Settings /\ settings'.wanted # NoRow
  <2>1. CASE field = "wanted"
    BY <1>1, <1>2, <2>1 DEF IInv, PanelTyped, Settings
  <2>2. CASE field = "options"
    BY <1>1, <1>2, <2>2 DEF IInv, PanelTyped, Settings
  <2> QED BY <2>1, <2>2
<1>4. Said'
  BY <1>1 DEF IInv, Said
<1> QED BY <1>1, <1>3, <1>4

LEMMA TestPostStepKeeps ==
  ASSUME IInv, NEW p \in Posts,
         StartedMeets(p) \/ SetWanted(p) \/ SetOptions(p) \/ SetNone(p) \/ Forget(p)
  PROVE  IInv'
<1>0. \A q \in Posts : PostTyped(post[q])
  BY DEF IInv, PanelTyped
<1>1. settings \in Settings /\ Said /\ (settings.options # NoRow => settings.wanted # NoRow)
  BY DEF IInv, PanelTyped, TestsAlone
<1>2. CASE StartedMeets(p)
  <2>1. /\ post[p].kind = "start" /\ Goes(p, "wanted") /\ runner'.opts = post[p].arg.opts
        /\ UNCHANGED <<owner, users, orgs, settings, file, meant, answered, spent>>
    BY <1>2 DEF StartedMeets, StartMeets
  <2> QED BY <1>1, <2>1, TestGoesOn DEF TestPosts, Said
<1>3. CASE SetWanted(p)
  <2>1. /\ post[p].kind = "wanted" /\ Goes(p, "options") /\ Put("wanted", post[p].arg.count, post[p].arg.count)
    BY <1>3 DEF SetWanted
  <2>2. post[p].arg.count \in Nat /\ runner.opts = post[p].arg.opts
    BY <1>0, <2>1, TestMeetsAssumption DEF PostTyped, IInv, TestsAlone
  <2>3. /\ settings' \in Settings /\ Said' /\ settings'.wanted # NoRow
        /\ UNCHANGED <<owner, users, orgs, file, answered, spent, runner>>
    BY <2>1, <2>2, PutField
  <2> QED BY <2>1, <2>2, <2>3, TestGoesOn DEF TestPosts
<1>4. CASE SetOptions(p)
  <2>1. /\ post[p].kind = "options" /\ Put("options", runner.opts, post[p].arg.opts)
        /\ post' = [post EXCEPT ![p] = Idle]
    BY <1>4 DEF SetOptions
  <2>2. post[p].arg.opts \in Nat /\ runner.opts = post[p].arg.opts /\ settings.wanted # NoRow
    BY <1>0, <2>1, TestMeetsAssumption DEF PostTyped, IInv, TestsAlone
  <2>3. /\ settings' \in Settings /\ Said' /\ settings'.wanted # NoRow
        /\ UNCHANGED <<owner, users, orgs, file, answered, spent, runner>>
    BY <2>1, <2>2, PutField
  <2> QED BY <2>1, <2>2, <2>3, TestPostEnds DEF TestPosts
<1>5. CASE SetNone(p)
  <2>1. post[p].kind = "zero" /\ Put("wanted", 0, 0) /\ Goes(p, "forget")
    BY <1>5 DEF SetNone
  <2>2. /\ settings' \in Settings /\ Said' /\ settings'.wanted # NoRow
        /\ UNCHANGED <<owner, users, orgs, file, answered, spent, runner>>
    BY <2>1, PutField
  <2> QED BY <2>1, <2>2, TestGoesOn DEF TestPosts
<1>6. CASE Forget(p)
  <2>1. /\ post[p].kind = "forget" /\ post' = [post EXCEPT ![p] = Idle]
        /\ UNCHANGED <<owner, users, orgs, settings, file, meant, answered, spent>>
    BY <1>6 DEF Forget
  <2> QED BY <1>1, <2>1, TestPostEnds DEF TestPosts, Said
<1> QED BY <1>2, <1>3, <1>4, <1>5, <1>6

\* A restart loses the posts in progress.
LEMMA RestartKeeps ==
  ASSUME IInv, Restart PROVE IInv'
<1>1. /\ post' = [p \in Posts |-> Idle] /\ spent' = [spent EXCEPT !.restarts = @ + 1]
      /\ UNCHANGED <<owner, users, orgs, settings, file, meant, answered>>
  BY DEF Restart
<1>2. PostTyped(Idle)
  BY DEF PostTyped, Idle, Kinds
<1>3. /\ spent' \in [posts : Nat, restarts : Nat, keys : SUBSET Keys, minted : SUBSET Nat]
      /\ spent'.minted = spent.minted /\ spent'.keys = spent.keys
  BY <1>1 DEF IInv, PanelTyped
<1>4. PanelTyped'
  BY <1>1, <1>2, <1>3 DEF IInv, PanelTyped
<1>5. SavesAlone' /\ NamesFree' /\ TestsAlone'
  BY <1>1, IdleIsIdle DEF IInv, SavesAlone, NamesFree, TestsAlone
<1>6. FileEarly' /\ OneId' /\ Said'
  BY <1>1, <1>3 DEF IInv, FileEarly, OneId, Said
<1> QED BY <1>4, <1>5, <1>6 DEF IInv

-----------------------------------------------------------------------------
(* The theorems.                                                           *)

LEMMA NextIInv == Serialised /\ IInv /\ [Next]_vars => IInv'
<1> SUFFICES ASSUME Serialised, IInv, [Next]_vars PROVE IInv' OBVIOUS
<1>1. CASE PanelStep
  <2>0. PanelNext /\ UNCHANGED runner
    BY <1>1 DEF PanelStep, testVars
  <2>1. ASSUME NEW p \in Posts,
               \/ \E t \in Titles : LoadTitle(p, t)
               \/ \E on \in {Off, On} : LoadCounting(p, on)
               \/ \E n \in Names, pw \in Passwords : LoadLogin(p, n, pw)
               \/ \E n \in Names, pw \in Passwords, r \in Roles : LoadUser(p, n, pw, r)
        PROVE  IInv'
    BY <2>0, <2>1, LoadKeeps
  <2>2. ASSUME NEW p \in Posts, Save(p) \/ AddUser(p) \/ Restore(p) \/ RestoreSave(p)
        PROVE  IInv'
    BY <2>0, <2>2, SaveKeeps, AddUserKeeps, RestoreKeeps, RestoreSaveKeeps
  <2>3. ASSUME NEW n \in Names,
               DeleteUser(n) \/ \E pw \in Passwords, r \in Roles : UpdateUser(n, pw, r)
        PROVE  IInv'
    BY <2>0, <2>3, UserKeeps
  <2>4. ASSUME NEW k \in Keys, AddOrganizer(k) \/ Revoke(k) \/ DeleteOrganizer(k) \/ Ask(k)
        PROVE  IInv'
    BY <2>0, <2>4, OrganizerKeeps, AskKeeps
  <2>5. ASSUME NEW full \in BOOLEAN, Backup(full) PROVE IInv'
    BY <2>0, <2>5, BackupKeeps
  <2>6. CASE StartRollout \/ StopRollout \/ RolloutDone
    BY <2>0, <2>6, RolloutKeeps
  <2> QED BY <2>0, <2>1, <2>2, <2>3, <2>4, <2>5, <2>6 DEF PanelNext
<1>2. CASE TestNext
  <2>1. ASSUME NEW p \in Posts, \E n \in Meets, opts \in Options : Start(p, n, opts)
        PROVE  IInv'
    BY <2>1, TestPostKeeps
  <2>2. ASSUME NEW p \in Posts, Stop(p) PROVE IInv'
    BY <2>2, TestPostKeeps
  <2>3. ASSUME NEW p \in Posts,
               StartedMeets(p) \/ SetWanted(p) \/ SetOptions(p) \/ SetNone(p) \/ Forget(p)
        PROVE  IInv'
    BY <2>3, TestPostStepKeeps
  <2>4. CASE Restart
    BY <2>4, RestartKeeps
  <2>5. ASSUME NEW i \in Meets,
               \/ Assigned(i) \/ Registered(i) \/ LoopStarts(i) \/ PassStarts(i) \/ Swum(i)
               \/ \E lag \in 1 .. 2 : Held(i, lag)
               \/ SessionEnds(i) \/ Disconnected(i) \/ NodeForgets(i)
        PROVE  IInv'
    <3>1. UNCHANGED panelVars /\ UNCHANGED runner
      BY <2>5 DEF Assigned, Registered, LoopStarts, PassStarts, Swum, Held, SessionEnds,
                  Disconnected, NodeForgets, Only
    <3> QED BY <3>1, Untouched
  <2> QED BY <1>2, <2>1, <2>2, <2>3, <2>4, <2>5 DEF TestNext
<1>3. CASE UNCHANGED vars
  BY <1>3, Untouched DEF vars, testVars
<1> QED BY <1>1, <1>2, <1>3 DEF Next

\* What a post of the panel answered for stays as it said, and an organizer's
\* relay is given one id (save_creds, restore_keys, legacy_meet_id).
THEOREM PostsStand ==
  Serialised => (Spec => []AsSaid)
<1>1. IInv => AsSaid
  <2> SUFFICES ASSUME IInv PROVE AsSaid OBVIOUS
  <2>1. settings = meant.settings /\ owner = meant.owner
    BY DEF IInv, Said
  <2>2. ASSUME NEW k \in Keys PROVE Cardinality(answered[k]) <= 1
    <3>1. answered[k] = {} \/ answered[k] = {orgs[k].legacy}
      BY DEF IInv, OneId
    <3>2. Cardinality({}) = 0 /\ Cardinality({orgs[k].legacy}) = 1
      BY FS_EmptySet, FS_Singleton
    <3> QED BY <3>1, <3>2
  <2> QED BY <2>1, <2>2 DEF AsSaid
<1> SUFFICES ASSUME Serialised PROVE Spec => []AsSaid OBVIOUS
<1>2. IInv /\ [Next]_vars => IInv'
  BY NextIInv
<1> QED BY <1>1, <1>2, InitIInv, PTL DEF Spec

\* Every login opens its own tabs with its own password, whatever is renamed,
\* added or restored (verify_user, change_credentials, restore_keys).
THEOREM EveryoneSignsIn ==
  Serialised => (Spec => []UsersSignIn)
<1>1. IInv => UsersSignIn
  BY DEF IInv, NamesFree, UsersSignIn, SignIn
<1> SUFFICES ASSUME Serialised PROVE Spec => []UsersSignIn OBVIOUS
<1>2. IInv /\ [Next]_vars => IInv'
  BY NextIInv
<1> QED BY <1>1, <1>2, InitIInv, PTL DEF Spec

-----------------------------------------------------------------------------
(* The test meets, for any posts, restarts and lost sockets: what a        *)
(* meet's pages show, with every case the code leaves open; and that the   *)
(* meets that run are those the last post asked for, while the posts and   *)
(* registers are served in order.                                          *)

TaskTyped(t) ==
    /\ t = [pc |-> t.pc, opts |-> t.opts, at |-> t.at, results |-> t.results]
    /\ t.pc \in Connected \cup {"none", "waits", "registers"}

\* What a meet's task and its pages hold in each stage of a pass.
PassOf(t, pg) ==
    /\ t.pc \notin {"swims", "holds"} => t.results = {}
    /\ t.pc = "cleared" => pg.console = {}
    /\ t.pc \in {"swims", "holds"} =>
         /\ t.at \in Nat \ {0} /\ pg.official = t.results
         /\ pg.console = 1 .. (IF t.pc = "holds" THEN t.at ELSE t.at - 1)
         /\ t.results \subseteq 1 .. (t.at - 2) /\ 1 .. (t.at - 3) \subseteq t.results

PassInv ==
    /\ task = [i \in Meets |-> task[i]]
    /\ page = [i \in Meets |-> page[i]]
    /\ \A i \in Meets : /\ page[i] = [console |-> page[i].console, official |-> page[i].official]
                        /\ TaskTyped(task[i])
                        /\ PassOf(task[i], page[i])

LEMMA PassMeans == PassInv => PageOfThisPass
<1> SUFFICES ASSUME PassInv, NEW i \in Meets, task[i].pc \in {"swims", "holds"}
             PROVE  /\ page[i].console = 1 .. (IF task[i].pc = "holds" THEN task[i].at ELSE task[i].at - 1)
                    /\ page[i].official \subseteq
                         1 .. ((IF task[i].pc = "holds" THEN task[i].at ELSE task[i].at - 1) - 1)
                    /\ 1 .. (task[i].at - 3) \subseteq page[i].official
  BY DEF PageOfThisPass
<1> QED BY DEF PassInv, PassOf

\* A task that is made or cancelled is at the start of a pass.
LEMMA FreshTasks ==
  /\ TaskTyped(NoTask) /\ TaskTyped(Waiting)
  /\ NoTask.pc = "none" /\ Waiting.pc = "waits" /\ NoTask.results = {} /\ Waiting.results = {}
  BY DEF TaskTyped, NoTask, Waiting, Connected

LEMMA FreshPass ==
  ASSUME NEW t \in {NoTask, Waiting}, NEW pg PROVE TaskTyped(t) /\ PassOf(t, pg)
  BY FreshTasks DEF PassOf

\* A task that begins a stage with nothing but its options.
LEMMA Staged ==
  ASSUME NEW pc \in {"registers", "starts"}, NEW opts
  PROVE  LET z == [NoTask EXCEPT !.pc = pc, !.opts = opts]
         IN  TaskTyped(z) /\ z.pc = pc /\ z.opts = opts /\ z.results = {}
<1> DEFINE y == [NoTask EXCEPT !.pc = pc]
<1> DEFINE z == [y EXCEPT !.opts = opts]
<1>1. y.pc = pc /\ y.results = {} /\ y = [pc |-> y.pc, opts |-> y.opts, at |-> y.at, results |-> y.results]
  BY DEF NoTask
<1> HIDE DEF y
<1>2. /\ z.pc = pc /\ z.opts = opts /\ z.results = {}
      /\ z = [pc |-> z.pc, opts |-> z.opts, at |-> z.at, results |-> z.results]
  BY <1>1
<1> HIDE DEF z
<1>3. TaskTyped(z)
  BY <1>2 DEF TaskTyped, Connected
<1>4. TaskTyped(z) /\ z.pc = pc /\ z.opts = opts /\ z.results = {}
  BY <1>2, <1>3
<1> QED BY <1>4 DEF y, z

LEMMA StagePass ==
  ASSUME NEW pc \in {"registers", "starts"}, NEW opts, NEW pg
  PROVE  LET z == [NoTask EXCEPT !.pc = pc, !.opts = opts] IN TaskTyped(z) /\ PassOf(z, pg)
<1> DEFINE z == [NoTask EXCEPT !.pc = pc, !.opts = opts]
<1>1. TaskTyped(z) /\ z.pc = pc /\ z.results = {}
  BY Staged
<1> HIDE DEF z
<1>2. TaskTyped(z) /\ PassOf(z, pg)
  BY <1>1 DEF PassOf
<1> QED BY <1>2 DEF z

\* The next heat of a pass, or the start of another.
LEMMA HeatStaged ==
  ASSUME NEW t, TaskTyped(t), NEW r
  PROVE  LET n == NextHeat(t, r) IN TaskTyped(n) /\ n.pc \in {"swims", "starts"} /\ n.opts = t.opts
<1>1. CASE t.at < HeatCount
  <2> DEFINE a == [t EXCEPT !.pc = "swims"]
  <2> DEFINE b == [a EXCEPT !.at = t.at + 1]
  <2> DEFINE c == [b EXCEPT !.results = r]
  <2>1. /\ a.pc = "swims" /\ a.opts = t.opts /\ a.at = t.at
        /\ a = [pc |-> a.pc, opts |-> a.opts, at |-> a.at, results |-> a.results]
    BY DEF TaskTyped
  <2>2. NextHeat(t, r) = c
    BY <1>1, <2>1 DEF NextHeat
  <2> HIDE DEF a
  <2>3. /\ b.pc = "swims" /\ b.opts = t.opts
        /\ b = [pc |-> b.pc, opts |-> b.opts, at |-> b.at, results |-> b.results]
    BY <2>1
  <2> HIDE DEF b
  <2>4. /\ c.pc = "swims" /\ c.opts = t.opts
        /\ c = [pc |-> c.pc, opts |-> c.opts, at |-> c.at, results |-> c.results]
    BY <2>3
  <2> HIDE DEF c
  <2> QED BY <2>2, <2>4 DEF TaskTyped, Connected
<1>2. CASE ~(t.at < HeatCount)
  <2>1. NextHeat(t, r) = [NoTask EXCEPT !.pc = "starts", !.opts = t.opts]
    BY <1>2 DEF NextHeat
  <2> DEFINE z == [NoTask EXCEPT !.pc = "starts", !.opts = t.opts]
  <2>2. TaskTyped(z) /\ z.pc = "starts" /\ z.opts = t.opts
    BY Staged
  <2> HIDE DEF z
  <2>3. NextHeat(t, r) = z
    BY <2>1 DEF z
  <2> QED BY <2>2, <2>3
<1> QED BY <1>1, <1>2

\* A step of one meet's task and page.
LEMMA OneMeet ==
  ASSUME PassInv, NEW i \in Meets, NEW t, TaskTyped(t), NEW pg,
         pg = [console |-> pg.console, official |-> pg.official], PassOf(t, pg),
         task' = [task EXCEPT ![i] = t], page' = [page EXCEPT ![i] = pg]
  PROVE  PassInv'
<1>1. /\ task' = [j \in Meets |-> task'[j]] /\ page' = [j \in Meets |-> page'[j]]
      /\ \A j \in Meets : /\ task'[j] = IF j = i THEN t ELSE task[j]
                          /\ page'[j] = IF j = i THEN pg ELSE page[j]
  BY DEF PassInv
<1> QED BY <1>1 DEF PassInv

LEMMA MeetKeepsPass ==
  ASSUME PassInv, NEW i \in Meets,
         \/ Assigned(i) \/ Registered(i) \/ LoopStarts(i) \/ PassStarts(i) \/ Swum(i)
         \/ \E lag \in 1 .. 2 : Held(i, lag)
         \/ SessionEnds(i) \/ Disconnected(i) \/ NodeForgets(i)
  PROVE  PassInv'
<1> DEFINE t == task[i]
<1> DEFINE pg == page[i]
<1>1. /\ TaskTyped(t) /\ PassOf(t, pg) /\ pg = [console |-> pg.console, official |-> pg.official]
      /\ task = [task EXCEPT ![i] = t] /\ page = [page EXCEPT ![i] = pg]
  BY DEF PassInv
<1>2. CASE Assigned(i)
  <2> DEFINE n == [NoTask EXCEPT !.pc = "registers", !.opts = runner.opts]
  <2>1. TaskTyped(n) /\ PassOf(n, pg)
    BY StagePass
  <2> QED BY <1>1, <1>2, <2>1, OneMeet DEF Assigned
<1>3. CASE Registered(i)
  <2> DEFINE n == [t EXCEPT !.pc = IF @ = "registers" THEN "starts" ELSE @]
  <2>1. /\ n.pc = (IF t.pc = "registers" THEN "starts" ELSE t.pc)
        /\ n.at = t.at /\ n.results = t.results
        /\ n = [pc |-> n.pc, opts |-> n.opts, at |-> n.at, results |-> n.results]
    BY <1>1 DEF TaskTyped
  <2>2. TaskTyped(n) /\ PassOf(n, pg)
    BY <1>1, <2>1 DEF TaskTyped, PassOf, Connected
  <2>3. task' = [task EXCEPT ![i] = n]
    BY <1>3 DEF Registered, PassInv
  <2> QED BY <1>1, <1>3, <2>2, <2>3, OneMeet DEF Registered
<1>4. CASE LoopStarts(i)
  <2> DEFINE n == [t EXCEPT !.pc = "cleared"]
  <2> DEFINE g == [pg EXCEPT !.console = {}]
  <2>1. /\ n.pc = "cleared" /\ n.results = t.results
        /\ n = [pc |-> n.pc, opts |-> n.opts, at |-> n.at, results |-> n.results]
        /\ g.console = {} /\ g = [console |-> g.console, official |-> g.official]
    BY <1>1 DEF TaskTyped
  <2>2. TaskTyped(n) /\ PassOf(n, g)
    BY <1>1, <1>4, <2>1 DEF TaskTyped, PassOf, Connected, LoopStarts
  <2>3. task' = [task EXCEPT ![i] = n] /\ page' = [page EXCEPT ![i] = g]
    BY <1>4 DEF LoopStarts, ClearsConsole, PassInv
  <2> QED BY <2>1, <2>2, <2>3, OneMeet
<1>5. CASE PassStarts(i)
  <2> DEFINE m == [t EXCEPT !.pc = "swims"]
  <2> DEFINE n == [m EXCEPT !.at = 1]
  <2> DEFINE g == [pg EXCEPT !.official = {}]
  <2>1. /\ m.pc = "swims" /\ m.results = t.results
        /\ m = [pc |-> m.pc, opts |-> m.opts, at |-> m.at, results |-> m.results]
        /\ g.console = pg.console /\ g.official = {}
        /\ g = [console |-> g.console, official |-> g.official]
    BY <1>1 DEF TaskTyped
  <2> HIDE DEF m
  <2>2. /\ n.pc = "swims" /\ n.at = 1 /\ n.results = t.results
        /\ n = [pc |-> n.pc, opts |-> n.opts, at |-> n.at, results |-> n.results]
    BY <2>1
  <2>3. TaskTyped(n) /\ PassOf(n, g)
    <3>1. t.results = {} /\ pg.console = {}
      BY <1>1, <1>5 DEF PassOf, PassStarts
    <3>2. 1 .. (1 - 1) = {} /\ 1 .. (1 - 2) = {} /\ 1 .. (1 - 3) = {}
      OBVIOUS
    <3> HIDE DEF n, g
    <3> QED BY <2>1, <2>2, <3>1, <3>2 DEF TaskTyped, PassOf, Connected
  <2>4. task' = [task EXCEPT ![i] = n] /\ page' = [page EXCEPT ![i] = g]
    BY <1>5 DEF PassStarts, PassInv, m
  <2> QED BY <2>1, <2>3, <2>4, OneMeet
<1>6. CASE Swum(i)
  <2> DEFINE n == [t EXCEPT !.pc = "holds"]
  <2> DEFINE g == [pg EXCEPT !.console = @ \cup {t.at}]
  <2>1. /\ n.pc = "holds" /\ n.results = t.results /\ n.at = t.at
        /\ n = [pc |-> n.pc, opts |-> n.opts, at |-> n.at, results |-> n.results]
        /\ g.console = pg.console \cup {t.at} /\ g.official = pg.official
        /\ g = [console |-> g.console, official |-> g.official]
    BY <1>1 DEF TaskTyped
  <2>2. t.pc = "swims" /\ t.at \in Nat \ {0} /\ pg.console = 1 .. (t.at - 1)
    BY <1>1, <1>6 DEF PassOf, Swum
  <2>3. 1 .. (t.at - 1) \cup {t.at} = 1 .. t.at
    BY <2>2
  <2>4. TaskTyped(n) /\ PassOf(n, g)
    BY <1>1, <2>1, <2>2, <2>3 DEF TaskTyped, PassOf, Connected
  <2>5. task' = [task EXCEPT ![i] = n] /\ page' = [page EXCEPT ![i] = g]
    BY <1>6 DEF Swum, PassInv
  <2> QED BY <2>1, <2>4, <2>5, OneMeet
<1>7. ASSUME NEW lag \in 1 .. 2, Held(i, lag) PROVE PassInv'
  <2> DEFINE r == Validated(t.results, t.at, lag)
  <2> DEFINE a == [t EXCEPT !.pc = "swims"]
  <2> DEFINE b == [a EXCEPT !.at = t.at + 1]
  <2> DEFINE c == [b EXCEPT !.results = r]
  <2> DEFINE z == [NoTask EXCEPT !.pc = "starts", !.opts = t.opts]
  <2> DEFINE g == [pg EXCEPT !.official = r]
  <2>1. /\ t.pc = "holds" /\ t.at \in Nat \ {0} /\ pg.official = t.results
        /\ pg.console = 1 .. t.at /\ t.results \subseteq 1 .. (t.at - 2)
        /\ 1 .. (t.at - 3) \subseteq t.results
    BY <1>1, <1>7 DEF PassOf, Held
  <2>2. /\ r \subseteq 1 .. ((t.at + 1) - 2) /\ 1 .. ((t.at + 1) - 3) \subseteq r
    <3>1. lag = 1 \/ lag = 2
      OBVIOUS
    <3>2. 1 .. (t.at - 2) \subseteq 1 .. (t.at - 1)
      BY <2>1
    <3>3. 1 .. (t.at - lag) \subseteq 1 .. (t.at - 1) /\ 1 .. (t.at - 2) \subseteq 1 .. (t.at - lag)
      BY <2>1, <3>1
    <3>4. (t.at + 1) - 2 = t.at - 1 /\ (t.at + 1) - 3 = t.at - 2
      BY <2>1
    <3> QED BY <2>1, <3>2, <3>3, <3>4 DEF Validated
  <2>3. /\ a.pc = "swims" /\ a.results = t.results /\ a.at = t.at
        /\ a = [pc |-> a.pc, opts |-> a.opts, at |-> a.at, results |-> a.results]
    BY <1>1 DEF TaskTyped
  <2> HIDE DEF a, r
  <2>4. /\ b.pc = "swims" /\ b.results = t.results /\ b.at = t.at + 1
        /\ b = [pc |-> b.pc, opts |-> b.opts, at |-> b.at, results |-> b.results]
    BY <2>3
  <2> HIDE DEF b
  <2>5. /\ c.pc = "swims" /\ c.results = r /\ c.at = t.at + 1
        /\ c = [pc |-> c.pc, opts |-> c.opts, at |-> c.at, results |-> c.results]
    BY <2>4
  <2>6. /\ g.console = pg.console /\ g.official = r
        /\ g = [console |-> g.console, official |-> g.official]
    BY <1>1
  <2>7. page' = [page EXCEPT ![i] = g]
    <3>1. page' = [page EXCEPT ![i].official = IF r = t.results THEN @ ELSE r]
      BY <1>7 DEF Held, r
    <3>2. (IF r = t.results THEN pg.official ELSE r) = r
      BY <2>1
    <3> QED BY <3>1, <3>2
  <2>8. task' = [task EXCEPT ![i] = NextHeat(t, r)]
    BY <1>7 DEF Held, r
  <2>9. NextHeat(t, r) = IF t.at < HeatCount THEN c ELSE z
    <3>1. [t EXCEPT !.pc = "swims", !.at = @ + 1, !.results = r] = c
      BY <2>3 DEF a, b
    <3> QED BY <3>1 DEF NextHeat
  <2> HIDE DEF c, g
  <2>10. CASE t.at < HeatCount
    <3>1. TaskTyped(c) /\ PassOf(c, g)
      <4>1. (t.at + 1) - 1 = t.at /\ t.at + 1 \in Nat \ {0}
        BY <2>1
      <4> QED BY <2>1, <2>2, <2>5, <2>6, <4>1 DEF TaskTyped, PassOf, Connected
    <3> QED BY <2>6, <2>7, <2>8, <2>9, <2>10, <3>1, OneMeet
  <2>11. CASE ~(t.at < HeatCount)
    <3>1. TaskTyped(z) /\ PassOf(z, g)
      BY StagePass
    <3> QED BY <2>6, <2>7, <2>8, <2>9, <2>11, <3>1, OneMeet
  <2> QED BY <2>10, <2>11
<1>8. CASE SessionEnds(i)
  <2>1. TaskTyped(Waiting) /\ PassOf(Waiting, pg)
    BY FreshPass
  <2> QED BY <1>1, <1>8, <2>1, OneMeet DEF SessionEnds
<1>9. CASE Disconnected(i)
  BY <1>9 DEF Disconnected, PassInv
<1>10. CASE NodeForgets(i)
  <2>1. NoTimes = [console |-> NoTimes.console, official |-> NoTimes.official]
    BY DEF NoTimes
  <2>2. PassOf(t, NoTimes)
    <3>1. t.pc \notin {"swims", "holds"} /\ NoTimes.console = {}
      BY <1>10 DEF NodeForgets, NoTimes, Connected
    <3> QED BY <1>1, <3>1 DEF PassOf
  <2> QED BY <1>1, <1>10, <2>1, <2>2, OneMeet DEF NodeForgets
<1> QED BY <1>2, <1>3, <1>4, <1>5, <1>6, <1>7, <1>8, <1>9, <1>10

\* A Start, a Stop or a restart leaves a task as it is, or at its start.
LEMMA TasksAnew ==
  ASSUME PassInv, UNCHANGED page, task' = [i \in Meets |-> task'[i]],
         \A i \in Meets : task'[i] \in {task[i], NoTask, Waiting}
  PROVE  PassInv'
<1>1. ASSUME NEW i \in Meets PROVE TaskTyped(task'[i]) /\ PassOf(task'[i], page[i])
  <2>1. CASE task'[i] = task[i]
    BY <2>1 DEF PassInv
  <2>2. CASE task'[i] \in {NoTask, Waiting}
    BY <2>2, FreshPass
  <2> QED BY <2>1, <2>2
<1> QED BY <1>1 DEF PassInv

LEMMA InitPass == Init => PassInv
<1> SUFFICES ASSUME Init PROVE PassInv OBVIOUS
<1>1. task = [i \in Meets |-> NoTask] /\ page = [i \in Meets |-> NoTimes]
  BY DEF Init, TestInit
<1>2. NoTimes = [console |-> NoTimes.console, official |-> NoTimes.official]
  BY DEF NoTimes
<1>3. ASSUME NEW i \in Meets PROVE TaskTyped(task[i]) /\ PassOf(task[i], page[i])
  BY <1>1, FreshPass
<1> QED BY <1>1, <1>2, <1>3 DEF PassInv

LEMMA NextPass == PassInv /\ [Next]_vars => PassInv'
<1> SUFFICES ASSUME PassInv, [Next]_vars PROVE PassInv' OBVIOUS
<1>1. CASE PanelStep \/ UNCHANGED vars
  BY <1>1 DEF PanelStep, vars, testVars, PassInv
<1>2. ASSUME NEW p \in Posts, NEW n \in Meets, NEW opts \in Options, Start(p, n, opts)
      PROVE  PassInv'
  BY <1>2 DEF Start, PassInv
<1>3. ASSUME NEW p \in Posts, StartedMeets(p) PROVE PassInv'
  <2>1. /\ UNCHANGED page /\ task' = [i \in Meets |-> task'[i]]
        /\ \A i \in Meets : task'[i] \in {task[i], NoTask, Waiting}
    BY <1>3 DEF StartedMeets, StartMeets
  <2> QED BY <2>1, TasksAnew
<1>4. ASSUME NEW p \in Posts, SetWanted(p) \/ SetOptions(p) \/ SetNone(p) \/ Forget(p)
      PROVE  PassInv'
  <2>1. UNCHANGED <<task, page>>
    BY <1>4 DEF SetWanted, SetOptions, SetNone, Put, testVars, Forget
  <2> QED BY <2>1 DEF PassInv
<1>5. ASSUME NEW p \in Posts, Stop(p) PROVE PassInv'
  <2>1. /\ UNCHANGED page /\ task' = [i \in Meets |-> NoTask]
    BY <1>5 DEF Stop, StopMeets
  <2> QED BY <2>1, TasksAnew
<1>6. CASE Restart
  <2>1. /\ UNCHANGED page
        /\ task' = [i \in Meets |-> IF i <= settings.wanted THEN Waiting ELSE NoTask]
    BY <1>6 DEF Restart
  <2> QED BY <2>1, TasksAnew
<1>7. ASSUME NEW i \in Meets,
             \/ Assigned(i) \/ Registered(i) \/ LoopStarts(i) \/ PassStarts(i) \/ Swum(i)
             \/ \E lag \in 1 .. 2 : Held(i, lag)
             \/ SessionEnds(i) \/ Disconnected(i) \/ NodeForgets(i)
      PROVE  PassInv'
  BY <1>7, MeetKeepsPass
<1> QED BY <1>1, <1>2, <1>3, <1>4, <1>5, <1>6, <1>7 DEF Next, TestNext

\* What a test meet's pages show belongs to the pass being swum, in every case:
\* posts that overlap, registers that land late, restarts in the middle of a
\* pass (test_loop, the schedule without a result, validate).
THEOREM PagesFollowThePass == Spec => []PageOfThisPass
<1> QED BY InitPass, NextPass, PassMeans, PTL DEF Spec

-----------------------------------------------------------------------------
(* What runs is what was asked for.                                        *)

\* Posts and registers in order (README, "Cases").
InOrder == Serialised /\ ~LateRegisters

RunsTo(n) == \A i \in Meets : task[i].pc # "none" <=> i <= n
NoneRuns == \A i \in Meets : task[i].pc = "none"
Testing == \E p \in Posts : post[p].kind \in TestPosts \ {"start"}

\* A task carries the runner's options, and a register its task.
TasksHold ==
    /\ task = [i \in Meets |-> task[i]] /\ card = [i \in Meets |-> card[i]]
    /\ runner.opts \in Nat
    /\ \A i \in Meets : /\ TaskTyped(task[i])
                        /\ task[i].pc \notin {"none", "waits"} => task[i].opts = runner.opts
                        /\ i \in flight => task[i].pc = "registers"

\* What runs and what is stored, as far as a post has come.
PhaseOf(d) ==
    /\ d.kind = "wanted" => RunsTo(d.arg.count)
    /\ d.kind = "options" => RunsTo(d.arg.count) /\ settings.wanted = d.arg.count
    /\ d.kind = "zero" => NoneRuns
    /\ d.kind = "forget" => NoneRuns /\ settings.wanted = 0

AsPosted ==
    /\ ~Testing => /\ RunsTo(settings.wanted)
                   /\ NoneRuns \/ runner.opts = StoredOptions
    /\ \A p \in Posts : PhaseOf(post[p])

\* A Stop that was answered leaves nothing to come back.
StaysStopped ==
    stopped => /\ \A p \in Posts : post[p].kind \notin {"start", "wanted", "options"}
               /\ \A i \in Meets : task[i].pc = "none" /\ card[i] = "none" /\ ~(i <= settings.wanted)

TestsInv == TasksHold /\ AsPosted /\ StaysStopped

LEMMA InitTests == Init => TestsInv
<1> SUFFICES ASSUME Init PROVE TestsInv OBVIOUS
<1>1. /\ task = [i \in Meets |-> NoTask] /\ card = [i \in Meets |-> "none"] /\ runner = NoRunner
      /\ flight = {} /\ stopped = FALSE /\ settings = NoSettings /\ post = [p \in Posts |-> Idle]
  BY DEF Init, PanelInit, TestInit
<1>2. NoneRuns
  BY <1>1, FreshTasks DEF NoneRuns
<1>3. TasksHold
  BY <1>1, FreshTasks DEF TasksHold, NoRunner
<1>4. AsPosted
  <2>1. \A i \in Meets : i \in Nat \ {0}
    BY TestMeetsAssumption
  <2>2. RunsTo(settings.wanted)
    BY <1>1, <1>2, <2>1 DEF RunsTo, NoneRuns, NoSettings, NoRow
  <2>3. \A p \in Posts : PhaseOf(post[p])
    BY <1>1 DEF PhaseOf, Idle
  <2> QED BY <1>2, <2>2, <2>3 DEF AsPosted
<1> QED BY <1>1, <1>3, <1>4 DEF TestsInv, StaysStopped

\* A post that is none of the test meets' changes neither of their rows.
LEMMA ElsewherePosted ==
  ASSUME TestsInv, UNCHANGED testVars, settings'.wanted = settings.wanted,
         settings'.options = settings.options,
         \A p \in Posts : \/ post'[p] = post[p]
                          \/ post[p].kind \notin TestPosts /\ post'[p].kind \notin TestPosts
  PROVE  TestsInv'
<1>1. UNCHANGED <<runner, task, flight, card, stopped>>
  BY DEF testVars
<1>2. TasksHold'
  BY <1>1 DEF TestsInv, TasksHold
<1>3. Testing' <=> Testing
  BY DEF Testing, TestPosts
<1>4. AsPosted'
  <2>1. ~Testing' => RunsTo(settings.wanted)' /\ (NoneRuns' \/ runner'.opts = StoredOptions')
    BY <1>1, <1>3 DEF TestsInv, AsPosted, RunsTo, NoneRuns, StoredOptions
  <2>2. ASSUME NEW p \in Posts PROVE PhaseOf(post[p])'
    <3>1. CASE post'[p] = post[p]
      BY <1>1, <3>1 DEF TestsInv, AsPosted, PhaseOf, RunsTo, NoneRuns
    <3>2. CASE post'[p].kind \notin TestPosts
      BY <3>2 DEF PhaseOf, TestPosts
    <3> QED BY <3>1, <3>2
  <2> QED BY <2>1, <2>2 DEF AsPosted
<1>5. StaysStopped'
  BY <1>1 DEF TestsInv, StaysStopped, TestPosts
<1> QED BY <1>2, <1>4, <1>5 DEF TestsInv

\* A post of the panel that begins or ends.
LEMMA BeginsElsewhere ==
  ASSUME IInv, NEW p \in Posts, NEW kind \in Savers \cup {"user_add"}, NEW tab, NEW arg,
         Begin(p, kind, tab, arg)
  PROVE  \A q \in Posts : \/ post'[q] = post[q]
                          \/ post[q].kind \notin TestPosts /\ post'[q].kind \notin TestPosts
<1>1. /\ post[p] = Idle /\ post = [q \in Posts |-> post[q]]
      /\ post' = [post EXCEPT ![p] = [kind |-> kind, creds |-> settings, owner |-> owner, arg |-> arg]]
  BY DEF Begin, IInv, PanelTyped
<1>2. \A q \in Posts : post'[q] = IF q = p THEN [kind |-> kind, creds |-> settings, owner |-> owner,
                                                arg |-> arg] ELSE post[q]
  BY <1>1
<1>3. kind \notin TestPosts /\ Idle.kind \notin TestPosts
  BY DEF Idle, Savers, TestPosts
<1> QED BY <1>1, <1>2, <1>3

LEMMA EndsElsewhere ==
  ASSUME IInv, NEW p \in Posts, post[p].kind \in Savers \cup {"user_add"},
         post' = [post EXCEPT ![p] = Idle]
  PROVE  \A q \in Posts : \/ post'[q] = post[q]
                          \/ post[q].kind \notin TestPosts /\ post'[q].kind \notin TestPosts
BY DEF IInv, PanelTyped, Idle, Savers, TestPosts

LEMMA PanelKeepsTests ==
  ASSUME IInv, Serialised, TestsInv, PanelStep PROVE TestsInv'
<1>1. PanelNext /\ UNCHANGED testVars /\ settings \in Settings
  BY DEF PanelStep, IInv, PanelTyped
<1>2. ASSUME NEW p \in Posts,
             \/ \E t \in Titles : LoadTitle(p, t)
             \/ \E on \in {Off, On} : LoadCounting(p, on)
             \/ \E n \in Names, pw \in Passwords : LoadLogin(p, n, pw)
             \/ \E n \in Names, pw \in Passwords, r \in Roles : LoadUser(p, n, pw, r)
             \/ Restore(p)
      PROVE  TestsInv'
  <2>1. \E kind \in Savers \cup {"user_add"} : \E tab, arg : Begin(p, kind, tab, arg)
    BY <1>2 DEF LoadTitle, LoadCounting, LoadLogin, LoadUser, Restore, Savers
  <2>2. UNCHANGED settings
    BY <1>2 DEF LoadTitle, LoadCounting, LoadLogin, LoadUser, Restore
  <2> QED BY <1>1, <2>1, <2>2, BeginsElsewhere, ElsewherePosted
<1>3. ASSUME NEW p \in Posts, Save(p) PROVE TestsInv'
  <2>1. /\ post[p].kind \in Savers /\ post' = [post EXCEPT ![p] = Idle] /\ settings' = Creds(p)
    BY <1>3 DEF Save, Savers, SaveCreds
  <2>2. post[p].creds = settings
    BY <2>1 DEF IInv, SavesAlone
  <2>3. settings'.wanted = settings.wanted /\ settings'.options = settings.options
    BY <1>1, <2>1, <2>2 DEF Creds, Settings
  <2> QED BY <1>1, <2>1, <2>3, EndsElsewhere, ElsewherePosted
<1>4. ASSUME NEW p \in Posts, RestoreSave(p) PROVE TestsInv'
  <2>1. /\ post[p].kind = "restore" /\ post' = [post EXCEPT ![p] = Idle]
        /\ settings' = Merged(post[p].creds)
    BY <1>4 DEF RestoreSave, SaveCreds
  <2>2. /\ post[p].creds = settings /\ file # NoFile
        /\ file.settings.wanted = NoRow /\ file.settings.options = NoRow
    BY <2>1 DEF IInv, SavesAlone, NamesFree, FileEarly, Savers
  <2>3. settings'.wanted = settings.wanted /\ settings'.options = settings.options
    BY <1>1, <2>1, <2>2 DEF Merged, Settings
  <2> QED BY <1>1, <2>1, <2>3, EndsElsewhere, ElsewherePosted DEF Savers
<1>5. ASSUME NEW p \in Posts, AddUser(p) PROVE TestsInv'
  <2>1. post[p].kind = "user_add" /\ post' = [post EXCEPT ![p] = Idle] /\ UNCHANGED settings
    BY <1>5 DEF AddUser
  <2> QED BY <1>1, <2>1, EndsElsewhere, ElsewherePosted
<1>6. ASSUME \/ \E n \in Names : DeleteUser(n) \/ \E pw \in Passwords, r \in Roles : UpdateUser(n, pw, r)
             \/ \E k \in Keys : AddOrganizer(k) \/ Revoke(k) \/ DeleteOrganizer(k) \/ Ask(k)
             \/ \E full \in BOOLEAN : Backup(full)
      PROVE  TestsInv'
  <2>1. UNCHANGED <<settings, post>>
    BY <1>6 DEF DeleteUser, UpdateUser, AddOrganizer, Revoke, DeleteOrganizer, Ask, Backup
  <2> QED BY <1>1, <2>1, ElsewherePosted
<1>7. CASE StartRollout \/ StopRollout \/ RolloutDone
  <2>1. /\ UNCHANGED post
        /\ settings'.wanted = settings.wanted /\ settings'.options = settings.options
    BY <1>1, <1>7 DEF StartRollout, StopRollout, RolloutDone, Settings
  <2> QED BY <1>1, <2>1, ElsewherePosted
<1> QED BY <1>1, <1>2, <1>3, <1>4, <1>5, <1>6, <1>7 DEF PanelNext

\* A step of one meet, whose task stays or goes on with the runner's options.
LEMMA TaskGoesOn ==
  ASSUME TestsInv, UNCHANGED panelVars, UNCHANGED <<runner, stopped>>, NEW i \in Meets, NEW t,
         task' = [task EXCEPT ![i] = t], TaskTyped(t), t.pc = "none" <=> task[i].pc = "none",
         t.pc \notin {"none", "waits"} => t.opts = runner.opts,
         \A j \in Meets : j \in flight' => IF j = i THEN t.pc = "registers" ELSE j \in flight,
         card' = [j \in Meets |-> card'[j]],
         \A j \in Meets : task[j].pc = "none" /\ card[j] = "none" => card'[j] = "none"
  PROVE  TestsInv'
<1>1. /\ UNCHANGED <<settings, post>>
      /\ task' = [j \in Meets |-> task'[j]]
      /\ \A j \in Meets : task'[j] = IF j = i THEN t ELSE task[j]
  BY DEF panelVars, TestsInv, TasksHold
<1>2. TasksHold'
  BY <1>1 DEF TestsInv, TasksHold
<1>3. Testing' <=> Testing
  BY <1>1 DEF Testing
<1>4. AsPosted'
  <2>1. ~Testing' => RunsTo(settings.wanted)' /\ (NoneRuns' \/ runner'.opts = StoredOptions')
    BY <1>1, <1>3 DEF TestsInv, AsPosted, RunsTo, NoneRuns, StoredOptions
  <2>2. ASSUME NEW p \in Posts PROVE PhaseOf(post[p])'
    BY <1>1 DEF TestsInv, AsPosted, PhaseOf, RunsTo, NoneRuns
  <2> QED BY <2>1, <2>2 DEF AsPosted
<1>5. StaysStopped'
  BY <1>1 DEF TestsInv, StaysStopped
<1> QED BY <1>2, <1>4, <1>5 DEF TestsInv

LEMMA MeetKeepsTests ==
  ASSUME InOrder, TestsInv, NEW i \in Meets,
         \/ Assigned(i) \/ Registered(i) \/ LoopStarts(i) \/ PassStarts(i) \/ Swum(i)
         \/ \E lag \in 1 .. 2 : Held(i, lag)
         \/ SessionEnds(i) \/ Disconnected(i) \/ NodeForgets(i)
  PROVE  TestsInv'
<1> DEFINE t == task[i]
<1>1. /\ TaskTyped(t) /\ task = [task EXCEPT ![i] = t]
      /\ t = [pc |-> t.pc, opts |-> t.opts, at |-> t.at, results |-> t.results]
      /\ t.pc \notin {"none", "waits"} => t.opts = runner.opts
      /\ \A j \in Meets : j \in flight => task[j].pc = "registers"
      /\ card = [j \in Meets |-> card[j]]
  BY DEF TestsInv, TasksHold, TaskTyped
<1>2. UNCHANGED panelVars /\ UNCHANGED <<runner, stopped>>
  BY DEF Assigned, Registered, LoopStarts, PassStarts, Swum, Held, SessionEnds, Disconnected,
         NodeForgets, Only
<1>3. CASE Assigned(i)
  <2> DEFINE n == [NoTask EXCEPT !.pc = "registers", !.opts = runner.opts]
  <2>1. TaskTyped(n) /\ n.pc = "registers" /\ n.opts = runner.opts
    BY Staged
  <2>2. /\ task' = [task EXCEPT ![i] = n] /\ t.pc = "waits"
        /\ flight' = flight \cup {i} /\ UNCHANGED card
    BY <1>3 DEF Assigned
  <2> HIDE DEF n
  <2> QED BY <1>1, <1>2, <2>1, <2>2, TaskGoesOn
<1>4. CASE Registered(i)
  <2> DEFINE n == [t EXCEPT !.pc = IF @ = "registers" THEN "starts" ELSE @]
  <2>1. /\ n.pc = (IF t.pc = "registers" THEN "starts" ELSE t.pc) /\ n.opts = t.opts
        /\ n = [pc |-> n.pc, opts |-> n.opts, at |-> n.at, results |-> n.results]
    BY <1>1
  <2>2. /\ task' = [task EXCEPT ![i] = n] /\ t.pc = "registers"
        /\ flight' = flight \ {i} /\ card' = [card EXCEPT ![i] = "live"]
    BY <1>1, <1>4 DEF Registered
  <2>3. TaskTyped(n) /\ n.pc = "starts" /\ n.opts = runner.opts
    BY <1>1, <2>1, <2>2 DEF TaskTyped, Connected
  <2>4. /\ card' = [j \in Meets |-> card'[j]]
        /\ \A j \in Meets : j # i => card'[j] = card[j]
    BY <1>1, <2>2
  <2> HIDE DEF n
  <2> QED BY <1>1, <1>2, <2>2, <2>3, <2>4, TaskGoesOn
<1>5. CASE LoopStarts(i)
  <2> DEFINE n == [t EXCEPT !.pc = "cleared"]
  <2>1. /\ TaskTyped(n) /\ n.pc = "cleared" /\ n.opts = t.opts
    BY <1>1 DEF TaskTyped, Connected
  <2>2. task' = [task EXCEPT ![i] = n] /\ t.pc = "starts" /\ UNCHANGED <<flight, card>>
    BY <1>5 DEF LoopStarts
  <2> HIDE DEF n
  <2> QED BY <1>1, <1>2, <2>1, <2>2, TaskGoesOn
<1>6. CASE PassStarts(i)
  <2> DEFINE m == [t EXCEPT !.pc = "swims"]
  <2> DEFINE n == [m EXCEPT !.at = 1]
  <2>1. /\ m.pc = "swims" /\ m.opts = t.opts
        /\ m = [pc |-> m.pc, opts |-> m.opts, at |-> m.at, results |-> m.results]
    BY <1>1
  <2>2. task' = [task EXCEPT ![i] = n] /\ t.pc = "cleared" /\ UNCHANGED <<flight, card>>
    BY <1>1, <1>6 DEF PassStarts
  <2> HIDE DEF m
  <2>3. /\ n.pc = "swims" /\ n.opts = t.opts
        /\ n = [pc |-> n.pc, opts |-> n.opts, at |-> n.at, results |-> n.results]
    BY <2>1
  <2> HIDE DEF n
  <2>4. TaskTyped(n)
    BY <2>3 DEF TaskTyped, Connected
  <2> QED BY <1>1, <1>2, <2>2, <2>3, <2>4, TaskGoesOn
<1>7. CASE Swum(i)
  <2> DEFINE n == [t EXCEPT !.pc = "holds"]
  <2>1. /\ TaskTyped(n) /\ n.pc = "holds" /\ n.opts = t.opts
    BY <1>1 DEF TaskTyped, Connected
  <2>2. task' = [task EXCEPT ![i] = n] /\ t.pc = "swims" /\ UNCHANGED <<flight, card>>
    BY <1>7 DEF Swum
  <2> HIDE DEF n
  <2> QED BY <1>1, <1>2, <2>1, <2>2, TaskGoesOn
<1>8. ASSUME NEW lag \in 1 .. 2, Held(i, lag) PROVE TestsInv'
  <2> DEFINE r == Validated(t.results, t.at, lag)
  <2> DEFINE n == NextHeat(t, r)
  <2>1. task' = [task EXCEPT ![i] = n] /\ t.pc = "holds" /\ UNCHANGED <<flight, card>>
    BY <1>8 DEF Held
  <2> HIDE DEF r
  <2>2. TaskTyped(n) /\ n.pc \in {"swims", "starts"} /\ n.opts = t.opts
    BY <1>1, HeatStaged
  <2> HIDE DEF n
  <2> QED BY <1>1, <1>2, <2>1, <2>2, TaskGoesOn
<1>9. CASE SessionEnds(i)
  <2>1. /\ task' = [task EXCEPT ![i] = Waiting] /\ t.pc \in Connected \cup {"registers"}
        /\ flight' = flight \ {i} /\ UNCHANGED card
    BY <1>9 DEF SessionEnds, Cancelled, InOrder
  <2>2. t.pc # "none"
    BY <2>1 DEF Connected
  <2> QED BY <1>1, <1>2, <2>1, <2>2, FreshTasks, TaskGoesOn
<1>10. CASE Disconnected(i)
  <2>1. card' = [card EXCEPT ![i] = "kept"] /\ card[i] = "live" /\ UNCHANGED <<task, flight>>
    BY <1>10 DEF Disconnected
  <2>2. /\ card' = [j \in Meets |-> card'[j]]
        /\ \A j \in Meets : j # i => card'[j] = card[j]
    BY <1>1, <2>1
  <2> QED BY <1>1, <1>2, <2>1, <2>2, TaskGoesOn
<1>11. CASE NodeForgets(i)
  <2>1. UNCHANGED <<task, flight, card>>
    BY <1>11 DEF NodeForgets
  <2> QED BY <1>1, <1>2, <2>1, TaskGoesOn
<1> QED BY <1>3, <1>4, <1>5, <1>6, <1>7, <1>8, <1>9, <1>10, <1>11

\* The settings a Put writes.
LEMMA PutRows ==
  ASSUME IInv, NEW value, NEW posted
  PROVE  /\ Put("wanted", value, posted) => settings'.wanted = value /\ settings'.options = settings.options
         /\ Put("options", value, posted) => settings'.options = value /\ settings'.wanted = settings.wanted
<1>1. settings \in Settings
  BY DEF IInv, PanelTyped
<1>2. ASSUME Put("wanted", value, posted)
      PROVE  settings'.wanted = value /\ settings'.options = settings.options
  BY <1>1, <1>2 DEF Put, Settings
<1>3. ASSUME Put("options", value, posted)
      PROVE  settings'.options = value /\ settings'.wanted = settings.wanted
  BY <1>1, <1>3 DEF Put, Settings
<1> QED BY <1>2, <1>3

\* One Start or Stop at a time.
LEMMA OneTestPost ==
  ASSUME IInv, NEW p \in Posts, post[p].kind \in TestPosts
  PROVE  \A q \in Posts : post[q].kind \in TestPosts => q = p
  BY DEF IInv, TestsAlone

LEMMA StartKeepsTests ==
  ASSUME InOrder, IInv, TestsInv, NEW p \in Posts, NEW n \in Meets, NEW opts \in Options,
         Start(p, n, opts)
  PROVE  TestsInv'
<1>1. /\ UNCHANGED <<settings, runner, task, flight, card>> /\ stopped' = FALSE
      /\ \A q \in Posts : post[q].kind \notin TestPosts
      /\ post' = [post EXCEPT ![p] = [Idle EXCEPT !.kind = "start",
                                                  !.arg = [count |-> n, opts |-> opts]]]
      /\ post = [q \in Posts |-> post[q]]
  BY DEF Start, TestPost, InOrder, Serialised, IInv, PanelTyped
<1>2. /\ \A q \in Posts : q # p => post'[q] = post[q]
      /\ post'[p].kind = "start"
  BY <1>1 DEF Idle
<1>3. /\ \A q \in Posts : post[q].kind \notin {"wanted", "options", "zero", "forget"}
      /\ \A q \in Posts : post'[q].kind \notin {"wanted", "options", "zero", "forget"}
  BY <1>1, <1>2 DEF TestPosts
<1>4. ~Testing /\ ~Testing'
  BY <1>3 DEF Testing, TestPosts
<1>5. TasksHold'
  BY <1>1 DEF TestsInv, TasksHold
<1>6. AsPosted'
  <2>1. RunsTo(settings.wanted)' /\ (NoneRuns' \/ runner'.opts = StoredOptions')
    BY <1>1, <1>4 DEF TestsInv, AsPosted, RunsTo, NoneRuns, StoredOptions
  <2>2. ASSUME NEW q \in Posts PROVE PhaseOf(post[q])'
    BY <1>3 DEF PhaseOf
  <2> QED BY <2>1, <2>2 DEF AsPosted
<1> QED BY <1>1, <1>5, <1>6 DEF TestsInv, StaysStopped

\* A post that goes on: what it leaves of the others is idle as to the test meets.
LEMMA Alone ==
  ASSUME IInv, NEW p \in Posts, post[p].kind \in TestPosts, NEW d, post' = [post EXCEPT ![p] = d]
  PROVE  /\ post'[p] = d
         /\ \A q \in Posts : q # p => post'[q] = post[q] /\ post[q].kind \notin TestPosts
<1>1. post = [q \in Posts |-> post[q]]
  BY DEF IInv, PanelTyped
<1> QED BY <1>1, OneTestPost

LEMMA StartedKeepsTests ==
  ASSUME InOrder, IInv, TestsInv, NEW p \in Posts, StartedMeets(p)
  PROVE  TestsInv'
<1> DEFINE a == post[p].arg
<1> DEFINE gone == {i \in Runs : i > a.count \/ a.opts # runner.opts}
<1> DEFINE d == [post[p] EXCEPT !.kind = "wanted"]
<1>1. /\ post[p].kind = "start" /\ StartMeets(a.count, a.opts)
      /\ post' = [post EXCEPT ![p] = d] /\ UNCHANGED <<settings, card, stopped>>
  <2>1. /\ post[p].kind = "start" /\ StartMeets(a.count, a.opts)
        /\ Goes(p, "wanted") /\ UNCHANGED <<settings, card, stopped>>
    BY DEF StartedMeets
  <2>2. post' = [post EXCEPT ![p] = d]
    BY <2>1 DEF Goes, IInv, PanelTyped
  <2> QED BY <2>1, <2>2
<1>2. a.count \in Meets /\ a.opts \in Options /\ d.kind = "wanted" /\ d.arg = a
  BY <1>1 DEF IInv, PanelTyped, PostTyped
<1>3. /\ runner'.opts = a.opts
      /\ task' = [i \in Meets |-> IF i > a.count THEN NoTask
                                  ELSE IF i \in Runs \ gone THEN task[i] ELSE Waiting]
      /\ flight' = flight \ gone
  BY <1>1 DEF StartMeets, Cancelled, InOrder
<1>4. /\ post'[p] = d
      /\ \A q \in Posts : q # p => post'[q] = post[q] /\ post[q].kind \notin TestPosts
  <2> HIDE DEF d
  <2> QED BY <1>1, Alone DEF TestPosts
<1> HIDE DEF d
<1>5. \A i \in Meets : i \in Nat
  BY TestMeetsAssumption
<1>6. ASSUME NEW i \in Meets
      PROVE  /\ TaskTyped(task'[i]) /\ (task'[i].pc # "none" <=> i <= a.count)
             /\ task'[i].pc \notin {"none", "waits"} => task'[i].opts = runner'.opts
             /\ i \in flight' => task'[i].pc = "registers"
  <2>1. CASE i > a.count
    <3>1. task'[i] = NoTask /\ ~(i <= a.count)
      BY <1>2, <1>3, <1>5, <2>1
    <3>2. i \notin flight'
      BY <1>3, <2>1 DEF TestsInv, TasksHold, Runs
    <3> QED BY <3>1, <3>2, FreshTasks
  <2>2. CASE ~(i > a.count) /\ i \in Runs \ gone
    <3>1. task'[i] = task[i] /\ i <= a.count /\ task[i].pc # "none" /\ a.opts = runner.opts
      BY <1>2, <1>3, <1>5, <2>2 DEF Runs
    <3> QED BY <1>3, <3>1 DEF TestsInv, TasksHold
  <2>3. CASE ~(i > a.count) /\ i \notin Runs \ gone
    <3>1. task'[i] = Waiting /\ i <= a.count
      BY <1>2, <1>3, <1>5, <2>3
    <3>2. i \notin flight'
      BY <1>3, <2>3 DEF TestsInv, TasksHold, Runs
    <3> QED BY <3>1, <3>2, FreshTasks
  <2> QED BY <2>1, <2>2, <2>3
<1>7. TasksHold'
  <2>1. runner'.opts \in Nat
    BY <1>2, <1>3, TestMeetsAssumption
  <2> QED BY <1>1, <1>3, <1>6, <2>1 DEF TestsInv, TasksHold
<1>8. AsPosted'
  <2>1. Testing'
    BY <1>2, <1>4 DEF Testing, TestPosts
  <2>2. ASSUME NEW q \in Posts PROVE PhaseOf(post[q])'
    <3>1. CASE q = p
      BY <1>2, <1>4, <1>6, <3>1 DEF PhaseOf, RunsTo
    <3>2. CASE q # p
      BY <1>4, <3>2 DEF PhaseOf, TestPosts
    <3> QED BY <3>1, <3>2
  <2> QED BY <2>1, <2>2 DEF AsPosted
<1>9. StaysStopped'
  BY <1>1 DEF TestsInv, StaysStopped
<1> QED BY <1>7, <1>8, <1>9 DEF TestsInv

\* The two rows a Start writes, each once the meets run.
LEMMA RowsKeepTests ==
  ASSUME InOrder, IInv, TestsInv, NEW p \in Posts, SetWanted(p) \/ SetOptions(p) \/ SetNone(p)
  PROVE  TestsInv'
<1> DEFINE a == post[p].arg
<1>0. UNCHANGED <<runner, task, flight, card, stopped>> /\ post = [q \in Posts |-> post[q]]
  BY DEF SetWanted, SetOptions, SetNone, Put, testVars, IInv, PanelTyped
<1>1. TasksHold'
  BY <1>0 DEF TestsInv, TasksHold
<1>2. \A i \in Meets : i \in Nat \ {0}
  BY TestMeetsAssumption
<1>3. CASE SetWanted(p)
  <2> DEFINE d == [post[p] EXCEPT !.kind = "options"]
  <2>1. /\ post[p].kind = "wanted" /\ post' = [post EXCEPT ![p] = d] /\ settings'.wanted = a.count
    BY <1>0, <1>3, PutRows DEF SetWanted, Goes
  <2>2. d.kind = "options" /\ d.arg = a
    BY <2>1 DEF IInv, PanelTyped, PostTyped
  <2> HIDE DEF d
  <2>3. /\ post'[p] = d
        /\ \A q \in Posts : q # p => post'[q] = post[q] /\ post[q].kind \notin TestPosts
    BY <2>1, Alone DEF TestPosts
  <2>4. RunsTo(a.count)
    BY <2>1 DEF TestsInv, AsPosted, PhaseOf
  <2>5. Testing'
    BY <2>2, <2>3 DEF Testing, TestPosts
  <2>6. ASSUME NEW q \in Posts PROVE PhaseOf(post[q])'
    <3>1. CASE q = p
      BY <1>0, <2>1, <2>2, <2>3, <2>4, <3>1 DEF PhaseOf, RunsTo
    <3>2. CASE q # p
      BY <2>3, <3>2 DEF PhaseOf, TestPosts
    <3> QED BY <3>1, <3>2
  <2>7. ~stopped'
    BY <1>0, <2>1 DEF TestsInv, StaysStopped
  <2> QED BY <1>1, <2>5, <2>6, <2>7 DEF TestsInv, AsPosted, StaysStopped
<1>4. CASE SetOptions(p)
  <2>1. /\ post[p].kind = "options" /\ post' = [post EXCEPT ![p] = Idle]
        /\ settings'.options = runner.opts /\ settings'.wanted = settings.wanted
    BY <1>4, PutRows DEF SetOptions
  <2>2. /\ post'[p] = Idle
        /\ \A q \in Posts : q # p => post'[q] = post[q] /\ post[q].kind \notin TestPosts
    BY <2>1, Alone DEF TestPosts
  <2>3. RunsTo(a.count) /\ settings.wanted = a.count
    BY <2>1 DEF TestsInv, AsPosted, PhaseOf
  <2>4. runner'.opts = StoredOptions'
    <3>1. runner.opts \in Nat
      BY DEF TestsInv, TasksHold
    <3> QED BY <1>0, <2>1, <3>1 DEF StoredOptions, NoRow
  <2>5. RunsTo(settings.wanted)'
    BY <1>0, <2>1, <2>3 DEF RunsTo
  <2>6. ASSUME NEW q \in Posts PROVE PhaseOf(post[q])'
    <3>1. post'[q].kind \notin TestPosts
      BY <2>2, IdleIsIdle
    <3> QED BY <3>1 DEF PhaseOf, TestPosts
  <2>7. ~stopped'
    BY <1>0, <2>1 DEF TestsInv, StaysStopped
  <2> QED BY <1>1, <2>4, <2>5, <2>6, <2>7 DEF TestsInv, AsPosted, StaysStopped
<1>5. CASE SetNone(p)
  <2> DEFINE d == [post[p] EXCEPT !.kind = "forget"]
  <2>1. /\ post[p].kind = "zero" /\ post' = [post EXCEPT ![p] = d] /\ settings'.wanted = 0
    BY <1>0, <1>5, PutRows DEF SetNone, Goes
  <2>2. d.kind = "forget"
    BY <2>1 DEF IInv, PanelTyped, PostTyped
  <2> HIDE DEF d
  <2>3. /\ post'[p] = d
        /\ \A q \in Posts : q # p => post'[q] = post[q] /\ post[q].kind \notin TestPosts
    BY <2>1, Alone DEF TestPosts
  <2>4. \A i \in Meets : task[i].pc = "none"
    BY <2>1 DEF TestsInv, AsPosted, PhaseOf, NoneRuns
  <2>5. Testing'
    BY <2>2, <2>3 DEF Testing, TestPosts
  <2>6. ASSUME NEW q \in Posts PROVE PhaseOf(post[q])'
    <3>1. CASE q = p
      BY <1>0, <2>1, <2>2, <2>3, <2>4, <3>1 DEF PhaseOf, NoneRuns
    <3>2. CASE q # p
      BY <2>3, <3>2 DEF PhaseOf, TestPosts
    <3> QED BY <3>1, <3>2
  <2>7. StaysStopped'
    <3>1. \A q \in Posts : post'[q].kind \notin {"start", "wanted", "options"}
      BY <2>2, <2>3 DEF TestPosts
    <3> QED BY <1>0, <1>2, <2>1, <2>4, <3>1 DEF TestsInv, StaysStopped
  <2> QED BY <1>1, <2>5, <2>6, <2>7 DEF TestsInv, AsPosted
<1> QED BY <1>3, <1>4, <1>5

LEMMA StopKeepsTests ==
  ASSUME InOrder, IInv, TestsInv, NEW p \in Posts, Stop(p) PROVE TestsInv'
<1> DEFINE d == [Idle EXCEPT !.kind = "zero"]
<1>1. /\ UNCHANGED <<settings, runner, card, stopped>>
      /\ task' = [i \in Meets |-> NoTask] /\ flight' = flight \ Runs
      /\ \A q \in Posts : post[q].kind \notin TestPosts
      /\ post' = [post EXCEPT ![p] = d] /\ post = [q \in Posts |-> post[q]]
  BY DEF Stop, StopMeets, Cancelled, TestPost, InOrder, Serialised, IInv, PanelTyped
<1>2. /\ \A q \in Posts : q # p => post'[q] = post[q]
      /\ post'[p].kind = "zero"
  BY <1>1 DEF Idle
<1>3. \A i \in Meets : task'[i] = NoTask /\ i \notin flight'
  BY <1>1 DEF TestsInv, TasksHold, Runs
<1>4. TasksHold'
  BY <1>1, <1>3, FreshTasks DEF TestsInv, TasksHold
<1>5. AsPosted'
  <2>1. Testing'
    BY <1>2 DEF Testing, TestPosts
  <2>2. ASSUME NEW q \in Posts PROVE PhaseOf(post[q])'
    <3>1. CASE q = p
      BY <1>2, <1>3, <3>1, FreshTasks DEF PhaseOf, NoneRuns
    <3>2. CASE q # p
      BY <1>1, <1>2, <3>2 DEF PhaseOf, TestPosts
    <3> QED BY <3>1, <3>2
  <2> QED BY <2>1, <2>2 DEF AsPosted
<1>6. StaysStopped'
  <2>1. \A q \in Posts : post'[q].kind \notin {"start", "wanted", "options"}
    BY <1>1, <1>2 DEF TestPosts
  <2> QED BY <1>1, <1>3, <2>1, FreshTasks DEF TestsInv, StaysStopped
<1> QED BY <1>4, <1>5, <1>6 DEF TestsInv

LEMMA ForgetKeepsTests ==
  ASSUME InOrder, IInv, TestsInv, NEW p \in Posts, Forget(p) PROVE TestsInv'
<1>1. /\ post[p].kind = "forget" /\ card' = [i \in Meets |-> "none"]
      /\ post' = [post EXCEPT ![p] = Idle] /\ UNCHANGED <<settings, runner, task, flight>>
  BY DEF Forget, ForgetCards
<1>2. /\ post'[p] = Idle
      /\ \A q \in Posts : q # p => post'[q] = post[q] /\ post[q].kind \notin TestPosts
  BY <1>1, Alone DEF TestPosts
<1>3. settings.wanted = 0 /\ \A i \in Meets : task[i].pc = "none" /\ ~(i <= 0)
  BY <1>1, TestMeetsAssumption DEF TestsInv, AsPosted, PhaseOf, NoneRuns
<1>4. TasksHold'
  BY <1>1 DEF TestsInv, TasksHold
<1>5. \A q \in Posts : post'[q].kind \notin TestPosts
  BY <1>2, IdleIsIdle
<1>6. AsPosted'
  <2>1. RunsTo(settings.wanted)' /\ NoneRuns'
    BY <1>1, <1>3 DEF RunsTo, NoneRuns
  <2>2. ASSUME NEW q \in Posts PROVE PhaseOf(post[q])'
    BY <1>5 DEF PhaseOf, TestPosts
  <2> QED BY <2>1, <2>2 DEF AsPosted
<1>7. StaysStopped'
  BY <1>1, <1>3, <1>5 DEF StaysStopped, TestPosts
<1> QED BY <1>4, <1>6, <1>7 DEF TestsInv

\* A restart starts the meets stored, with the options stored.
LEMMA RestartKeepsTests ==
  ASSUME InOrder, IInv, TestsInv, Restart PROVE TestsInv'
<1>1. /\ post' = [p \in Posts |-> Idle] /\ UNCHANGED <<settings, card, stopped>>
      /\ task' = [i \in Meets |-> IF i <= settings.wanted THEN Waiting ELSE NoTask]
      /\ runner' = IF settings.wanted > 0 THEN [made |-> TRUE, opts |-> StoredOptions] ELSE NoRunner
      /\ flight' = flight \ Runs
  BY DEF Restart, Cancelled, InOrder
<1>2. \A i \in Meets : i \notin flight' /\ i \in Nat \ {0}
  BY <1>1, TestMeetsAssumption DEF TestsInv, TasksHold, Runs
<1>3. /\ settings.wanted \in Nat \cup {NoRow} /\ settings.options \in Nat \cup {NoRow}
  BY DEF IInv, PanelTyped, Settings, Values
<1>4. StoredOptions \in Nat
  BY <1>3 DEF StoredOptions, NoRow
<1>5. TasksHold'
  <2>1. runner'.opts \in Nat
    BY <1>1, <1>4 DEF NoRunner
  <2> QED BY <1>1, <1>2, <2>1, FreshTasks DEF TestsInv, TasksHold
<1>6. \A p \in Posts : post'[p].kind \notin TestPosts
  BY <1>1, IdleIsIdle
<1>7. AsPosted'
  <2>1. RunsTo(settings.wanted)'
    BY <1>1, FreshTasks DEF RunsTo
  <2>2. NoneRuns' \/ runner'.opts = StoredOptions'
    <3>1. CASE settings.wanted > 0
      BY <1>1, <3>1 DEF StoredOptions
    <3>2. CASE ~(settings.wanted > 0)
      <4>1. \A i \in Meets : ~(i <= settings.wanted)
        BY <1>2, <1>3, <3>2 DEF NoRow
      <4> QED BY <1>1, <4>1, FreshTasks DEF NoneRuns
    <3> QED BY <3>1, <3>2
  <2>3. ASSUME NEW p \in Posts PROVE PhaseOf(post[p])'
    BY <1>6 DEF PhaseOf, TestPosts
  <2> QED BY <2>1, <2>2, <2>3 DEF AsPosted
<1>8. StaysStopped'
  BY <1>1, <1>6, FreshTasks DEF TestsInv, StaysStopped, TestPosts
<1> QED BY <1>5, <1>7, <1>8 DEF TestsInv

LEMMA NextTests == InOrder /\ IInv /\ TestsInv /\ [Next]_vars => TestsInv'
<1> SUFFICES ASSUME InOrder, IInv, TestsInv, [Next]_vars PROVE TestsInv' OBVIOUS
<1>1. CASE PanelStep
  BY <1>1, PanelKeepsTests DEF InOrder
<1>2. CASE UNCHANGED vars
  BY <1>2, ElsewherePosted DEF vars, panelVars
<1>3. ASSUME NEW p \in Posts, NEW n \in Meets, NEW opts \in Options, Start(p, n, opts)
      PROVE  TestsInv'
  BY <1>3, StartKeepsTests
<1>4. ASSUME NEW p \in Posts,
             StartedMeets(p) \/ SetWanted(p) \/ SetOptions(p) \/ SetNone(p) \/ Stop(p) \/ Forget(p)
      PROVE  TestsInv'
  BY <1>4, StartedKeepsTests, RowsKeepTests, StopKeepsTests, ForgetKeepsTests
<1>5. CASE Restart
  BY <1>5, RestartKeepsTests
<1>6. ASSUME NEW i \in Meets,
             \/ Assigned(i) \/ Registered(i) \/ LoopStarts(i) \/ PassStarts(i) \/ Swum(i)
             \/ \E lag \in 1 .. 2 : Held(i, lag)
             \/ SessionEnds(i) \/ Disconnected(i) \/ NodeForgets(i)
      PROVE  TestsInv'
  BY <1>6, MeetKeepsTests
<1> QED BY <1>1, <1>2, <1>3, <1>4, <1>5, <1>6 DEF Next, TestNext

\* While posts come one at a time and no register outlives its meet, the meets
\* that run are those asked for, with the options asked for, through any
\* restart, and a Stop leaves no card behind (Runner.start, lifespan,
\* forget_test_meets).
THEOREM MeetsAsAsked == InOrder => (Spec => []TestMeetsAsAsked)
<1>1. IInv /\ TestsInv => TestMeetsAsAsked
  <2> SUFFICES ASSUME IInv, TestsInv PROVE TestMeetsAsAsked OBVIOUS
  <2>1. settings = meant.settings
    BY DEF IInv, Said
  <2>2. ASSUME NoTestPost
        PROVE  /\ Runs = {i \in Meets : i <= settings.wanted}
               /\ \A i \in Runs : task[i].pc # "waits" => task[i].opts = StoredOptions
    <3>1. ~Testing
      BY <2>2 DEF NoTestPost, Testing
    <3>2. RunsTo(settings.wanted) /\ (NoneRuns \/ runner.opts = StoredOptions)
      BY <3>1 DEF TestsInv, AsPosted
    <3> QED BY <3>2 DEF Runs, RunsTo, NoneRuns, TestsInv, TasksHold
  <2>3. stopped => \A i \in Meets : task[i].pc = "none" /\ card[i] = "none"
    BY DEF TestsInv, StaysStopped
  <2> QED BY <2>1, <2>2, <2>3 DEF TestMeetsAsAsked, StoredOptions
<1> SUFFICES ASSUME InOrder PROVE Spec => []TestMeetsAsAsked OBVIOUS
<1>2. IInv /\ [Next]_vars => IInv'
  BY NextIInv DEF InOrder
<1>3. IInv /\ TestsInv /\ [Next]_vars => TestsInv'
  BY NextTests
<1> QED BY <1>1, <1>2, <1>3, InitIInv, InitTests, PTL DEF Spec

-----------------------------------------------------------------------------
(* Rollout: a rollout restarts one node at a time, and when it is done the *)
(* nodes heard from run its version.                                       *)

\* One worker a node, and none of the cases the code leaves open (README, "Cases").
OneAtATime ==
  Workers = {1} /\ ~PassesOverlap /\ ~Together /\ ~UpdatesAfter /\ ~StartsEarly

-----------------------------------------------------------------------------
(* The inductive invariant.                                                *)

Records == [version : Versions, force : BOOLEAN, build : Nat, state : States]
Rows == [known : BOOLEAN, version : Versions, target : Versions \cup {None},
         late : BOOLEAN, fresh : BOOLEAN]
Counts == [starts : Nat, manual : Nat, meets : Nat, outages : Nat, forgets : Nat]
Deploys == [v : Versions, start : Nat, step : Steps]

Typed ==
  /\ rollout \in Records \cup {None} /\ row \in [Nodes -> Rows] /\ count \in Counts
  /\ saved = [t \in Threads |-> saved[t]]
  /\ run \in [Nodes -> [Workers -> [v : Versions, b : Nat]]]
  /\ env \in [Nodes -> Versions] /\ deploys \in [Nodes -> SUBSET Deploys]
  /\ up \in [Nodes -> BOOLEAN] /\ built \in Nat

\* One pass at a time, of the rollout as it is.
PassesAlone ==
  /\ \A t, u \in Threads : saved[t] # None /\ saved[u] # None => t = u
  /\ \A t \in Threads : saved[t] # None => saved[t] = rollout /\ Active(rollout)
  /\ rollout # None => count.starts # 0

RunsAt(n) == run[n][1].v

\* A target is the rollout's; a node that reported it runs it, and while a
\* rollout goes on every other node runs what it reported.
TargetHolds(n) ==
    /\ ~row[n].known => row[n].target = None
    /\ row[n].target # None => rollout # None /\ row[n].target = rollout.version
    /\ row[n].target # None /\ row[n].version = row[n].target => RunsAt(n) = row[n].target
    /\ Active(rollout) /\ row[n].known /\ n \notin Updating => RunsAt(n) = row[n].version

TargetsHold == \A n \in Nodes : TargetHolds(n)

\* One deploy at a time on a node, which is up; it installs the node's target,
\* if it has one, as it has while a rollout goes on.
DeployHolds(n, d) ==
    /\ up[n] /\ \A e \in deploys[n] : e = d
    /\ d.step \in {"image", "up", "tail"} => env[n] = d.v
    /\ row[n].target # None => d.v = row[n].target
    /\ Active(rollout) => row[n].target # None
    /\ Active(rollout) \/ (d.start = count.starts /\ d.start # 0) => row[n].fresh
    /\ d.start = 0 => n = 1

DeploysHold == \A n \in Nodes : \A d \in deploys[n] : DeployHolds(n, d)

\* A node is asked for the version and has not reported it, or was given up on
\* with its deploy still running.
Pursued(n) ==
  \/ n \in Updating
  \/ row[n].target = None /\ \E d \in deploys[n] : d.start = count.starts /\ d.start # 0

OnePursued == \A m, n \in Nodes : Pursued(m) /\ Pursued(n) => m = n

RolloutIInv == Typed /\ PassesAlone /\ TargetsHold /\ DeploysHold /\ OnePursued

-----------------------------------------------------------------------------
(* Passes.                                                                 *)

LEMMA FirstIsOne ==
  ASSUME NEW S \in SUBSET Nodes, S # {}
  PROVE  FirstByName(S) \in S
<1>1. S \subseteq Nat BY RolloutAssumption
<1>2. PICK x \in S : \A y \in S : <<y, x>> \notin OpToRel(<, Nat)
  <2> HIDE DEF OpToRel
  <2> DEFINE R == OpToRel(<, Nat)
  <2>1. IsWellFoundedOn(R, Nat) BY NatLessThanWellFounded
  <2> HIDE DEF R
  <2>2. \E x \in S : \A y \in S : ~ (<<y, x>> \in R) BY <1>1, <2>1, WFMin
  <2> QED BY <2>2 DEF R
<1>3. ASSUME NEW y \in S PROVE x <= y
  <2>1. <<y, x>> \in Nat \X Nat /\ <<y, x>>[1] = y /\ <<y, x>>[2] = x BY <1>1
  <2>2. ~(y < x)
    <3>1. <<y, x>> \notin {ss \in Nat \X Nat : ss[1] < ss[2]} BY <1>2, Zenon DEF OpToRel
    <3>2. ~(<<y, x>>[1] < <<y, x>>[2]) BY <2>1, <3>1, Zenon
    <3> QED BY <2>1, <3>2, Zenon
  <2> QED BY <1>1, <2>2
<1> QED BY <1>3 DEF FirstByName

\* What a pass that concludes leaves of the rollout and of the passes.
LEMMA Concludes ==
  ASSUME Typed, PassesAlone, NEW t \in Threads, saved[t] # None,
         NEW s \in States, Conclude(t, s)
  PROVE  /\ rollout \in Records /\ rollout # None /\ saved[t] = rollout /\ Active(rollout)
         /\ rollout' \in Records /\ rollout' # None
         /\ rollout'.version = rollout.version /\ rollout'.state = s
         /\ saved' = [u \in Threads |-> None]
         /\ UNCHANGED <<run, deploying, repo, env, deploys, up, meet, built, count>>
<1>1. saved[t] = rollout /\ Active(rollout) BY DEF PassesAlone
<1>2. rollout \in Records /\ rollout # None BY <1>1 DEF Typed, Active
<1>3. rollout' = [rollout EXCEPT !.state = s] BY <1>1 DEF Conclude
<1>4. rollout' \in Records BY <1>2, <1>3 DEF Records
<1>5. rollout'.version = rollout.version /\ rollout'.state = s
  BY <1>2, <1>3 DEF Records
<1>6. rollout' # None BY <1>4, RolloutAssumption DEF Records
<1>7. saved' = [u \in Threads |-> None]
  <2>1. saved' = [u \in Threads |-> saved'[u]] BY DEF Conclude, Typed
  <2>2. \A u \in Threads : saved'[u] = None
    BY <1>1 DEF Conclude, Typed, PassesAlone
  <2> QED BY <2>1, <2>2
<1> QED BY <1>1, <1>2, <1>4, <1>5, <1>6, <1>7 DEF Conclude, node, world

\* A step that tells a node nothing new: the deploys that go on are those
\* there were, of nodes as they were.
LEMMA PassesQuiet ==
  ASSUME RolloutIInv, Typed', PassesAlone', UNCHANGED <<run, env>>,
         count'.starts = count.starts,
         \/ rollout' = rollout
         \/ /\ rollout # None /\ rollout' # None /\ rollout'.version = rollout.version
            /\ Active(rollout') => Active(rollout),
         \A n \in Nodes : /\ row'[n].known = row[n].known
                          /\ row'[n].version = row[n].version
                          /\ row'[n].target = row[n].target,
         \A n \in Nodes : \/ deploys'[n] = {}
                          \/ /\ deploys'[n] = deploys[n] /\ up'[n] = up[n]
                             /\ row'[n].fresh = row[n].fresh
  PROVE  RolloutIInv'
<1>1. \A n \in Nodes : n \in Updating' <=> n \in Updating BY DEF Updating
<1>2. Active(rollout') => Active(rollout) OBVIOUS
<1>3. rollout # None => rollout' # None /\ rollout'.version = rollout.version OBVIOUS
<1>4. ASSUME NEW n \in Nodes PROVE TargetHolds(n)'
  <2>1. TargetHolds(n) BY DEF RolloutIInv, TargetsHold
  <2>2. RunsAt(n)' = RunsAt(n) BY DEF RunsAt
  <2> QED BY <1>1, <1>2, <1>3, <2>1, <2>2 DEF TargetHolds
<1>5. ASSUME NEW n \in Nodes, NEW d \in deploys'[n] PROVE DeployHolds(n, d)'
  <2>1. d \in deploys[n] /\ deploys'[n] = deploys[n] /\ up'[n] = up[n]
        /\ row'[n].fresh = row[n].fresh
    BY <1>5
  <2>2. DeployHolds(n, d) BY <2>1 DEF RolloutIInv, DeploysHold
  <2> QED BY <1>2, <2>1, <2>2 DEF DeployHolds
<1>6. \A n \in Nodes : Pursued(n)' => Pursued(n) BY <1>1 DEF Pursued
<1>7. OnePursued' BY <1>6 DEF RolloutIInv, OnePursued
<1> QED BY <1>4, <1>5, <1>7 DEF RolloutIInv, TargetsHold, DeploysHold

LEMMA NobodyPasses ==
  ASSUME RolloutIInv, \A t \in Threads : saved[t] = None, saved' = saved,
         rollout' # None => count'.starts # 0
  PROVE  PassesAlone'
BY DEF PassesAlone

LEMMA InitHolds == ASSUME RolloutInit PROVE RolloutIInv
<1> USE DEF RolloutInit
<1>1. Typed
  <2>1. 0 \in Nat /\ First \in Versions BY RolloutAssumption
  <2>2. run \in [Nodes -> [Workers -> [v : Versions, b : Nat]]] BY <2>1
  <2>3. row \in [Nodes -> Rows] BY <2>1 DEF Rows
  <2>4. count \in Counts BY DEF NoCount, Counts
  <2>5. deploys \in [Nodes -> SUBSET Deploys] BY DEF Deploys
  <2> QED BY <2>1, <2>2, <2>3, <2>4, <2>5 DEF Typed
<1>2. PassesAlone BY DEF PassesAlone
<1>3. TargetsHold BY DEF TargetsHold, TargetHolds, Active
<1>4. DeploysHold BY DEF DeploysHold
<1>5. OnePursued BY DEF OnePursued, Pursued, Updating
<1> QED BY <1>1, <1>2, <1>3, <1>4, <1>5 DEF RolloutIInv

LEMMA ReadKeeps ==
  ASSUME RolloutIInv, OneAtATime, NEW t \in Threads, ReadRollout(t)
  PROVE  RolloutIInv'
<1> USE DEF ReadRollout, node, world
<1>1. \A u \in Threads : saved[u] = None BY DEF OneAtATime, BetweenPasses
<1>2. saved' = [saved EXCEPT ![t] = rollout] /\ rollout' = rollout /\ count' = count
      /\ Active(rollout)
  OBVIOUS
<1>3. PassesAlone'
  <2>1. \A u \in Threads : saved'[u] = IF u = t THEN rollout ELSE None
    BY <1>1, <1>2 DEF RolloutIInv, Typed
  <2> QED BY <1>2, <2>1 DEF RolloutIInv, PassesAlone
<1>4. Typed' BY <1>2 DEF RolloutIInv, Typed
<1> QED BY <1>2, <1>3, <1>4, PassesQuiet

LEMMA NotDueKeeps ==
  ASSUME RolloutIInv, NEW t \in Threads, NotDue(t)
  PROVE  RolloutIInv'
<1> USE DEF NotDue, node, world
<1>1. saved' = [saved EXCEPT ![t] = None] /\ rollout' = rollout /\ count' = count
  OBVIOUS
<1>2. \A u \in Threads : saved'[u] = IF u = t THEN None ELSE saved[u]
  BY <1>1 DEF RolloutIInv, Typed
<1>3. PassesAlone' BY <1>1, <1>2 DEF RolloutIInv, PassesAlone
<1>4. Typed' BY <1>1 DEF RolloutIInv, Typed
<1> QED BY <1>1, <1>3, <1>4, PassesQuiet

LEMMA StopKeeps ==
  ASSUME RolloutIInv, OneAtATime, HaltRollout
  PROVE  RolloutIInv'
<1> USE DEF HaltRollout, node, world
<1>1. \A u \in Threads : saved[u] = None BY DEF OneAtATime, BetweenPasses
<1>2. rollout \in Records /\ rollout # None BY DEF RolloutIInv, Typed, Active
<1>3. rollout' \in Records /\ rollout'.version = rollout.version
      /\ rollout'.state = "stopped"
  BY <1>2 DEF Records, States
<1>4. rollout' # None BY <1>3, RolloutAssumption DEF Records
<1>5. ~Active(rollout') BY <1>3 DEF Active
<1>6. Typed' BY <1>3 DEF RolloutIInv, Typed
<1>7. PassesAlone' BY <1>1, <1>2 DEF RolloutIInv, PassesAlone
<1> QED BY <1>2, <1>3, <1>4, <1>5, <1>6, <1>7, PassesQuiet

LEMMA PassTyped ==
  ASSUME RolloutIInv, NEW t \in Threads, saved[t] # None, NEW s \in States, Conclude(t, s),
         row' \in [Nodes -> Rows]
  PROVE  Typed' /\ PassesAlone'
<1>1. /\ rollout' \in Records /\ saved' = [u \in Threads |-> None] /\ rollout # None
      /\ UNCHANGED <<run, deploying, repo, env, deploys, up, meet, built, count>>
  BY Concludes DEF RolloutIInv
<1>2. Typed' BY <1>1 DEF RolloutIInv, Typed
<1>3. PassesAlone' BY <1>1 DEF RolloutIInv, PassesAlone
<1> QED BY <1>2, <1>3

\* A pass that writes nothing into the rows.
LEMMA ConcludeKeeps ==
  ASSUME RolloutIInv, NEW t \in Threads, saved[t] # None, NEW s \in States, Conclude(t, s),
         UNCHANGED row
  PROVE  RolloutIInv'
<1>1. /\ rollout # None /\ Active(rollout) /\ rollout' # None
      /\ rollout'.version = rollout.version
      /\ UNCHANGED <<run, deploying, repo, env, deploys, up, meet, built, count>>
  BY Concludes DEF RolloutIInv
<1>2. row' \in [Nodes -> Rows] BY DEF RolloutIInv, Typed
<1>3. Typed' /\ PassesAlone' BY <1>2, PassTyped
<1> QED BY <1>1, <1>3, PassesQuiet

LEMMA AwaitKeeps ==
  ASSUME RolloutIInv, NEW t \in Threads, AwaitNode(t)
  PROVE  RolloutIInv'
<1> DEFINE n == FirstByName(Updating)
<1>1. n \in Updating /\ n \in Nodes
  <2>1. Updating \in SUBSET Nodes /\ Updating # {} BY DEF AwaitNode, Updating
  <2> QED BY <2>1, FirstIsOne
<1> HIDE DEF n
<1>2. CASE UNCHANGED row /\ Conclude(t, "running")
  BY <1>2, ConcludeKeeps DEF AwaitNode, States
<1>3. CASE /\ row' = [row EXCEPT ![n].target = None, ![n].late = FALSE]
           /\ Conclude(t, "failed")
  <2>1. /\ rollout # None /\ Active(rollout) /\ rollout' # None
        /\ rollout'.version = rollout.version /\ rollout'.state = "failed"
        /\ UNCHANGED <<run, deploying, repo, env, deploys, up, meet, built, count>>
    BY <1>3, Concludes DEF RolloutIInv, AwaitNode, States
  <2>2. row \in [Nodes -> Rows] BY DEF RolloutIInv, Typed
  <2>3. row' \in [Nodes -> Rows] BY <1>3, <2>2 DEF Rows
  <2>4. Typed' /\ PassesAlone' BY <1>3, <2>3, PassTyped DEF AwaitNode, States
  <2>5. \A m \in Nodes : /\ row'[m].known = row[m].known
                         /\ row'[m].version = row[m].version
                         /\ row'[m].fresh = row[m].fresh
                         /\ m # n => row'[m].target = row[m].target
    BY <1>3, <2>2 DEF Rows
  <2>6. row'[n].target = None BY <1>1, <1>3, <2>2 DEF Rows
  <2>7. ~Active(rollout') BY <2>1 DEF Active
  <2>8. ASSUME NEW m \in Nodes PROVE TargetHolds(m)'
    <3>1. TargetHolds(m) /\ RunsAt(m)' = RunsAt(m) BY <2>1 DEF RolloutIInv, TargetsHold, RunsAt
    <3> QED BY <2>1, <2>5, <2>6, <2>7, <3>1 DEF TargetHolds
  <2>9. ASSUME NEW m \in Nodes, NEW d \in deploys'[m] PROVE DeployHolds(m, d)'
    <3>1. DeployHolds(m, d) BY <2>1 DEF RolloutIInv, DeploysHold
    <3> QED BY <2>1, <2>5, <2>6, <2>7, <3>1 DEF DeployHolds
  <2>10. \A m \in Nodes : Pursued(m)' => Pursued(m)
    BY <1>1, <2>1, <2>5, <2>6 DEF Pursued, Updating
  <2>11. OnePursued' BY <2>10 DEF RolloutIInv, OnePursued
  <2> QED BY <2>4, <2>8, <2>9, <2>11 DEF RolloutIInv, TargetsHold, DeploysHold
<1> QED BY <1>2, <1>3 DEF AwaitNode, n

\* The next node: whoever runs a deploy has reported, so it is not the next.
LEMMA ReleaseKeeps ==
  ASSUME RolloutIInv, NEW t \in Threads, Release(t)
  PROVE  RolloutIInv'
<1> DEFINE n == FirstByName(Free(saved[t]))
<1>1. /\ saved[t] # None /\ Updating = {} /\ Conclude(t, "running")
      /\ row' = [row EXCEPT ![n] = [@ EXCEPT !.target = saved[t].version, !.late = FALSE]]
  BY DEF Release
<1>2. n \in Nodes /\ row[n].known /\ row[n].fresh /\ row[n].version # saved[t].version
  <2>1. Free(saved[t]) \in SUBSET Nodes /\ Free(saved[t]) # {}
    BY DEF Release, Free, Pending
  <2>2. n \in Free(saved[t]) BY <2>1, FirstIsOne
  <2> HIDE DEF n
  <2> QED BY <2>2 DEF Free, Pending
<1> HIDE DEF n
<1>3. /\ rollout \in Records /\ rollout # None /\ saved[t] = rollout /\ Active(rollout)
      /\ rollout' # None /\ rollout'.version = rollout.version
      /\ UNCHANGED <<run, deploying, repo, env, deploys, up, meet, built, count>>
  BY <1>1, Concludes DEF RolloutIInv, States
<1>4. row \in [Nodes -> Rows] BY DEF RolloutIInv, Typed
<1>5. rollout.version \in Versions /\ rollout.version # None
  BY <1>3, RolloutAssumption DEF Records
<1>6. /\ row' \in [Nodes -> Rows]
      /\ \A m \in Nodes : m # n => row'[m] = row[m]
      /\ row'[n].known = row[n].known /\ row'[n].version = row[n].version
      /\ row'[n].fresh = row[n].fresh /\ row'[n].target = rollout.version
  <2>1. row' = [row EXCEPT ![n] = [row[n] EXCEPT !.target = rollout.version, !.late = FALSE]]
    BY <1>1, <1>3
  <2>2. row[n] \in Rows BY <1>2, <1>4
  <2> DEFINE r == [row[n] EXCEPT !.target = rollout.version, !.late = FALSE]
  <2>3. /\ r \in Rows /\ r.known = row[n].known /\ r.version = row[n].version
        /\ r.fresh = row[n].fresh /\ r.target = rollout.version
    BY <1>5, <2>2 DEF Rows
  <2> HIDE DEF r
  <2>4. row' = [row EXCEPT ![n] = r] BY <2>1 DEF r
  <2> QED BY <1>2, <1>4, <2>3, <2>4
<1>7. Typed' /\ PassesAlone' BY <1>1, <1>6, PassTyped DEF States
<1>8. deploys[n] = {}
  <2>1. ASSUME NEW d \in deploys[n] PROVE FALSE
    <3>1. row[n].target # None BY <1>2, <1>3, <2>1 DEF RolloutIInv, DeploysHold, DeployHolds
    <3>2. row[n].target = rollout.version
      BY <1>2, <3>1 DEF RolloutIInv, TargetsHold, TargetHolds
    <3>3. row[n].version = row[n].target BY <1>1, <1>2, <3>1 DEF Updating
    <3> QED BY <1>2, <1>3, <3>2, <3>3
  <2> QED BY <2>1
<1>9. \A m \in Nodes : m \in Updating' <=> m = n
  BY <1>1, <1>2, <1>3, <1>5, <1>6 DEF Updating
<1>10. ASSUME NEW m \in Nodes PROVE TargetHolds(m)'
  <2>1. TargetHolds(m) /\ RunsAt(m)' = RunsAt(m) BY <1>3 DEF RolloutIInv, TargetsHold, RunsAt
  <2>2. m \notin Updating BY <1>1
  <2>3. CASE m = n BY <1>2, <1>3, <1>6, <1>9, <2>3 DEF TargetHolds
  <2>4. CASE m # n BY <1>3, <1>6, <2>1, <2>2, <2>4 DEF TargetHolds
  <2> QED BY <2>3, <2>4
<1>11. ASSUME NEW m \in Nodes, NEW d \in deploys'[m] PROVE DeployHolds(m, d)'
  <2>1. DeployHolds(m, d) BY <1>3 DEF RolloutIInv, DeploysHold
  <2>2. m # n BY <1>3, <1>8
  <2> QED BY <1>3, <1>6, <2>1, <2>2 DEF DeployHolds
<1>12. ASSUME NEW m \in Nodes, Pursued(m)' PROVE m = n
  <2>1. CASE m # n
    <3>1. row'[m].target = None /\ \E d \in deploys[m] : TRUE
      BY <1>3, <1>9, <1>12, <2>1 DEF Pursued
    <3>2. row[m].target = None BY <1>6, <2>1, <3>1
    <3> QED BY <1>3, <3>1, <3>2 DEF RolloutIInv, DeploysHold, DeployHolds
  <2> QED BY <2>1
<1>13. OnePursued' BY <1>12 DEF OnePursued
<1> QED BY <1>7, <1>10, <1>11, <1>13 DEF RolloutIInv, TargetsHold, DeploysHold

\* A rollout starts when no deploy runs and every node runs what it reported.
LEMMA StartKeeps ==
  ASSUME RolloutIInv, OneAtATime, NEW v \in Versions, NEW f \in BOOLEAN, NEW s \in BOOLEAN,
         BeginRollout(v, f, s)
  PROVE  RolloutIInv'
<1>1. \A n \in Nodes : deploys[n] = {} /\ run[n][1].v = row[n].version
  BY RolloutAssumption DEF BeginRollout, OneAtATime, Reported
<1>2. \A t \in Threads : saved[t] = None BY DEF BeginRollout, OneAtATime, BetweenPasses
<1>3. row \in [Nodes -> Rows] /\ count \in Counts BY DEF RolloutIInv, Typed
<1>4. count' \in Counts /\ count'.starts = count.starts + 1 /\ count'.starts # 0
  <2>1. count' = [count EXCEPT !.starts = @ + 1] BY DEF BeginRollout, Bump
  <2>2. count' \in Counts /\ count'.starts = count.starts + 1 BY <1>3, <2>1 DEF Counts
  <2>3. count.starts \in Nat BY <1>3 DEF Counts
  <2> QED BY <2>2, <2>3
<1>5. built' \in Nat
  <2>1. built \in Nat /\ MaxBuilds \in Nat BY RolloutAssumption DEF RolloutIInv, Typed
  <2>2. built' = built \/ built' \in built .. MaxBuilds BY DEF BeginRollout
  <2> QED BY <2>1, <2>2
<1>6. rollout' \in Records /\ Active(rollout')
  <2> DEFINE state == IF s THEN "scheduled" ELSE "running"
  <2>1. state \in {"scheduled", "running"} OBVIOUS
  <2>2. rollout' = [version |-> v, force |-> f, build |-> Build(v)', state |-> state]
    BY DEF BeginRollout
  <2>3. Build(v)' \in Nat BY <1>5 DEF Build
  <2> HIDE DEF state
  <2>4. rollout' \in Records BY <2>1, <2>2, <2>3 DEF Records, States
  <2>5. rollout' # None BY <2>4, RolloutAssumption DEF Records
  <2>6. rollout'.state = state BY <2>2
  <2> QED BY <2>1, <2>4, <2>5, <2>6 DEF Active
<1>7. /\ row' \in [Nodes -> Rows]
      /\ \A n \in Nodes : /\ row'[n].target = None /\ row'[n].known = row[n].known
                          /\ row'[n].version = row[n].version
  <2>1. row' = [n \in Nodes |-> [row[n] EXCEPT !.target = None, !.late = FALSE]]
    BY DEF BeginRollout
  <2> QED BY <1>3, <2>1 DEF Rows
<1>8. UNCHANGED <<run, env, deploys, up>> BY DEF BeginRollout, node
<1>9. saved' = [saved EXCEPT !["admin"] = rollout'] BY DEF BeginRollout
<1>10. Typed' BY <1>4, <1>5, <1>6, <1>7, <1>8, <1>9 DEF RolloutIInv, Typed
<1>11. PassesAlone'
  <2>1. \A t \in Threads : saved'[t] = IF t = "admin" THEN rollout' ELSE None
    BY <1>2, <1>9 DEF RolloutIInv, Typed
  <2> QED BY <1>4, <1>6, <2>1 DEF PassesAlone
<1>12. ASSUME NEW n \in Nodes PROVE TargetHolds(n)'
  BY <1>1, <1>7, <1>8 DEF TargetHolds, RunsAt
<1>13. DeploysHold' BY <1>1, <1>8 DEF DeploysHold
<1>14. OnePursued' BY <1>1, <1>7, <1>8 DEF OnePursued, Pursued, Updating
<1> QED BY <1>10, <1>11, <1>12, <1>13, <1>14 DEF RolloutIInv, TargetsHold

\* A node is forgotten while silent, when nothing can be running there for a
\* rollout that goes on or that was the last.
LEMMA ForgetKeeps ==
  ASSUME RolloutIInv, NEW n \in Nodes, ForgetNode(n)
  PROVE  RolloutIInv'
<1>1. row \in [Nodes -> Rows] /\ count \in Counts BY DEF RolloutIInv, Typed
<1>2. UNCHANGED <<rollout, saved, run, env, deploys, up, built>> /\ ~row[n].fresh
  BY DEF ForgetNode, node, world
<1>3. count' \in Counts /\ count'.starts = count.starts
  <2>1. count' = [count EXCEPT !.forgets = @ + 1] BY DEF ForgetNode, Bump
  <2> QED BY <1>1, <2>1 DEF Counts
<1>4. /\ row' \in [Nodes -> Rows] /\ \A m \in Nodes : m # n => row'[m] = row[m]
      /\ ~row'[n].known /\ row'[n].target = None /\ row'[n].fresh = row[n].fresh
  <2>1. row[n] \in Rows BY <1>1
  <2> DEFINE r == [row[n] EXCEPT !.known = FALSE, !.target = None, !.late = FALSE]
  <2>2. r \in Rows /\ ~r.known /\ r.target = None /\ r.fresh = row[n].fresh
    BY <2>1 DEF Rows
  <2>3. row' = [row EXCEPT ![n] = r] BY DEF ForgetNode
  <2> HIDE DEF r
  <2> QED BY <1>1, <2>2, <2>3
<1>5. Typed' BY <1>2, <1>3, <1>4 DEF RolloutIInv, Typed
<1>6. PassesAlone' BY <1>2, <1>3 DEF RolloutIInv, PassesAlone
<1>7. ASSUME NEW m \in Nodes PROVE TargetHolds(m)'
  <2>1. TargetHolds(m) /\ RunsAt(m)' = RunsAt(m) BY <1>2 DEF RolloutIInv, TargetsHold, RunsAt
  <2>2. CASE m = n BY <1>4, <2>2 DEF TargetHolds
  <2>3. CASE m # n
    <3>1. m \in Updating' <=> m \in Updating BY <1>4, <2>3 DEF Updating
    <3> QED BY <1>2, <1>4, <2>1, <2>3, <3>1 DEF TargetHolds
  <2> QED BY <2>2, <2>3
<1>8. ASSUME NEW m \in Nodes, NEW d \in deploys'[m] PROVE DeployHolds(m, d)'
  <2>1. DeployHolds(m, d) BY <1>2 DEF RolloutIInv, DeploysHold
  <2>2. CASE m = n BY <1>2, <1>3, <1>4, <2>1, <2>2 DEF DeployHolds
  <2>3. CASE m # n BY <1>2, <1>3, <1>4, <2>1, <2>3 DEF DeployHolds
  <2> QED BY <2>2, <2>3
<1>9. ASSUME NEW m \in Nodes, Pursued(m)' PROVE Pursued(m)
  <2>1. CASE m # n BY <1>2, <1>3, <1>4, <1>9, <2>1 DEF Pursued, Updating
  <2>2. CASE m = n
    <3>1. PICK d \in deploys[n] : d.start = count.starts /\ d.start # 0
      BY <1>2, <1>3, <1>4, <1>9, <2>2 DEF Pursued, Updating
    <3>2. row[n].fresh BY <3>1 DEF RolloutIInv, DeploysHold, DeployHolds
    <3> QED BY <1>2, <3>2
  <2> QED BY <2>1, <2>2
<1>10. OnePursued' BY <1>9 DEF RolloutIInv, OnePursued
<1> QED BY <1>5, <1>6, <1>7, <1>8, <1>10 DEF RolloutIInv, TargetsHold, DeploysHold

-----------------------------------------------------------------------------
(* Nodes.                                                                  *)

\* What a heartbeat makes of the node's deploys: as they were, or the first.
LEMMA Asked ==
  ASSUME RolloutIInv, OneAtATime, NEW n \in Nodes, Heartbeat(n, 1)
  PROVE  \/ deploys' = deploys
         \/ /\ deploys[n] = {} /\ row[n].target # None
            /\ deploys' = [deploys EXCEPT ![n] = {NewDeploy(row[n].target, count.starts)}]
<1> DEFINE to == IF row[n].target # RunsAt(n) THEN row[n].target ELSE None
<1>1. UpdateNode(n, to) BY DEF Heartbeat, Reports, RunsAt
<1> HIDE DEF to
<1>2. CASE deploys' = deploys BY <1>2
<1>3. CASE deploys' # deploys
  <2>1. /\ DeployEnded(n) /\ to # None
        /\ deploys' = [deploys EXCEPT ![n] = @ \cup {NewDeploy(to, count.starts)}]
    BY <1>1, <1>3 DEF UpdateNode
  <2>2. deploys[n] = {} BY <2>1 DEF DeployEnded, OneAtATime
  <2>3. to = row[n].target BY <2>1 DEF to
  <2>4. deploys' = [deploys EXCEPT ![n] = {NewDeploy(to, count.starts)}]
    BY <2>1, <2>2
  <2> QED BY <2>1, <2>2, <2>3, <2>4
<1> QED BY <1>2, <1>3

\* A node reports what it runs: it was updating already if it still is.
LEMMA HeartbeatKeeps ==
  ASSUME RolloutIInv, OneAtATime, NEW n \in Nodes, NEW w \in Workers, Heartbeat(n, w)
  PROVE  RolloutIInv'
<1>1. w = 1 BY DEF OneAtATime
<1>2. row \in [Nodes -> Rows] /\ count \in Counts /\ deploys \in [Nodes -> SUBSET Deploys]
  BY DEF RolloutIInv, Typed
<1>3. UNCHANGED <<rollout, saved, run, env, up, built, count>> /\ up[n]
  BY DEF Heartbeat, world
<1>4. RunsAt(n) \in Versions
  BY RolloutAssumption DEF RolloutIInv, Typed, RunsAt
<1>5. /\ row' \in [Nodes -> Rows] /\ \A m \in Nodes : m # n => row'[m] = row[m]
      /\ row'[n].known /\ row'[n].fresh /\ row'[n].target = row[n].target
      /\ row'[n].version = RunsAt(n)
  <2>1. row[n] \in Rows BY <1>2
  <2> DEFINE r == [row[n] EXCEPT !.known = TRUE, !.version = RunsAt(n), !.fresh = TRUE]
  <2>2. /\ r \in Rows /\ r.known /\ r.fresh /\ r.target = row[n].target
        /\ r.version = RunsAt(n)
    BY <1>4, <2>1 DEF Rows
  <2>3. row' = [row EXCEPT ![n] = r] BY <1>1 DEF Heartbeat, Reports, RunsAt
  <2> HIDE DEF r
  <2> QED BY <1>2, <2>2, <2>3
<1>6. ASSUME NEW m \in Nodes PROVE TargetHolds(m)'
  <2>1. TargetHolds(m) /\ RunsAt(m)' = RunsAt(m) BY <1>3 DEF RolloutIInv, TargetsHold, RunsAt
  <2>2. CASE m = n BY <1>3, <1>5, <2>1, <2>2 DEF TargetHolds
  <2>3. CASE m # n
    <3>1. m \in Updating' <=> m \in Updating BY <1>5, <2>3 DEF Updating
    <3> QED BY <1>3, <1>5, <2>1, <2>3, <3>1 DEF TargetHolds
  <2> QED BY <2>2, <2>3
<1>7. ASSUME n \in Updating' PROVE n \in Updating
  <2>1. row[n].target # None /\ RunsAt(n) # row[n].target BY <1>5, <1>7 DEF Updating
  <2>2. TargetHolds(n) BY DEF RolloutIInv, TargetsHold
  <2>3. row[n].known BY <1>2, <2>1, <2>2 DEF TargetHolds, Rows
  <2> QED BY <2>1, <2>2, <2>3 DEF TargetHolds, Updating
<1>8. CASE deploys' = deploys
  <2>1. Typed' BY <1>3, <1>5, <1>8 DEF RolloutIInv, Typed
  <2>2. PassesAlone' BY <1>3 DEF RolloutIInv, PassesAlone
  <2>3. ASSUME NEW m \in Nodes, NEW d \in deploys'[m] PROVE DeployHolds(m, d)'
    <3>1. DeployHolds(m, d) BY <1>8 DEF RolloutIInv, DeploysHold
    <3>2. row'[m].target = row[m].target /\ (row[m].fresh => row'[m].fresh)
      BY <1>5
    <3> QED BY <1>3, <1>8, <3>1, <3>2 DEF DeployHolds
  <2>4. ASSUME NEW m \in Nodes, Pursued(m)' PROVE Pursued(m)
    BY <1>3, <1>5, <1>7, <1>8, <2>4 DEF Pursued, Updating
  <2>5. OnePursued' BY <2>4 DEF RolloutIInv, OnePursued
  <2> QED BY <1>6, <2>1, <2>2, <2>3, <2>5 DEF RolloutIInv, TargetsHold, DeploysHold
<1>9. CASE /\ deploys[n] = {} /\ row[n].target # None
           /\ deploys' = [deploys EXCEPT ![n] = {NewDeploy(row[n].target, count.starts)}]
  <2> DEFINE new == NewDeploy(row[n].target, count.starts)
  <2>1. /\ new \in Deploys /\ new.v = row[n].target /\ new.start = count.starts
        /\ new.step = "checkout"
    BY <1>2, <1>9 DEF NewDeploy, Deploys, Steps, Rows, Counts
  <2> HIDE DEF new
  <2>2. deploys' = [deploys EXCEPT ![n] = {new}] BY <1>9 DEF new
  <2>3. deploys'[n] = {new} /\ \A m \in Nodes : m # n => deploys'[m] = deploys[m]
    BY <1>2, <2>2
  <2>4. deploys' \in [Nodes -> SUBSET Deploys] BY <1>2, <2>1, <2>2
  <2>5. Typed' BY <1>3, <1>5, <2>4 DEF RolloutIInv, Typed
  <2>6. PassesAlone' BY <1>3 DEF RolloutIInv, PassesAlone
  <2>7. count.starts # 0
    BY <1>9 DEF RolloutIInv, TargetsHold, TargetHolds, PassesAlone
  <2>8. ASSUME NEW m \in Nodes, NEW d \in deploys'[m] PROVE DeployHolds(m, d)'
    <3>1. CASE m = n
      BY <1>3, <1>5, <1>9, <2>1, <2>3, <2>7, <3>1 DEF DeployHolds
    <3>2. CASE m # n
      <4>1. DeployHolds(m, d) BY <2>3, <3>2 DEF RolloutIInv, DeploysHold
      <4> QED BY <1>3, <1>5, <2>3, <3>2, <4>1 DEF DeployHolds
    <3> QED BY <3>1, <3>2
  <2>9. ASSUME NEW m \in Nodes, Pursued(m)' PROVE Pursued(m)
    <3>1. CASE m = n BY <1>5, <1>7, <1>9, <2>9, <3>1 DEF Pursued
    <3>2. CASE m # n BY <1>3, <1>5, <2>3, <2>9, <3>2 DEF Pursued, Updating
    <3> QED BY <3>1, <3>2
  <2>10. OnePursued' BY <2>9 DEF RolloutIInv, OnePursued
  <2> QED BY <1>6, <2>5, <2>6, <2>8, <2>10 DEF RolloutIInv, TargetsHold, DeploysHold
<1> QED BY <1>1, <1>8, <1>9, Asked

\* The Update button, on a node that no rollout has a target for.
LEMMA ManualKeeps ==
  ASSUME RolloutIInv, OneAtATime, NEW n \in Nodes, NEW v \in Versions, Manual(n, v)
  PROVE  RolloutIInv'
<1>1. deploys \in [Nodes -> SUBSET Deploys] /\ count \in Counts BY DEF RolloutIInv, Typed
<1>2. /\ n = 1 /\ up[n] /\ deploys[n] = {} /\ row[n].target = None /\ ~Active(rollout)
      /\ UNCHANGED <<rollout, row, saved, run, env, up, built>>
  BY DEF Manual, DeployEnded, OneAtATime, control, world
<1>3. count' \in Counts /\ count'.starts = count.starts
  <2>1. count' = [count EXCEPT !.manual = @ + 1] BY DEF Manual, Bump
  <2> QED BY <1>1, <2>1 DEF Counts
<1> DEFINE new == NewDeploy(v, 0)
<1>4. new \in Deploys /\ new.start = 0 /\ new.step = "checkout"
  BY DEF NewDeploy, Deploys, Steps
<1>5. deploys' = [deploys EXCEPT ![n] = {new}] BY <1>2 DEF Manual
<1> HIDE DEF new
<1>6. deploys'[n] = {new} /\ \A m \in Nodes : m # n => deploys'[m] = deploys[m]
  BY <1>1, <1>5
<1>7. Typed'
  <2>1. deploys' \in [Nodes -> SUBSET Deploys] BY <1>1, <1>4, <1>5
  <2> QED BY <1>2, <1>3, <2>1 DEF RolloutIInv, Typed
<1>8. PassesAlone' BY <1>2, <1>3 DEF RolloutIInv, PassesAlone
<1>9. ASSUME NEW m \in Nodes PROVE TargetHolds(m)'
  <2>1. TargetHolds(m) /\ RunsAt(m)' = RunsAt(m) BY <1>2 DEF RolloutIInv, TargetsHold, RunsAt
  <2> QED BY <1>2, <2>1 DEF TargetHolds, Updating
<1>10. ASSUME NEW m \in Nodes, NEW d \in deploys'[m] PROVE DeployHolds(m, d)'
  <2>1. CASE m = n BY <1>2, <1>4, <1>6, <2>1 DEF DeployHolds
  <2>2. CASE m # n
    <3>1. DeployHolds(m, d) BY <1>6, <2>2 DEF RolloutIInv, DeploysHold
    <3> QED BY <1>2, <1>3, <1>6, <2>2, <3>1 DEF DeployHolds
  <2> QED BY <2>1, <2>2
<1>11. ASSUME NEW m \in Nodes, Pursued(m)' PROVE Pursued(m)
  <2>1. CASE m = n BY <1>2, <1>3, <1>4, <1>6, <1>11, <2>1 DEF Pursued, Updating
  <2>2. CASE m # n BY <1>2, <1>3, <1>6, <1>11, <2>2 DEF Pursued, Updating
  <2> QED BY <2>1, <2>2
<1>12. OnePursued' BY <1>11 DEF RolloutIInv, OnePursued
<1> QED BY <1>7, <1>8, <1>9, <1>10, <1>12 DEF RolloutIInv, TargetsHold, DeploysHold

\* A deploy goes on: the same version for the same rollout, and from "image" on
\* .env names it.
LEMMA GoesOn ==
  ASSUME RolloutIInv, NEW n \in Nodes, NEW d \in deploys[n], NEW s \in Steps, To(n, d, s),
         UNCHANGED <<control, run, up, built, count>>, env' \in [Nodes -> Versions],
         \A m \in Nodes : m # n => env'[m] = env[m],
         s \in {"image", "up", "tail"} => env'[n] = d.v
  PROVE  RolloutIInv'
<1> USE DEF control
<1>1. deploys \in [Nodes -> SUBSET Deploys] BY DEF RolloutIInv, Typed
<1>2. deploys[n] = {d} /\ DeployHolds(n, d) BY DEF RolloutIInv, DeploysHold, DeployHolds
<1> DEFINE next == [d EXCEPT !.step = s]
<1>3. /\ d \in Deploys /\ next \in Deploys
      /\ next.v = d.v /\ next.start = d.start /\ next.step = s
  BY <1>1 DEF Deploys
<1>4. deploys' = [deploys EXCEPT ![n] = {next}] BY <1>2 DEF To
<1> HIDE DEF next
<1>5. deploys'[n] = {next} /\ \A m \in Nodes : m # n => deploys'[m] = deploys[m]
  BY <1>1, <1>4
<1>6. Typed'
  <2>1. deploys' \in [Nodes -> SUBSET Deploys] BY <1>1, <1>3, <1>4
  <2> QED BY <2>1 DEF RolloutIInv, Typed
<1>7. PassesAlone' BY DEF RolloutIInv, PassesAlone
<1>8. ASSUME NEW m \in Nodes PROVE TargetHolds(m)'
  <2>1. TargetHolds(m) /\ RunsAt(m)' = RunsAt(m) BY DEF RolloutIInv, TargetsHold, RunsAt
  <2> QED BY <2>1 DEF TargetHolds, Updating
<1>9. ASSUME NEW m \in Nodes, NEW e \in deploys'[m] PROVE DeployHolds(m, e)'
  <2>1. CASE m = n BY <1>2, <1>3, <1>5, <2>1 DEF DeployHolds
  <2>2. CASE m # n
    <3>1. DeployHolds(m, e) BY <1>5, <2>2 DEF RolloutIInv, DeploysHold
    <3> QED BY <1>5, <2>2, <3>1 DEF DeployHolds
  <2> QED BY <2>1, <2>2
<1>10. ASSUME NEW m \in Nodes, Pursued(m)' PROVE Pursued(m)
  <2>1. CASE m = n BY <1>2, <1>3, <1>5, <1>10, <2>1 DEF Pursued, Updating
  <2>2. CASE m # n BY <1>5, <1>10, <2>2 DEF Pursued, Updating
  <2> QED BY <2>1, <2>2
<1>11. OnePursued' BY <1>10 DEF RolloutIInv, OnePursued
<1> QED BY <1>6, <1>7, <1>8, <1>9, <1>11 DEF RolloutIInv, TargetsHold, DeploysHold

LEMMA EndedKeeps ==
  ASSUME RolloutIInv, NEW n \in Nodes, Ended(n), UNCHANGED <<control, run, env, up, built, count>>
  PROVE  RolloutIInv'
<1> USE DEF control
<1>1. deploys \in [Nodes -> SUBSET Deploys] BY DEF RolloutIInv, Typed
<1>2. deploys' = [deploys EXCEPT ![n] = {}] BY DEF Ended
<1>3. deploys' \in [Nodes -> SUBSET Deploys] BY <1>1, <1>2
<1>4. \A m \in Nodes : deploys'[m] = {} \/ deploys'[m] = deploys[m] BY <1>1, <1>2
<1>5. Typed' BY <1>3 DEF RolloutIInv, Typed
<1>6. PassesAlone' BY DEF RolloutIInv, PassesAlone
<1> QED BY <1>4, <1>5, <1>6, PassesQuiet

\* A worker is recreated with the version of the deploy, which is the node's target.
LEMMA RecreateKeeps ==
  ASSUME RolloutIInv, OneAtATime, NEW n \in Nodes, NEW d \in deploys[n], NEW w \in Workers,
         Recreate(n, d, w)
  PROVE  RolloutIInv'
<1>1. w = 1 /\ 1 \in Workers BY RolloutAssumption DEF OneAtATime
<1>2. DeployHolds(n, d) /\ d.step = "up" /\ env[n] = d.v
  BY DEF RolloutIInv, DeploysHold, DeployHolds, Recreate
<1>3. UNCHANGED <<rollout, row, env, deploys, up, built, count>>
  BY DEF Recreate, world
<1> DEFINE image == [v |-> env[n], b |-> Build(env[n])]
<1>4. image \in [v : Versions, b : Nat] /\ image.v = d.v
  <2>1. Build(env[n]) \in Nat /\ env[n] \in Versions BY DEF Build, RolloutIInv, Typed
  <2> QED BY <1>2, <2>1
<1>5. run' = [run EXCEPT ![n][1] = image] BY <1>1 DEF Recreate
<1> HIDE DEF image
<1>6. run \in [Nodes -> [Workers -> [v : Versions, b : Nat]]] BY DEF RolloutIInv, Typed
<1>7. run' \in [Nodes -> [Workers -> [v : Versions, b : Nat]]]
  BY <1>1, <1>4, <1>5, <1>6
<1>8. run'[n][1] = image /\ \A m \in Nodes : m # n => run'[m] = run[m]
  BY <1>1, <1>5, <1>6
<1>9. saved' = [t \in Threads |-> None] \/ saved' = saved BY DEF Recreate
<1>10. Typed' BY <1>3, <1>7, <1>9 DEF RolloutIInv, Typed
<1>11. PassesAlone' BY <1>3, <1>9 DEF RolloutIInv, PassesAlone
<1>12. ASSUME NEW m \in Nodes PROVE TargetHolds(m)'
  <2>1. TargetHolds(m) BY DEF RolloutIInv, TargetsHold
  <2>2. m \in Updating' <=> m \in Updating BY <1>3 DEF Updating
  <2>3. CASE m = n
    <3>1. RunsAt(n)' = d.v BY <1>4, <1>8 DEF RunsAt
    <3>2. n \notin Updating => ~row[n].known \/ row[n].target = None
                               \/ row[n].version = row[n].target
      BY DEF Updating
    <3> QED BY <1>2, <1>3, <2>1, <2>2, <2>3, <3>1, <3>2 DEF TargetHolds, DeployHolds
  <2>4. CASE m # n
    <3>1. RunsAt(m)' = RunsAt(m) BY <1>8, <2>4 DEF RunsAt
    <3> QED BY <1>3, <2>1, <2>2, <3>1 DEF TargetHolds
  <2> QED BY <2>3, <2>4
<1>13. ASSUME NEW m \in Nodes, NEW e \in deploys'[m] PROVE DeployHolds(m, e)'
  <2>1. DeployHolds(m, e) BY <1>3 DEF RolloutIInv, DeploysHold
  <2> QED BY <1>3, <2>1 DEF DeployHolds
<1>14. OnePursued' BY <1>3 DEF RolloutIInv, OnePursued, Pursued, Updating
<1> QED BY <1>10, <1>11, <1>12, <1>13, <1>14 DEF RolloutIInv, TargetsHold, DeploysHold

LEMMA DeployKeeps ==
  ASSUME RolloutIInv, OneAtATime, NEW n \in Nodes, NEW d \in deploys[n], Deploy(n, d)
  PROVE  RolloutIInv'
<1> USE DEF world, control
<1>1. DeployHolds(n, d) /\ env \in [Nodes -> Versions] /\ d \in Deploys
  BY DEF RolloutIInv, DeploysHold, Typed
<1>2. CASE Checkout(n, d)
  <2>1. UNCHANGED <<control, run, up, built, count, env>> BY <1>2 DEF Checkout
  <2>2. CASE To(n, d, "env") BY <1>1, <2>1, <2>2, GoesOn DEF Steps
  <2>3. CASE Ended(n) BY <2>1, <2>3, EndedKeeps
  <2> QED BY <1>2, <2>2, <2>3 DEF Checkout
<1>3. CASE RecordVersion(n, d)
  <2>1. UNCHANGED <<control, run, up, built, count>> /\ To(n, d, "image")
    BY <1>3 DEF RecordVersion
  <2>2. /\ env' \in [Nodes -> Versions] /\ env'[n] = d.v
        /\ \A m \in Nodes : m # n => env'[m] = env[m]
    BY <1>1, <1>3 DEF RecordVersion, Deploys
  <2> QED BY <2>1, <2>2, GoesOn DEF Steps
<1>4. CASE GetImage(n, d)
  <2>1. UNCHANGED <<control, run, up, built, count, env>> /\ d.step = "image"
    BY <1>4 DEF GetImage
  <2>2. env[n] = d.v BY <1>1, <2>1 DEF DeployHolds
  <2>3. CASE To(n, d, "up") BY <1>1, <2>1, <2>2, <2>3, GoesOn DEF Steps
  <2>4. CASE Ended(n) BY <2>1, <2>4, EndedKeeps
  <2> QED BY <1>4, <2>3, <2>4 DEF GetImage
<1>5. ASSUME NEW w \in Workers, Recreate(n, d, w) PROVE RolloutIInv' BY <1>5, RecreateKeeps
<1>6. CASE UpDone(n, d)
  <2>1. UNCHANGED <<control, run, up, built, count, env>> /\ d.step = "up" /\ To(n, d, "tail")
    BY <1>6 DEF UpDone
  <2>2. env[n] = d.v BY <1>1, <2>1 DEF DeployHolds
  <2> QED BY <1>1, <2>1, <2>2, GoesOn DEF Steps
<1>7. CASE Tail(n, d)
  <2>1. UNCHANGED <<control, run, up, built, count, env>> /\ Ended(n) BY <1>7 DEF Tail
  <2> QED BY <2>1, EndedKeeps
<1> QED BY <1>2, <1>3, <1>4, <1>5, <1>6, <1>7 DEF Deploy

-----------------------------------------------------------------------------
(* Time, meets and outages.                                                *)

\* A node that is down runs no deploy, and time changes no target.
LEMMA WorldKeeps ==
  ASSUME RolloutIInv, NEW n \in Nodes,
         Late(n) \/ Silent(n) \/ Outage(n) \/ Back(n) \/ MeetStarts(n) \/ MeetEnds(n)
  PROVE  RolloutIInv'
<1> USE DEF node, world, control
<1>1. /\ row \in [Nodes -> Rows] /\ up \in [Nodes -> BOOLEAN] /\ count \in Counts
      /\ deploys \in [Nodes -> SUBSET Deploys]
  BY DEF RolloutIInv, Typed
<1>2. UNCHANGED <<rollout, saved, run, env, built>>
  BY DEF Late, Silent, Outage, Back, MeetStarts, MeetEnds
<1>3. count' \in Counts /\ count'.starts = count.starts
  <2>1. \/ UNCHANGED count
        \/ count' = [count EXCEPT !.outages = @ + 1]
        \/ count' = [count EXCEPT !.meets = @ + 1]
    BY DEF Late, Silent, Outage, Back, MeetStarts, MeetEnds, Bump
  <2> QED BY <1>1, <2>1 DEF Counts
<1>4. /\ row' \in [Nodes -> Rows]
      /\ \A m \in Nodes : /\ row'[m].known = row[m].known
                          /\ row'[m].version = row[m].version
                          /\ row'[m].target = row[m].target
                          /\ row'[m].fresh = row[m].fresh \/ (~up[m] /\ ~row'[m].fresh)
  <2>1. CASE Late(n) BY <1>1, <2>1 DEF Late, Rows
  <2>2. CASE Silent(n) BY <1>1, <2>2 DEF Silent, Rows
  <2>3. CASE UNCHANGED row BY <1>1, <2>3
  <2> QED BY <2>1, <2>2, <2>3 DEF Outage, Back, MeetStarts, MeetEnds
<1>5. /\ up' \in [Nodes -> BOOLEAN] /\ deploys' \in [Nodes -> SUBSET Deploys]
      /\ \A m \in Nodes : deploys'[m] = {} \/ (deploys'[m] = deploys[m] /\ up'[m] = up[m])
  <2>1. CASE Outage(n) BY <1>1, <2>1 DEF Outage
  <2>2. CASE Back(n)
    <3>1. deploys[n] = {} BY <2>2 DEF Back, RolloutIInv, DeploysHold, DeployHolds
    <3> QED BY <1>1, <2>2, <3>1 DEF Back
  <2>3. CASE UNCHANGED <<up, deploys>> BY <1>1, <2>3
  <2> QED BY <2>1, <2>2, <2>3 DEF Late, Silent, MeetStarts, MeetEnds
<1>6. \A m \in Nodes : ~up[m] => deploys[m] = {} BY DEF RolloutIInv, DeploysHold, DeployHolds
<1>7. Typed' BY <1>2, <1>3, <1>4, <1>5 DEF RolloutIInv, Typed
<1>8. PassesAlone' BY <1>2, <1>3 DEF RolloutIInv, PassesAlone
<1>9. \A m \in Nodes : \/ deploys'[m] = {}
                       \/ /\ deploys'[m] = deploys[m] /\ up'[m] = up[m]
                          /\ row'[m].fresh = row[m].fresh
  BY <1>4, <1>5, <1>6
<1> QED BY <1>2, <1>3, <1>4, <1>7, <1>8, <1>9, PassesQuiet

-----------------------------------------------------------------------------
(* The theorems.                                                           *)

LEMMA AllReleasedKeeps ==
  ASSUME RolloutIInv, NEW t \in Threads, AllReleased(t)
  PROVE  RolloutIInv'
<1> DEFINE s == IF Pending(saved[t].version) = {} THEN "done" ELSE "waiting"
<1>1. s \in States BY DEF States
<1>2. Conclude(t, s) /\ saved[t] # None /\ UNCHANGED row BY DEF AllReleased
<1> HIDE DEF s
<1> QED BY <1>1, <1>2, ConcludeKeeps

LEMMA StepKeeps ==
  ASSUME RolloutIInv, OneAtATime, RolloutNext
  PROVE  RolloutIInv'
<1>1. CASE \E v \in Versions, f, s \in BOOLEAN : BeginRollout(v, f, s) BY <1>1, StartKeeps
<1>2. CASE HaltRollout BY <1>2, StopKeeps
<1>3. ASSUME NEW t \in Threads, ReadRollout(t) \/ Pass(t) PROVE RolloutIInv'
  BY <1>3, ReadKeeps, NotDueKeeps, AwaitKeeps, ReleaseKeeps, AllReleasedKeeps DEF Pass
<1>4. ASSUME NEW n \in Nodes, ForgetNode(n) PROVE RolloutIInv' BY <1>4, ForgetKeeps
<1>5. ASSUME NEW n \in Nodes, \/ Late(n) \/ Silent(n) \/ Outage(n) \/ Back(n)
                              \/ MeetStarts(n) \/ MeetEnds(n)
      PROVE RolloutIInv'
  BY <1>5, WorldKeeps
<1>6. ASSUME NEW n \in Nodes, NEW w \in Workers, Heartbeat(n, w) PROVE RolloutIInv'
  BY <1>6, HeartbeatKeeps
<1>7. ASSUME NEW n \in Nodes, NEW v \in Versions, Manual(n, v) PROVE RolloutIInv'
  BY <1>7, ManualKeeps
<1>8. ASSUME NEW n \in Nodes, NEW d \in deploys[n], Deploy(n, d) PROVE RolloutIInv'
  BY <1>8, DeployKeeps
<1> QED BY <1>1, <1>2, <1>3, <1>4, <1>5, <1>6, <1>7, <1>8 DEF RolloutNext

LEMMA StutterKeeps == ASSUME RolloutIInv, UNCHANGED rolloutVars PROVE RolloutIInv'
<1> USE DEF rolloutVars
<1>1. Typed' BY DEF RolloutIInv, Typed
<1>2. PassesAlone' BY DEF RolloutIInv, PassesAlone
<1> QED BY <1>1, <1>2, PassesQuiet

\* A node whose workers are being restarted for the last rollout is the one
\* that is pursued; a deploy of no rollout restarts the control plane's own.
LEMMA OneRestarts == ASSUME RolloutIInv, OneAtATime PROVE OneNodeOfARollout
<1>1. ASSUME NEW n \in Nodes, Restarting(n)
      PROVE  (count.starts = 0 /\ n = 1) \/ (count.starts # 0 /\ Pursued(n))
  <2>1. PICK d \in deploys[n] : d.step = "up" /\ d.start = count.starts /\ RunsAt(n) # env[n]
    BY <1>1 DEF Restarting, RunsAt, OneAtATime
  <2>2. DeployHolds(n, d) /\ TargetHolds(n) BY DEF RolloutIInv, DeploysHold, TargetsHold
  <2>3. CASE d.start = 0 BY <2>1, <2>2, <2>3 DEF DeployHolds
  <2>4. CASE d.start # 0 /\ row[n].target = None BY <2>1, <2>4 DEF Pursued
  <2>5. CASE d.start # 0 /\ row[n].target # None
    <3>1. env[n] = row[n].target BY <2>1, <2>2, <2>5 DEF DeployHolds
    <3>2. row[n].version # row[n].target BY <2>1, <2>2, <2>5, <3>1 DEF TargetHolds
    <3>3. row[n].known BY <2>2, <2>5 DEF TargetHolds, RolloutIInv, Typed, Rows
    <3> QED BY <2>1, <2>5, <3>2, <3>3 DEF Pursued, Updating
  <2> QED BY <2>3, <2>4, <2>5
<1> QED BY <1>1 DEF OneNodeOfARollout, RolloutIInv, OnePursued

\* Only a pass that finds no node updating and none pending says "done".
DoneRight == /\ rollout # None /\ rollout' # None
             /\ rollout.state # "done" /\ rollout'.state = "done"
             => \A n \in Nodes : row[n].known /\ row[n].fresh
                  => \A w \in Workers : run[n][w].v = rollout'.version

LEMMA DoneByAllReleased ==
  ASSUME RolloutIInv, OneAtATime, NEW t \in Threads, AllReleased(t),
         rollout'.state = "done"
  PROVE  \A n \in Nodes : row[n].known /\ row[n].fresh
           => \A w \in Workers : run[n][w].v = rollout'.version
<1> DEFINE s == IF Pending(saved[t].version) = {} THEN "done" ELSE "waiting"
<1>1. s \in States /\ Conclude(t, s) /\ saved[t] # None /\ Updating = {}
  BY DEF AllReleased, States
<1>2. s = "waiting" => Pending(saved[t].version) # {} OBVIOUS
<1>3. s = "done" => Pending(saved[t].version) = {} OBVIOUS
<1>4. s \in {"done", "waiting"} OBVIOUS
<1> HIDE DEF s
<1>5. /\ saved[t] = rollout /\ Active(rollout) /\ rollout'.version = rollout.version
      /\ rollout'.state = s
  BY <1>1, Concludes DEF RolloutIInv
<1>6. Pending(rollout.version) = {} BY <1>3, <1>5
<1>7. ASSUME NEW n \in Nodes, row[n].known, row[n].fresh PROVE RunsAt(n) = rollout.version
  <2>1. row[n].version = rollout.version BY <1>6, <1>7 DEF Pending
  <2>2. n \notin Updating BY <1>1
  <2> QED BY <1>5, <1>7, <2>1, <2>2 DEF RolloutIInv, TargetsHold, TargetHolds
<1> QED BY <1>5, <1>7 DEF RunsAt, OneAtATime

LEMMA DoneStep == ASSUME RolloutIInv, OneAtATime, RolloutNext PROVE DoneRight
<1> SUFFICES ASSUME rollout # None, rollout.state # "done", rollout'.state = "done"
             PROVE  \A n \in Nodes : row[n].known /\ row[n].fresh
                      => \A w \in Workers : run[n][w].v = rollout'.version
  BY DEF DoneRight
<1>1. rollout' # rollout OBVIOUS
<1>2. ASSUME NEW v \in Versions, NEW f \in BOOLEAN, NEW s \in BOOLEAN, BeginRollout(v, f, s)
      PROVE FALSE
  <2>1. rollout'.state = IF s THEN "scheduled" ELSE "running" BY <1>2 DEF BeginRollout
  <2> QED BY <2>1
<1>3. CASE HaltRollout
  <2>1. rollout \in Records BY <1>3 DEF RolloutIInv, Typed
  <2>2. rollout'.state = "stopped" BY <1>3, <2>1 DEF HaltRollout, Records
  <2> QED BY <2>2
<1>4. ASSUME NEW t \in Threads, AwaitNode(t) \/ Release(t) PROVE FALSE
  <2>1. saved[t] # None /\ (Conclude(t, "failed") \/ Conclude(t, "running"))
    BY <1>4 DEF AwaitNode, Release
  <2>2. rollout'.state \in {"failed", "running"}
    BY <2>1, Concludes DEF RolloutIInv, States
  <2> QED BY <2>2
<1>5. ASSUME NEW t \in Threads, AllReleased(t)
      PROVE  \A n \in Nodes : row[n].known /\ row[n].fresh
               => \A w \in Workers : run[n][w].v = rollout'.version
  BY <1>5, DoneByAllReleased
<1>6. ASSUME NEW t \in Threads, ReadRollout(t) \/ NotDue(t) PROVE FALSE
  BY <1>1, <1>6 DEF ReadRollout, NotDue
<1>7. ASSUME NEW n \in Nodes,
             \/ ForgetNode(n) \/ Late(n) \/ Silent(n) \/ Outage(n) \/ Back(n)
             \/ MeetStarts(n) \/ MeetEnds(n)
      PROVE FALSE
  BY <1>1, <1>7 DEF ForgetNode, Late, Silent, Outage, Back, MeetStarts, MeetEnds, control
<1>8. ASSUME NEW n \in Nodes, \/ \E w \in Workers : Heartbeat(n, w)
                              \/ \E v \in Versions : Manual(n, v)
      PROVE FALSE
  BY <1>1, <1>8 DEF Heartbeat, Manual, control
<1>9. ASSUME NEW n \in Nodes, NEW d \in deploys[n], Deploy(n, d) PROVE FALSE
  BY <1>1, <1>9 DEF Deploy, Checkout, RecordVersion, GetImage, Recreate, UpDone, Tail, control
<1> QED BY <1>2, <1>3, <1>4, <1>5, <1>6, <1>7, <1>8, <1>9 DEF RolloutNext, Pass

LEMMA StepSafe == OneAtATime => (RolloutIInv /\ [RolloutNext]_rolloutVars => RolloutIInv')
BY StepKeeps, StutterKeeps

LEMMA StepDone == OneAtATime => (RolloutIInv /\ [RolloutNext]_rolloutVars => DoneRight)
<1> SUFFICES ASSUME OneAtATime, RolloutIInv, [RolloutNext]_rolloutVars PROVE DoneRight OBVIOUS
<1>1. CASE UNCHANGED rolloutVars BY <1>1 DEF rolloutVars, DoneRight
<1> QED BY <1>1, DoneStep

\* A rollout restarts the workers of one node at a time: advance_rollout
\* releases the next only once the last has reported its version, whatever
\* nodes are slow, silent, forgotten or cut off.
THEOREM RestartsOneNode == OneAtATime => (RolloutSpec => []OneNodeOfARollout)
<1> SUFFICES ASSUME OneAtATime PROVE RolloutSpec => []OneNodeOfARollout OBVIOUS
<1>1. RolloutInit => RolloutIInv BY InitHolds
<1>2. RolloutIInv /\ [RolloutNext]_rolloutVars => RolloutIInv' BY StepSafe
<1>3. RolloutIInv => OneNodeOfARollout BY OneRestarts
<1> QED BY <1>1, <1>2, <1>3, PTL DEF RolloutSpec

\* When a pass says a rollout is done, every node that is heard from runs its
\* version.
THEOREM DoneIsRun == OneAtATime => (RolloutSpec => DoneMeansRuns)
<1> SUFFICES ASSUME OneAtATime PROVE RolloutSpec => DoneMeansRuns OBVIOUS
<1>1. RolloutInit => RolloutIInv BY InitHolds
<1>2. RolloutIInv /\ [RolloutNext]_rolloutVars => RolloutIInv' BY StepSafe
<1>3. RolloutIInv /\ [RolloutNext]_rolloutVars => DoneRight BY StepDone
<1>4. DoneMeansRuns <=> [][DoneRight]_rolloutVars BY DEF DoneMeansRuns, DoneRight
<1> QED BY <1>1, <1>2, <1>3, <1>4, PTL DEF RolloutSpec
=============================================================================
