----------------------------- MODULE PiSettings -----------------------------
(***************************************************************************)
(* The Pi's settings: the Settings page's forms (routes/settings.py), the  *)
(* file they are kept in (state.save_settings), a meet's own cloud         *)
(* appearance, the users and their sessions (state.py, web.py), the TVs    *)
(* and the view each is on (routes/displays.py), backups (routes/system.py)*)
(* and restarts, composed with the loading of meets (MeetLoad).            *)
(*                                                                         *)
(* Request threads and the event loop save the one settings dict, each     *)
(* through the same temporary file.  The forms of the page are members of  *)
(* small sets: an appearance stands for the six fields of a meet's         *)
(* profile, a number for a field the handler bounds or checks.             *)
(*                                                                         *)
(* Beyond names what a run may include beyond the ordinary.                *)
(***************************************************************************)
EXTENDS MeetLoad

CONSTANTS
    TVs,       \* displays that register with an ID
    Looks,     \* cloud appearances
    Names,     \* user names
    First,     \* the name the owner starts with
    Beyond     \* see BeyondCases

BeyondCases ==
    {"SavesOverlap",       \* a save begins while another is under way
     "StalePages",         \* a page shown for one meet is posted after a load
     "LookWithoutMeet",    \* an appearance is posted with no meet loaded
     "LoginReturns",       \* a login is put back to one that was handed out
     "LowTwice",           \* a number below the least, when it is the least
     "LoadsFail",          \* a load fails while a TV shows the heats to come
     "SavesAfterRestore"}  \* something is saved before a restore's restart

ASSUME BeyondAssumption == Beyond \subseteq BeyondCases
ASSUME NamesAssumption ==
    First \in Names /\ None \notin Names \cup Looks \cup TVs

VARIABLES
    settings,    \* state.settings
    file,        \* settings.json
    tmp,         \* settings.json.tmp
    savers,      \* save_settings under way, and what each does once it is done
    active_uid,  \* state._active_meet_uid
    told,        \* state._display_sockets: the last display_view of each TV
    pending,     \* the send_view coroutines the loop has yet to run for each
    sessions,    \* the session cookies handed out
    backup,      \* the settings in the backup that was downloaded
    restored,    \* a backup was extracted, and the restart is still to come
    meant,       \* history: the appearance asked for each meet
    ended        \* history: the sessions a change of login should have ended

onTVs == <<told, pending>>
onDisk == <<file, tmp, savers>>
history == <<meant, ended>>
backups == <<backup, restored>>
piVars == <<settings, onDisk, active_uid, onTVs, sessions, backups, history>>
allVars == <<vars, piVars>>
\* What the posts and the TVs leave alone of the meet.
ofMeets == <<lists, active_meet_file, folder, journal, console_times, race,
             finish_tasks, request, swum_in, swims>>

-----------------------------------------------------------------------------
(* The settings and their file.                                            *)

Empty == [at |-> "empty"]    \* opened, not yet written
Mixed == [at |-> "mixed"]    \* one save's text with the end of another's
Views == {"live", "results", "next"}
Consoles == {"timed", "manual"}
Numbers == 0..2
Least == 1                   \* the least of a bounded field
Fields == {"bounded", "checked"}
Pages == {{"mm"}, {"mm", "admin"}}

\* What is kept of a user, what the settings hold, and what a session's stamp
\* is made of.
Logins == [hash : Nat, roles : Pages]
SettingsOf(numbers) ==
    [look : Looks, profiles : [Uids -> Looks \cup {None}], console : Consoles,
     fields : [Fields -> numbers], owner : [name : Names, hash : Nat],
     users : [Names -> Logins \cup {None}],
     displays : [TVs -> Views \cup {None}], last : Files \cup {None}]
Stamps == ({"owner"} \X [name : Names, hash : Nat]) \cup ({"user"} \X Logins)
ASSUME NoneAssumption == None \notin Logins \cup SettingsOf(Nat) \cup Stamps

\* A Pi one meet was on before, in an appearance of its own.
Before(look, meetfile, own) ==
    [look |-> look,
     profiles |->
        [u \in Uids |-> IF u = UidOf(meetfile, None) THEN own ELSE None],
     console |-> "timed",
     fields |-> [k \in Fields |-> 2],
     owner |-> [name |-> First, hash |-> 0],
     users |-> [n \in Names |->
                   IF n = First THEN None ELSE [hash |-> 0, roles |-> {"mm"}]],
     displays |-> [d \in TVs |-> None],
     last |-> None]

\* Mutant: the stamp is made of the pages alone.
CredentialOfPages(n) ==
    IF n = settings.owner.name THEN <<"owner", settings.owner>>
    ELSE IF settings.users[n] = None THEN None
    ELSE <<"user", [settings.users[n] EXCEPT !.hash = 0]>>

\* user_credential: what the stamp in a session is made of.
Credential(n) ==
    IF n = settings.owner.name THEN <<"owner", settings.owner>>
    ELSE IF settings.users[n] = None THEN None
    ELSE <<"user", settings.users[n]>>

SignedIn(s) == s.cred = Credential(s.user)
\* No session was handed out for a login like this one.
NewLogin(n, cred) ==
    "LoginReturns" \in Beyond \/ [user |-> n, cred |-> cred] \notin sessions \cup ended

\* require_login: the Settings panel and everything behind it.
IsAdmin(n) ==
    \/ n = settings.owner.name
    \/ settings.users[n] # None /\ "admin" \in settings.users[n].roles
Allows == \E s \in sessions : SignedIn(s) /\ IsAdmin(s.user)

PiInit ==
    /\ Init
    /\ \E look, own \in Looks, f \in Lenex :
          own # look /\ settings = Before(look, f, own)
    /\ file = settings /\ backup = settings /\ tmp = None /\ savers = {}
    /\ active_uid = NoUid
    /\ told = [d \in TVs |-> None] /\ pending = [d \in TVs |-> 0]
    /\ sessions = {[user |-> n, cred |-> Credential(n)] : n \in Names}
    /\ restored = FALSE
    /\ meant = settings.profiles /\ ended = {}

\* Nothing else is being saved, unless the run allows it.
Alone == savers = {} \/ "SavesOverlap" \in Beyond
Calm == ~restored \/ "SavesAfterRestore" \in Beyond
LoopFree == \A s \in savers : s.by \notin TVs

\* json.dumps, then the temporary file, created or truncated.
StartSave(who, new, tell, meantNow, endedNow) ==
    /\ Alone /\ Calm
    /\ settings' = new
    /\ tmp' = Empty
    /\ savers' = savers \cup
          {[by |-> who, data |-> new, at |-> "write", fd |-> "tmp",
            tell |-> tell, meant |-> meantNow, ended |-> endedNow]}
    /\ UNCHANGED file

\* Text written over longer text keeps the end of it.
Over(old, new) == IF old = Empty THEN {new} ELSE {new, Mixed}

WriteSave(s) ==
    /\ s.at = "write"
    /\ savers' = (savers \ {s}) \cup {[s EXCEPT !.at = "replace"]}
    /\ IF s.fd = "tmp" THEN tmp' \in Over(tmp, s.data) ELSE UNCHANGED tmp
    /\ IF s.fd = "file" THEN file' \in Over(file, s.data) ELSE UNCHANGED file
    /\ UNCHANGED <<ofMeets, last_meet_file, ops, settings, active_uid, onTVs,
                   sessions, backups, history>>

\* display_view's frame: the TV's view, and whether anything feeds it.
View(d) == IF settings.displays[d] = None THEN "live" ELSE settings.displays[d]
Available ==
    {"live"} \cup (IF settings.console = "timed" THEN {"results"} ELSE {})
             \cup (IF meet # None THEN {"next"} ELSE {})
Frame(d) == [view |-> View(d), ready |-> View(d) \in Available]

\* os.replace: whoever has the temporary file open now writes into the settings.
\* When it is another's and gone the request fails.
EndSave(s) ==
    /\ s.at = "replace"
    /\ IF tmp = None
       THEN /\ savers' = savers \ {s}
            /\ UNCHANGED <<file, tmp, last_meet_file, told, history>>
       ELSE /\ file' = tmp /\ tmp' = None
            /\ last_meet_file' = IF tmp \in {Empty, Mixed} THEN last_meet_file
                                 ELSE tmp.last
            /\ savers' = {[o EXCEPT !.fd = IF @ = "tmp" THEN "file" ELSE "gone"] :
                              o \in savers \ {s}}
            /\ told' = [d \in TVs |->
                  IF d \in s.tell /\ (told[d] # None \/ s.by = d) THEN Frame(d)
                  ELSE told[d]]
            /\ meant' = s.meant /\ ended' = s.ended
    /\ UNCHANGED <<ofMeets, ops, settings, active_uid, pending, sessions,
                   backups>>

-----------------------------------------------------------------------------
(* The forms of the Settings page.                                         *)

Posts ==
    /\ request = NoRequest /\ Allows
    /\ \A s \in savers : s.by # "post"
    /\ ops < MaxOps /\ ops' = ops + 1
    /\ UNCHANGED <<ofMeets, last_meet_file, active_uid, told, backups, history>>

\* The handler of a field: a number is raised to the least, a choice not among
\* its own is not taken.
Typed(k, before, raw) ==
    IF k = "bounded" THEN (IF raw < Least THEN Least ELSE raw)
    ELSE IF raw < Least THEN before ELSE raw

NotSwept == {"checked"}

\* Mutant: a handler's value is overwritten with what was typed.
SweptAll(k, before, typed, raw) == IF k \in NotSwept THEN typed ELSE raw

\* The sweep over the form: what no handler changed is stored as it came.
Swept(k, before, typed, raw) ==
    IF k \in NotSwept \/ typed # before THEN typed ELSE raw

PostField(k, raw) ==
    LET before == settings.fields[k]
        value == Swept(k, before, Typed(k, before, raw), raw)
    IN  /\ Posts
        /\ "LowTwice" \in Beyond \/ ~(raw < Least /\ before = Least)
        /\ value # before
        /\ StartSave("post", [settings EXCEPT !.fields[k] = value], {}, meant,
                     ended)
        /\ UNCHANGED <<pending, sessions>>

\* tell_views: each connected TV not on Live.
Tell == [d \in TVs |-> IF told[d] # None /\ View(d) # "live"
                       THEN pending[d] + 1 ELSE pending[d]]

\* Mutant: the TVs are not told of another console.
PostConsoleQuietly(c) ==
    /\ Posts
    /\ c # settings.console
    /\ StartSave("post", [settings EXCEPT !.console = c], {}, meant, ended)
    /\ UNCHANGED <<pending, sessions>>

\* Another console: its decoder keeps the heat, and the TVs hear of it.
PostConsole(c) ==
    /\ Posts
    /\ c # settings.console
    /\ StartSave("post", [settings EXCEPT !.console = c], {}, meant, ended)
    /\ pending' = Tell
    /\ UNCHANGED sessions

\* save_meet_profile: into the profile of the meet that is active by now.
WithProfile(look) ==
    [settings EXCEPT !.look = look,
        !.profiles = IF active_uid = NoUid THEN @
                     ELSE [@ EXCEPT ![active_uid] = look]]

\* The appearance form, or an image deleted, for the meet the page was shown for.
PostLook(look, page) ==
    /\ Posts
    /\ page = active_uid \/ "StalePages" \in Beyond
    /\ active_meet_file # None \/ "LookWithoutMeet" \in Beyond
    /\ look # settings.look
    /\ StartSave("post", WithProfile(look), {},
                 IF page = NoUid \/ active_meet_file = None THEN meant
                 ELSE [meant EXCEPT ![page] = look], ended)
    /\ UNCHANGED <<pending, sessions>>

\* A salted hash: never the same twice.
Hash == ops + 1
SessionsOf(n) == {s \in sessions : s.user = n}

\* _users_action.
AddUser(n, roles) ==
    /\ Posts
    /\ n # settings.owner.name /\ settings.users[n] = None
    /\ StartSave("post",
          [settings EXCEPT !.users[n] = [hash |-> Hash, roles |-> roles]],
          {}, meant, ended)
    /\ UNCHANGED <<pending, sessions>>

\* update_user: the pages, and a new password if one is given.
SaveUser(n, roles, pass) ==
    LET new == [settings EXCEPT !.users[n] =
                   [hash |-> IF pass THEN Hash ELSE @.hash, roles |-> roles]]
    IN  /\ Posts
        /\ settings.users[n] # None
        /\ new # settings
        /\ NewLogin(n, <<"user", new.users[n]>>)
        /\ StartSave("post", new, {}, meant, ended \cup SessionsOf(n))
        /\ UNCHANGED <<pending, sessions>>

DeleteUser(n) ==
    /\ Posts
    /\ settings.users[n] # None
    /\ StartSave("post", [settings EXCEPT !.users[n] = None], {}, meant,
                 ended \cup SessionsOf(n))
    /\ UNCHANGED <<pending, sessions>>

\* The account form: a session's own login.  Only the owner can rename; the
\* session that changed it carries on under the new login.
Account(s, name, pass) ==
    LET isOwner == s.user = settings.owner.name
        new == IF isOwner
               THEN [settings EXCEPT !.owner =
                        [name |-> name, hash |-> IF pass THEN Hash ELSE @.hash]]
               ELSE [settings EXCEPT !.users[s.user].hash = Hash]
        cred == IF isOwner THEN <<"owner", new.owner>>
                ELSE <<"user", new.users[s.user]>>
    IN  /\ Posts
        /\ SignedIn(s) /\ IsAdmin(s.user)
        /\ pass \/ name # s.user
        /\ name = s.user \/ (isOwner /\ settings.users[name] = None)
        /\ NewLogin(name, cred)
        /\ StartSave("post", new, {}, meant, ended \cup SessionsOf(s.user))
        /\ sessions' = (sessions \ {s}) \cup {[user |-> name, cred |-> cred]}
        /\ UNCHANGED pending

\* route_login: no settings change.
SignIn(n) ==
    /\ request = NoRequest /\ Credential(n) # None
    /\ ops < MaxOps /\ ops' = ops + 1
    /\ [user |-> n, cred |-> Credential(n)] \notin sessions
    /\ sessions' = sessions \cup {[user |-> n, cred |-> Credential(n)]}
    /\ UNCHANGED <<ofMeets, last_meet_file, settings, onDisk, active_uid, onTVs,
                   backups, history>>

Post ==
    \/ \E k \in Fields, raw \in Numbers : PostField(k, raw)
    \/ \E c \in Consoles : PostConsole(c)
    \/ \E look \in Looks, page \in Uids \cup {NoUid} : PostLook(look, page)
    \/ \E n \in Names, roles \in Pages :
          AddUser(n, roles) \/ \E pass \in BOOLEAN : SaveUser(n, roles, pass)
    \/ \E n \in Names : DeleteUser(n) \/ SignIn(n)
    \/ \E s \in sessions, name \in Names, pass \in BOOLEAN :
          Account(s, name, pass)

-----------------------------------------------------------------------------
(* The TVs.  Their handlers run on the event loop, one at a time.          *)

\* Mutant: a new TV is not written until something else is.
TVRegisterUnsaved(d) ==
    /\ told[d] = None /\ LoopFree /\ ~Booting
    /\ settings' = [settings EXCEPT !.displays[d] = View(d)]
    /\ told' = [told EXCEPT ![d] = Frame(d)]
    /\ UNCHANGED <<ofMeets, last_meet_file, ops, onDisk, active_uid, pending,
                   sessions, backups, history>>

\* register_display: only a TV that is new is saved.
TVRegister(d) ==
    /\ told[d] = None /\ LoopFree /\ ~Booting
    /\ \/ /\ settings.displays[d] # None
          /\ told' = [told EXCEPT ![d] = Frame(d)]
          /\ UNCHANGED <<settings, onDisk>>
       \/ /\ settings.displays[d] = None
          /\ StartSave(d, [settings EXCEPT !.displays[d] = "live"], {d}, meant,
                       ended)
          /\ UNCHANGED told
    /\ UNCHANGED <<ofMeets, last_meet_file, ops, active_uid, pending, sessions,
                   backups, history>>

TVLost(d) ==
    /\ told[d] # None /\ LoopFree
    /\ told' = [told EXCEPT ![d] = None]
    /\ pending' = [pending EXCEPT ![d] = 0]
    /\ UNCHANGED <<ofMeets, last_meet_file, ops, settings, onDisk, active_uid,
                   sessions, backups, history>>

Asks ==
    /\ LoopFree /\ Allows /\ ~Booting
    /\ ops < MaxOps /\ ops' = ops + 1
    /\ UNCHANGED <<ofMeets, last_meet_file, active_uid, onTVs, sessions,
                   backups, history>>

\* route_display_view: a TV that is not connected takes it when it is.
TVView(d, v) ==
    /\ Asks
    /\ settings.displays[d] \notin {None, v} /\ v \in Available
    /\ StartSave(d, [settings EXCEPT !.displays[d] = v],
                 IF told[d] = None THEN {} ELSE {d}, meant, ended)

TVForget(d) ==
    /\ Asks
    /\ settings.displays[d] # None /\ told[d] = None
    /\ StartSave(d, [settings EXCEPT !.displays[d] = None], {}, meant, ended)

\* send_view: the frame is made when the loop gets to it.
SendView(d) ==
    /\ pending[d] > 0 /\ LoopFree
    /\ pending' = [pending EXCEPT ![d] = @ - 1]
    /\ told' = [told EXCEPT ![d] = Frame(d)]
    /\ UNCHANGED <<ofMeets, last_meet_file, ops, settings, onDisk, active_uid,
                   sessions, backups, history>>

TV == \E d \in TVs :
    \/ TVRegister(d) \/ TVLost(d) \/ TVForget(d) \/ SendView(d)
    \/ \E v \in Views : TVView(d, v)

-----------------------------------------------------------------------------
(* Meets, backups and restarts.                                            *)

\* A save made whole: nothing else is being saved.
SavedAs(new) ==
    /\ savers = {} /\ Calm
    /\ settings' = new /\ file' = new
    /\ UNCHANGED <<tmp, savers>>

\* Mutant: the meet is shown with the last one's appearance.
NameMeetNoProfile ==
    /\ NameMeet
    /\ active_uid' = MeetUid'
    /\ SavedAs([settings EXCEPT !.last = active_meet_file',
                   !.profiles[active_uid'] = settings.look])
    /\ meant' = [meant EXCEPT
                    ![active_uid'] = IF @ = None THEN settings.look ELSE @]
    /\ pending' = Tell
    /\ UNCHANGED <<told, sessions, backups, ended>>

\* apply_meet_profile: a meet's own appearance; a new one's is what is on screen.
NameMeetPi ==
    LET uid == UidOf(meet, request.file)
        look == IF settings.profiles[uid] = None THEN settings.look
                ELSE settings.profiles[uid]
    IN  /\ NameMeet
        /\ active_uid' = uid
        /\ SavedAs([settings EXCEPT !.last = request.file, !.look = look,
                       !.profiles[uid] = look])
        /\ meant' = [meant EXCEPT ![uid] = IF @ = None THEN look ELSE @]
        /\ pending' = Tell
        /\ UNCHANGED <<told, sessions, backups, ended>>

\* Choosing no meet on the page leaves the uid of the last one.
UnloadPi ==
    /\ Unload
    /\ SavedAs([settings EXCEPT !.last = None])
    /\ active_uid' = IF request.op = "none meet" THEN active_uid ELSE NoUid
    /\ pending' = Tell
    /\ UNCHANGED <<told, sessions, backups, history>>

\* A re-read meet is announced.
AssignTimesPi ==
    /\ AssignTimes
    /\ pending' = IF request.op = "reload" THEN Tell ELSE pending
    /\ UNCHANGED <<settings, onDisk, active_uid, told, sessions, backups,
                   history>>

Begins ==
    /\ Calm /\ Allows /\ \A s \in savers : s.by # "post"
    /\ \/ BeginLoad \/ BeginDelete \/ BeginClear \/ BeginNone
       \/ \E export \in Exports \cup {Unreadable} : BeginUpdate(export)

\* A load that fails tells no one that there is no meet any more.
ParseFailsPi ==
    /\ ParseFails
    /\ \/ request.op = "reload" \/ "LoadsFail" \in Beyond
       \/ \A d \in TVs : told[d] = None \/ View(d) # "next"

MeetSteps ==
    /\ Worker \/ Debounce \/ Begins \/ ClearMeet \/ ResetRace \/ ParseFailsPi
          \/ CheckUpdate \/ ReplaceFile
          \/ (\E export \in Exports : OtherUpload(export))
          \/ SwapMeet \/ ReadTimes \/ DeleteFile \/ ClearFiles
    /\ UNCHANGED piVars

\* _restore_backup: the files of a backup made at the start over those here.
\* What it does not hold is left, and the restart is a second away.
Restore ==
    /\ request = NoRequest /\ Allows /\ savers = {} /\ ~restored
    /\ ops < MaxOps /\ ops' = ops + 1
    /\ file' = backup
    /\ last_meet_file' = None
    /\ restored' = TRUE
    /\ meant' = backup.profiles /\ ended' = {}
    /\ UNCHANGED <<lists, active_meet_file, folder, journal, console_times, race,
                   finish_tasks, request, swum_in, swims, settings, tmp, savers,
                   active_uid, onTVs, sessions, backup>>

\* load_settings, at a power cut or a restart.
Restart ==
    /\ file \notin {Empty, Mixed}
    /\ PowerCut
    /\ settings' = file
    /\ savers' = {}
    /\ active_uid' = NoUid
    /\ told' = [d \in TVs |-> None] /\ pending' = [d \in TVs |-> 0]
    /\ restored' = FALSE
    /\ UNCHANGED <<file, tmp, sessions, backup, history>>

Saving == \E s \in savers : WriteSave(s) \/ EndSave(s)

PiNext ==
    \/ MeetSteps \/ NameMeetPi \/ UnloadPi \/ AssignTimesPi
    \/ Post \/ TV \/ Saving \/ Restore \/ Restart

PiSpec == PiInit /\ [][PiNext]_allVars

-----------------------------------------------------------------------------
(* Properties.                                                             *)

Settled == request = NoRequest /\ savers = {} /\ ~restored

\* settings.json is never cut short or mixed, and once every handler is done it
\* is what the server runs with: what was answered survives a power cut
\* (save_settings, and every handler that must call it).
SettingsSurvive ==
    /\ file \notin {Empty, Mixed}
    /\ Settled => file = settings

\* Each meet keeps the appearance asked for it, and the loaded meet is shown in
\* its own (apply_meet_profile, save_meet_profile).
MeetKeepsItsOwn ==
    Settled =>
        /\ settings.profiles = meant
        /\ active_meet_file # None => settings.look = meant[active_uid]

\* A change of a login ends its other sessions, through deletion and a new user
\* of the same name, and restarts (web.credentials_stamp, user_credential).
LoginEndsSessions == savers = {} => \A s \in ended : ~SignedIn(s)

\* A bounded field is never below its least, nor a checked one unknown, whatever
\* is posted (_settings_view: the handlers, then the sweep).
FieldsInBounds == \A k \in Fields : settings.fields[k] >= Least

\* A connected TV that has been sent everything shows the view kept for it, and
\* whether this meet and console feed it (tell_views, send_view).
TVToldItsView ==
    Settled =>
        \A d \in TVs : told[d] # None /\ pending[d] = 0 => told[d] = Frame(d)
=============================================================================
