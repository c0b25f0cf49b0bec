------------------------------- MODULE SignIn -------------------------------
(***************************************************************************)
(* What a sign-in leaves behind and every later request relies on: the two *)
(* key files and the encrypted hostKeys (storage/secrets.py), the registry *)
(* of accounts (storage/account_store.py), the session cookie, the token   *)
(* in every form (web/session.py, web/csrf.py, web/deps.py) and the        *)
(* handlers of web/routes/auth.py.                                         *)
(*                                                                         *)
(* A handler runs on the event loop and keeps it while it writes files;    *)
(* the dependencies that read the cookie and find the account run in       *)
(* threads, between any two of those writes.  The process may stop, or the *)
(* disk refuse a write, at any of them.                                    *)
(*                                                                         *)
(* Left out: the counters of attempts (LoginLimiter), names and passwords  *)
(* that are refused, which change nothing here, how long a cookie lives,   *)
(* and what a form asks for: its effect is the business of other modules.  *)
(***************************************************************************)
EXTENDS Integers

CONSTANTS
    Person,     \* users of AnkiWeb
    Tab,        \* tabs of one browser: they share its cookie
    MaxFaults,  \* bound on stops and refused writes
    MaxKeys,    \* bound on the keys a run makes
    None

ASSUME BoundsAssumption == MaxFaults \in Nat /\ MaxKeys \in Nat
ASSUME NoneAssumption   == None \notin Tab

(* A name as it is typed; AnkiWeb does not tell Alice from alice.          *)
Name == [who : Person, caps : BOOLEAN]

(* What a key file holds: nothing yet, no bytes, or one of the keys made   *)
(* so far.  What a key has sealed or signed is known by that key.          *)
Missing == -1
Empty   == 0
Content == Missing .. MaxKeys

Token == [key : Content, user : Name]

VARIABLES
    sessionFile, hostKeyFile,   \* session.secret and hostkey.secret
    dirs,                       \* accounts with a directory
    enc,                        \* hostkey.enc of each account
    registry, objects,          \* its Account object, 0 if not loaded, and
                                \* how many this process has made
    keys,                       \* keys made so far
    loop,                       \* the tab whose handler holds the event loop
    pc, user, sent, obj,        \* each tab's request: where it is, for whom,
                                \* the cookie and form it carries, its Account
    cookie,                     \* the browser's cookie
    form,                       \* the token in the page each tab shows
    faults                      \* stops and refused writes so far

disk    == <<sessionFile, hostKeyFile, dirs, enc>>
memory  == <<registry, objects>>
request == <<pc, user, sent, obj>>
browser == <<cookie, form>>
vars == <<disk, memory, keys, loop, request, browser, faults>>

Signing == {"reset", "fernet", "hostkey", "open", "seal", "cookie", "session"}
Asking  == {"read", "lookup", "load", "csrf", "handle"}
Nothing == [cookie |-> None, form |-> None]

TypeOK ==
    /\ sessionFile \in Content /\ hostKeyFile \in Content
    /\ dirs \subseteq Name
    /\ enc \in [Name -> Content]
    /\ objects \in Nat
    /\ registry \in [Name -> 0 .. objects]
    /\ keys \in 0 .. MaxKeys
    /\ loop \in Tab \cup {None}
    /\ pc \in [Tab -> {"idle"} \cup Signing \cup Asking]
    /\ user \in [Tab -> Name \cup {None}]
    /\ sent \in [Tab -> [cookie : Token \cup {None}, form : Token \cup {None}]]
    /\ obj \in [Tab -> 0 .. objects]
    /\ cookie \in Token \cup {None}
    /\ form \in [Tab -> Token \cup {None}]
    /\ faults \in 0 .. MaxFaults

Init ==
    /\ sessionFile = Missing /\ hostKeyFile = Missing
    /\ dirs = {}
    /\ enc = [u \in Name |-> Missing]
    /\ registry = [u \in Name |-> 0] /\ objects = 0
    /\ keys = 0
    /\ loop = None
    /\ pc = [t \in Tab |-> "idle"]
    /\ user = [t \in Tab |-> None]
    /\ sent = [t \in Tab |-> Nothing]
    /\ obj = [t \in Tab |-> 0]
    /\ cookie = None
    /\ form = [t \in Tab |-> None]
    /\ faults = 0

-----------------------------------------------------------------------------
Goto(t, place) == pc' = [pc EXCEPT ![t] = place] /\ UNCHANGED <<user, sent, obj>>

End(t) ==
    /\ pc' = [pc EXCEPT ![t] = "idle"]
    /\ user' = [user EXCEPT ![t] = None]
    /\ sent' = [sent EXCEPT ![t] = Nothing]
    /\ obj' = [obj EXCEPT ![t] = 0]

(* The tab shows a page whose forms carry token, or a page without forms.  *)
Show(t, token) == form' = [form EXCEPT ![t] = token]

CacheAccount_NoRecheck(t, u) ==
    /\ registry' = [registry EXCEPT ![u] = objects + 1]
    /\ objects' = objects + 1
    /\ obj' = [obj EXCEPT ![t] = objects + 1]

(* AccountStore._cache_account, all of it under the registry's lock.       *)
CacheAccount(t, u) ==
    LET new == IF registry[u] = 0 THEN objects + 1 ELSE registry[u] IN
    /\ registry' = [registry EXCEPT ![u] = new]
    /\ objects' = IF registry[u] = 0 THEN objects + 1 ELSE objects
    /\ obj' = [obj EXCEPT ![t] = new]

-----------------------------------------------------------------------------
(* POST /login.                                                            *)

Sanitized(name) == [name EXCEPT !.caps = FALSE]

(* The quota and AnkiWeb let the user in; the handler awaits Redis to      *)
(* reset the counters.                                                     *)
Login(t, name, room) ==
    /\ pc[t] = "idle" /\ loop = None
    /\ Sanitized(name) \in dirs \/ room
    /\ pc' = [pc EXCEPT ![t] = "reset"]
    /\ user' = [user EXCEPT ![t] = Sanitized(name)]
    /\ UNCHANGED <<disk, memory, keys, loop, sent, obj, browser, faults>>

(* From here on the handler does not let go of the event loop.             *)
GetOrCreate(t) ==
    /\ pc[t] = "reset" /\ loop = None
    /\ loop' = t
    /\ dirs' = dirs \cup {user[t]}
    /\ CacheAccount(t, user[t])
    /\ pc' = [pc EXCEPT ![t] = "fernet"]
    /\ UNCHANGED <<sessionFile, hostKeyFile, enc, keys, user, sent, browser, faults>>

(* The request ends with an error and the browser keeps what it has.       *)
Fails(t) ==
    /\ loop' = None
    /\ End(t)
    /\ Show(t, None)
    /\ UNCHANGED <<memory, keys, cookie>>

(* save_secret_in opens the key file, or creates it: its bytes come in the *)
(* next step.  An empty file is neither: it is never created again, and    *)
(* Fernet refuses it.                                                      *)
HostKeyFernet(t) ==
    /\ pc[t] = "fernet"
    /\ \/ /\ hostKeyFile = Missing
          /\ hostKeyFile' = Empty
          /\ Goto(t, "hostkey")
          /\ UNCHANGED <<sessionFile, dirs, enc, memory, keys, loop, browser, faults>>
       \/ /\ hostKeyFile = Empty
          /\ Fails(t)
          /\ UNCHANGED <<disk, faults>>
       \/ /\ hostKeyFile > Empty
          /\ Goto(t, "open")
          /\ UNCHANGED <<disk, memory, keys, loop, browser, faults>>

WriteHostKeyFile(t) ==
    /\ pc[t] = "hostkey" /\ keys < MaxKeys
    /\ hostKeyFile' = keys + 1
    /\ keys' = keys + 1
    /\ Goto(t, "open")
    /\ UNCHANGED <<sessionFile, dirs, enc, memory, loop, browser, faults>>

(* Opening the file for writing truncates it.                              *)
OpenEncrypted(t) ==
    /\ pc[t] = "open"
    /\ enc' = [enc EXCEPT ![user[t]] = Empty]
    /\ Goto(t, "seal")
    /\ UNCHANGED <<sessionFile, hostKeyFile, dirs, memory, keys, loop, browser, faults>>

Seal_SessionKey(t) ==
    /\ pc[t] = "seal"
    /\ enc' = [enc EXCEPT ![user[t]] = IF sessionFile = Missing THEN hostKeyFile ELSE sessionFile]
    /\ Goto(t, "cookie")
    /\ UNCHANGED <<sessionFile, hostKeyFile, dirs, memory, keys, loop, browser, faults>>

Seal(t) ==
    /\ pc[t] = "seal"
    /\ enc' = [enc EXCEPT ![user[t]] = hostKeyFile]
    /\ Goto(t, "cookie")
    /\ UNCHANGED <<sessionFile, hostKeyFile, dirs, memory, keys, loop, browser, faults>>

(* The redirect home, with a cookie signed with key.                       *)
SignedIn(t, key) ==
    /\ cookie' = [key |-> key, user |-> user[t]]
    /\ loop' = None
    /\ End(t)
    /\ Show(t, None)

WriteSession_RenewsTheKey(t) ==
    /\ pc[t] = "cookie"
    /\ sessionFile' = Empty
    /\ Goto(t, "session")
    /\ UNCHANGED <<hostKeyFile, dirs, enc, memory, keys, loop, browser, faults>>

(* A session.secret that exists is used as it is.                          *)
WriteSession(t) ==
    /\ pc[t] = "cookie"
    /\ \/ /\ sessionFile = Missing
          /\ sessionFile' = Empty
          /\ Goto(t, "session")
          /\ UNCHANGED <<hostKeyFile, dirs, enc, memory, keys, loop, browser, faults>>
       \/ /\ sessionFile # Missing
          /\ SignedIn(t, sessionFile)
          /\ UNCHANGED <<disk, memory, keys, faults>>

WriteSessionFile(t) ==
    /\ pc[t] = "session" /\ keys < MaxKeys
    /\ sessionFile' = keys + 1
    /\ keys' = keys + 1
    /\ SignedIn(t, keys + 1)
    /\ UNCHANGED <<hostKeyFile, dirs, enc, memory, faults>>

(* An OSError where a file is opened or written: the file stays as it is.  *)
DiskFails(t) ==
    /\ pc[t] \in Signing \ {"reset"} /\ faults < MaxFaults
    /\ Fails(t)
    /\ faults' = faults + 1
    /\ UNCHANGED disk

-----------------------------------------------------------------------------
(* Every other page and form.                                              *)

(* A tab follows a link, or sends a form of the page it shows.             *)
Ask(t, token) ==
    /\ pc[t] = "idle"
    /\ token \in {None, form[t]}
    /\ pc' = [pc EXCEPT ![t] = "read"]
    /\ sent' = [sent EXCEPT ![t] = [cookie |-> cookie, form |-> token]]
    /\ UNCHANGED <<disk, memory, keys, loop, user, obj, browser, faults>>

(* The answer is a page without forms: the login page or a refusal.        *)
Refused(t) == End(t) /\ Show(t, None) /\ UNCHANGED cookie

(* The redirect of POST /logout.                                           *)
SignedOut(t) == End(t) /\ Show(t, None) /\ cookie' = None

(* read_session, in a thread.  A request to sign out that has no session   *)
(* is let through by require_csrf and clears the cookie all the same.      *)
ReadSession(t) ==
    LET c == sent[t].cookie IN
    /\ pc[t] = "read"
    /\ IF sessionFile # Missing /\ c # None /\ c.key = sessionFile
       THEN /\ pc' = [pc EXCEPT ![t] = "lookup"]
            /\ user' = [user EXCEPT ![t] = c.user]
            /\ UNCHANGED <<sent, obj, browser>>
       ELSE \/ Refused(t)
            \/ sent[t].form # None /\ SignedOut(t)
    /\ UNCHANGED <<disk, memory, keys, loop, faults>>

(* _resolve_account, in a thread.                                          *)
GetLoaded(t) ==
    /\ pc[t] = "lookup"
    /\ obj' = [obj EXCEPT ![t] = registry[user[t]]]
    /\ pc' = [pc EXCEPT ![t] = IF registry[user[t]] = 0 THEN "load" ELSE "csrf"]
    /\ UNCHANGED <<disk, memory, keys, loop, user, sent, browser, faults>>

TryLoad(t) ==
    /\ pc[t] = "load"
    /\ IF user[t] \in dirs
       THEN /\ CacheAccount(t, user[t])
            /\ pc' = [pc EXCEPT ![t] = "csrf"]
            /\ UNCHANGED <<user, sent, browser>>
       ELSE Refused(t) /\ UNCHANGED memory
    /\ UNCHANGED <<disk, keys, loop, faults>>

CsrfValid_AnyAccount(t) == sent[t].form.key = sessionFile

CsrfValid(t) ==
    sent[t].form.key = sessionFile /\ sent[t].form.user = user[t]

(* require_csrf, for a form: it comes after the account was found.         *)
RequireCsrf(t) ==
    /\ pc[t] = "csrf" /\ loop = None
    /\ IF sent[t].form = None \/ CsrfValid(t)
       THEN Goto(t, "handle") /\ UNCHANGED browser
       ELSE Refused(t)
    /\ UNCHANGED <<disk, memory, keys, loop, faults>>

(* The handler; csrf_token signs the forms of the page it renders.         *)
Handle(t) ==
    /\ pc[t] = "handle" /\ loop = None
    /\ Show(t, [key |-> sessionFile, user |-> user[t]])
    /\ End(t)
    /\ UNCHANGED <<disk, memory, keys, loop, cookie, faults>>

(* POST /logout asks for no account.                                       *)
Logout(t) ==
    /\ pc[t] = "lookup" /\ loop = None /\ sent[t].form # None
    /\ IF CsrfValid(t) THEN SignedOut(t) ELSE Refused(t)
    /\ UNCHANGED <<disk, memory, keys, loop, faults>>

(* load_secret_in returns the hostKey.                                     *)
Readable(u) == u \in dirs /\ hostKeyFile > Empty /\ enc[u] = hostKeyFile

(* A sync whose hostKey AnkiWeb rejects deletes it.                        *)
DeleteHostKey(u) ==
    /\ loop = None /\ registry[u] # 0
    /\ enc' = [enc EXCEPT ![u] = Missing]
    /\ UNCHANGED <<sessionFile, hostKeyFile, dirs, memory, keys, loop, request, browser, faults>>

(* The process stops and starts again; files and browser stay.             *)
Stop ==
    /\ faults < MaxFaults
    /\ faults' = faults + 1
    /\ registry' = [u \in Name |-> 0] /\ objects' = 0
    /\ loop' = None
    /\ pc' = [t \in Tab |-> "idle"]
    /\ user' = [t \in Tab |-> None]
    /\ sent' = [t \in Tab |-> Nothing]
    /\ obj' = [t \in Tab |-> 0]
    /\ UNCHANGED <<disk, keys, browser>>

-----------------------------------------------------------------------------
SignInStep(t) ==
    \/ GetOrCreate(t)   \/ HostKeyFernet(t) \/ WriteHostKeyFile(t)
    \/ OpenEncrypted(t) \/ Seal(t)          \/ WriteSession(t)
    \/ WriteSessionFile(t)

RequestStep(t) ==
    \/ ReadSession(t) \/ GetLoaded(t) \/ TryLoad(t) \/ RequireCsrf(t)
    \/ Handle(t)      \/ Logout(t)

Next ==
    \/ \E t \in Tab, name \in Name, room \in BOOLEAN : Login(t, name, room)
    \/ \E t \in Tab : SignInStep(t) \/ DiskFails(t) \/ RequestStep(t)
    \/ \E t \in Tab : \E token \in {None, form[t]} : Ask(t, token)
    \/ \E u \in Name : DeleteHostKey(u)
    \/ Stop

Spec == Init /\ [][Next]_vars
-----------------------------------------------------------------------------
(* Two requests of one AnkiWeb user, however the name was typed and        *)
(* whether a sign-in or a cookie found the account, hold the same Account: *)
(* its lock and its sync state are the only ones.                          *)
OneAccount ==
    \A t1, t2 \in Tab :
        obj[t1] # 0 /\ obj[t2] # 0 /\ user[t1].who = user[t2].who
            => obj[t1] = obj[t2]

(* A key, once written, is never replaced: everything it has sealed or     *)
(* signed stays readable, over every stop and refused write.               *)
KeysLast ==
    [][/\ hostKeyFile > Empty => hostKeyFile' = hostKeyFile
       /\ sessionFile > Empty => sessionFile' = sessionFile]_vars

(* A hostKey on disk is one the server can open, unless its own writing    *)
(* was cut short.                                                          *)
StoredKeyReadable ==
    \A u \in Name : enc[u] > Empty => Readable(u)

(* A browser that was signed in stays signed in until it signs out: its    *)
(* cookie is accepted and its account is found, also after a restart.      *)
CookieWorks ==
    cookie # None => cookie.key = sessionFile /\ cookie.user \in dirs

(* A form left open while another account signs in acts for the account it *)
(* was rendered for, or not at all.                                        *)
FormsActOnOwnAccount ==
    \A t \in Tab :
        pc[t] = "handle" /\ sent[t].form # None
            => sent[t].form.user = user[t]
-----------------------------------------------------------------------------
(* auth.py:158: "the user can sign back in to the same account": a sign-in *)
(* that AnkiWeb accepts never meets a key file it cannot use.              *)
CanSignBackIn == \A t \in Tab : pc[t] = "fernet" => hostKeyFile # Empty
=============================================================================
