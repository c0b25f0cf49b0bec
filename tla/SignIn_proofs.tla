---------------------------- MODULE SignIn_proofs ----------------------------
(***************************************************************************)
(* Theorems about SignIn, for any number of users, tabs, keys and faults.  *)
(***************************************************************************)
EXTENDS SignIn, TLAPS

(* From GetOrCreate to the redirect a sign-in keeps the event loop.        *)
Writing == Signing \ {"reset"}

LoopOwned == \A t \in Tab : pc[t] \in Writing <=> loop = t

(* Only a typed name can have capitals: every other one was sanitized on   *)
(* its way into a directory, a cookie or a request.                        *)
NamesSanitized ==
    /\ \A u \in dirs : ~u.caps
    /\ cookie # None => cookie \in Token /\ ~cookie.user.caps
    /\ \A t \in Tab :
          /\ sent[t].cookie # None =>
                sent[t].cookie \in Token /\ ~sent[t].cookie.user.caps
          /\ pc[t] \in Signing \cup (Asking \ {"read"}) =>
                user[t] \in Name /\ ~user[t].caps
          /\ pc[t] \in Writing => user[t] \in dirs

(* A request that holds an Account holds the one of the registry.          *)
HeldIsRegistered ==
    \A t \in Tab : obj[t] # 0 =>
        /\ pc[t] \in Writing \cup {"csrf", "handle"}
        /\ obj[t] = registry[user[t]]

(* What a sign-in has found or made of the files when it gets to a point.  *)
FilesInTurn ==
    \A t \in Tab :
        /\ pc[t] = "hostkey" => hostKeyFile = Empty
        /\ pc[t] \in {"open", "seal"} => hostKeyFile > Empty
        /\ pc[t] = "session" => sessionFile = Empty

CookieSigned == cookie # None => sessionFile # Missing

-----------------------------------------------------------------------------
(* How the steps that most handlers end with keep the types.               *)
LEMMA ContentFacts ==
    /\ Missing \in Content /\ Empty \in Content
    /\ \A k \in 0 .. MaxKeys : k \in Content
    /\ keys \in 0 .. MaxKeys /\ keys < MaxKeys => keys + 1 \in 1 .. MaxKeys
BY BoundsAssumption DEF Content, Missing, Empty

LEMMA EndTypes ==
    ASSUME TypeOK, NEW t \in Tab, End(t)
    PROVE  /\ pc' \in [Tab -> {"idle"} \cup Signing \cup Asking]
           /\ user' \in [Tab -> Name \cup {None}]
           /\ sent' \in [Tab -> [cookie : Token \cup {None}, form : Token \cup {None}]]
           /\ obj' \in [Tab -> 0 .. objects]
BY DEF TypeOK, End, Nothing

LEMMA CacheAccountTypes ==
    ASSUME TypeOK, NEW t \in Tab, NEW u \in Name, CacheAccount(t, u)
    PROVE  /\ objects' \in Nat
           /\ registry' \in [Name -> 0 .. objects']
           /\ obj' \in [Tab -> 0 .. objects']
BY DEF TypeOK, CacheAccount


(* The types of the variables are kept by every step.                      *)
LEMMA TypeStep ==
    ASSUME TypeOK, NamesSanitized, [Next]_vars
    PROVE  TypeOK'
<1> USE BoundsAssumption, ContentFacts DEF TypeOK, vars, disk, memory,
            request, browser
<1>1. ASSUME NEW t \in Tab, NEW name \in Name, NEW room \in BOOLEAN,
            Login(t, name, room)
      PROVE  TypeOK'
  BY <1>1 DEF Login, Sanitized, Name, Signing
<1>2. ASSUME NEW t \in Tab, GetOrCreate(t) PROVE TypeOK'
  <2>1. user[t] \in Name
    BY <1>2 DEF GetOrCreate, NamesSanitized, Signing
  <2>2. /\ objects' \in Nat
        /\ registry' \in [Name -> 0 .. objects']
        /\ obj' \in [Tab -> 0 .. objects']
    BY <1>2, <2>1, CacheAccountTypes DEF GetOrCreate
  <2>3. QED
    BY <1>2, <2>1, <2>2 DEF GetOrCreate, Signing
<1>3. ASSUME NEW t \in Tab, HostKeyFernet(t) PROVE TypeOK'
  <2>1. CASE Fails(t)
    BY <1>3, <2>1, EndTypes DEF HostKeyFernet, Fails, Show
  <2>2. CASE ~Fails(t)
    BY <1>3, <2>2 DEF HostKeyFernet, Goto, Signing
  <2>3. QED
    BY <2>1, <2>2
<1>4. ASSUME NEW t \in Tab, WriteHostKeyFile(t) PROVE TypeOK'
  BY <1>4 DEF WriteHostKeyFile, Goto, Signing
<1>5. ASSUME NEW t \in Tab, OpenEncrypted(t) PROVE TypeOK'
  BY <1>5 DEF OpenEncrypted, Goto, Signing
<1>6. ASSUME NEW t \in Tab, Seal(t) PROVE TypeOK'
  BY <1>6 DEF Seal, Goto, Signing
<1>7. ASSUME NEW t \in Tab, WriteSession(t) PROVE TypeOK'
  <2>1. CASE SignedIn(t, sessionFile)
    <3>1. cookie' \in Token
      BY <1>7, <2>1 DEF WriteSession, SignedIn, NamesSanitized, Token, Signing
    <3>2. QED
      BY <1>7, <2>1, <3>1, EndTypes DEF WriteSession, SignedIn, Show
  <2>2. CASE ~SignedIn(t, sessionFile)
    BY <1>7, <2>2 DEF WriteSession, Goto, Signing
  <2>3. QED
    BY <2>1, <2>2
<1>8. ASSUME NEW t \in Tab, WriteSessionFile(t) PROVE TypeOK'
  <2>1. cookie' \in Token
    BY <1>8 DEF WriteSessionFile, SignedIn, NamesSanitized, Token, Signing
  <2>2. QED
    BY <1>8, <2>1, EndTypes DEF WriteSessionFile, SignedIn, Show
<1>9. ASSUME NEW t \in Tab, DiskFails(t) PROVE TypeOK'
  BY <1>9, EndTypes DEF DiskFails, Fails, Show
<1>10. ASSUME NEW t \in Tab, ReadSession(t) PROVE TypeOK'
  <2>1. CASE Refused(t) \/ SignedOut(t)
    BY <1>10, <2>1, EndTypes DEF ReadSession, Refused, SignedOut, Show
  <2>2. CASE ~Refused(t) /\ ~SignedOut(t)
    BY <1>10, <2>2 DEF ReadSession, NamesSanitized, Token, Asking
  <2>3. QED
    BY <2>1, <2>2
<1>11. ASSUME NEW t \in Tab, RequireCsrf(t) PROVE TypeOK'
  <2>1. CASE Refused(t)
    BY <1>11, <2>1, EndTypes DEF RequireCsrf, Refused, Show
  <2>2. CASE ~Refused(t)
    BY <1>11, <2>2 DEF RequireCsrf, Goto, Asking
  <2>3. QED
    BY <2>1, <2>2
<1>12. ASSUME NEW t \in Tab, GetLoaded(t) PROVE TypeOK'
  BY <1>12 DEF GetLoaded, NamesSanitized, Asking
<1>13. ASSUME NEW t \in Tab, TryLoad(t) PROVE TypeOK'
  <2>1. user[t] \in Name
    BY <1>13 DEF TryLoad, NamesSanitized, Asking
  <2>2. CASE user[t] \in dirs
    <3>1. /\ objects' \in Nat
          /\ registry' \in [Name -> 0 .. objects']
          /\ obj' \in [Tab -> 0 .. objects']
      BY <1>13, <2>1, <2>2, CacheAccountTypes DEF TryLoad
    <3>2. QED
      BY <1>13, <2>2, <3>1 DEF TryLoad, Asking
  <2>3. CASE user[t] \notin dirs
    BY <1>13, <2>3, EndTypes DEF TryLoad, Refused, Show
  <2>4. QED
    BY <2>2, <2>3
<1>14. ASSUME NEW t \in Tab, Handle(t) PROVE TypeOK'
  <2>1. form'[t] \in Token /\ form' \in [Tab -> Token \cup {None}]
    BY <1>14 DEF Handle, Show, NamesSanitized, Token, Asking
  <2>2. QED
    BY <1>14, <2>1, EndTypes DEF Handle
<1>15. ASSUME NEW t \in Tab, Logout(t) PROVE TypeOK'
  BY <1>15, EndTypes DEF Logout, Refused, SignedOut, Show
<1>16. ASSUME NEW t \in Tab, NEW token \in {None, form[t]}, Ask(t, token)
       PROVE  TypeOK'
  BY <1>16 DEF Ask, Asking
<1>17. ASSUME NEW u \in Name, DeleteHostKey(u) PROVE TypeOK'
  BY <1>17 DEF DeleteHostKey
<1>18. ASSUME Stop PROVE TypeOK'
  BY <1>18 DEF Stop, Nothing
<1>19. CASE UNCHANGED vars
  BY <1>19
<1> HIDE DEF TypeOK, vars, disk, memory, request, browser
<1>20. QED
  BY <1>1, <1>2, <1>3, <1>4, <1>5, <1>6, <1>7, <1>8, <1>9, <1>10, <1>11,
     <1>12, <1>13, <1>14, <1>15, <1>16, <1>17, <1>18, <1>19
     DEF Next, SignInStep, RequestStep

(* The event loop has one owner, the sign-in that is writing.              *)
LEMMA LoopStep ==
    ASSUME TypeOK, LoopOwned, [Next]_vars
    PROVE  LoopOwned'
<1> USE NoneAssumption DEF TypeOK, LoopOwned, Signing, Asking, Writing,
            Nothing, vars, disk, memory, request, browser
<1>1. ASSUME NEW t \in Tab, NEW name \in Name, NEW room \in BOOLEAN,
            Login(t, name, room)
      PROVE  LoopOwned'
  BY <1>1 DEF Login, Sanitized
<1>2. ASSUME NEW t \in Tab, GetOrCreate(t) PROVE LoopOwned'
  BY <1>2 DEF GetOrCreate, CacheAccount
<1>3. ASSUME NEW t \in Tab, HostKeyFernet(t) PROVE LoopOwned'
  BY <1>3 DEF HostKeyFernet, Fails, Goto, End, Show
<1>4. ASSUME NEW t \in Tab, WriteHostKeyFile(t) PROVE LoopOwned'
  BY <1>4 DEF WriteHostKeyFile, Goto
<1>5. ASSUME NEW t \in Tab, OpenEncrypted(t) PROVE LoopOwned'
  BY <1>5 DEF OpenEncrypted, Goto
<1>6. ASSUME NEW t \in Tab, Seal(t) PROVE LoopOwned'
  BY <1>6 DEF Seal, Goto
<1>7. ASSUME NEW t \in Tab, WriteSession(t) PROVE LoopOwned'
  BY <1>7 DEF WriteSession, SignedIn, Goto, End, Show
<1>8. ASSUME NEW t \in Tab, WriteSessionFile(t) PROVE LoopOwned'
  BY <1>8 DEF WriteSessionFile, SignedIn, End, Show
<1>9. ASSUME NEW t \in Tab, DiskFails(t) PROVE LoopOwned'
  BY <1>9 DEF DiskFails, Fails, End, Show
<1>10. ASSUME NEW t \in Tab, ReadSession(t) PROVE LoopOwned'
  BY <1>10 DEF ReadSession, Refused, SignedOut, End, Show
<1>11. ASSUME NEW t \in Tab, RequireCsrf(t) PROVE LoopOwned'
  BY <1>11 DEF RequireCsrf, CsrfValid, Refused, Goto, End, Show
<1>12. ASSUME NEW t \in Tab, GetLoaded(t) PROVE LoopOwned'
  BY <1>12 DEF GetLoaded
<1>13. ASSUME NEW t \in Tab, TryLoad(t) PROVE LoopOwned'
  BY <1>13 DEF TryLoad, CacheAccount, Refused, End, Show
<1>14. ASSUME NEW t \in Tab, Handle(t) PROVE LoopOwned'
  BY <1>14 DEF Handle, End, Show
<1>15. ASSUME NEW t \in Tab, Logout(t) PROVE LoopOwned'
  BY <1>15 DEF Logout, Refused, SignedOut, End, Show
<1>16. ASSUME NEW t \in Tab, NEW token \in {None, form[t]}, Ask(t, token)
       PROVE  LoopOwned'
  BY <1>16 DEF Ask
<1>17. ASSUME NEW u \in Name, DeleteHostKey(u) PROVE LoopOwned'
  BY <1>17 DEF DeleteHostKey
<1>18. ASSUME Stop PROVE LoopOwned'
  BY <1>18 DEF Stop
<1>19. CASE UNCHANGED vars
  BY <1>19
<1> HIDE DEF TypeOK, LoopOwned, Signing, Asking, Writing, Nothing, vars,
             disk, memory, request, browser
<1>20. QED
  BY <1>1, <1>2, <1>3, <1>4, <1>5, <1>6, <1>7, <1>8, <1>9, <1>10, <1>11,
     <1>12, <1>13, <1>14, <1>15, <1>16, <1>17, <1>18, <1>19
     DEF Next, SignInStep, RequestStep

LEMMA NamesStep ==
    ASSUME TypeOK, NamesSanitized, [Next]_vars
    PROVE  NamesSanitized'
<1> USE DEF TypeOK, NamesSanitized, Signing, Asking, Writing, Nothing, vars,
            disk, memory, request, browser
<1>1. ASSUME NEW t \in Tab, NEW name \in Name, NEW room \in BOOLEAN,
            Login(t, name, room)
      PROVE  NamesSanitized'
  BY <1>1 DEF Login, Sanitized, Name
<1>2. ASSUME NEW t \in Tab, GetOrCreate(t) PROVE NamesSanitized'
  BY <1>2 DEF GetOrCreate, CacheAccount
<1>3. ASSUME NEW t \in Tab, HostKeyFernet(t) PROVE NamesSanitized'
  BY <1>3 DEF HostKeyFernet, Fails, Goto, End, Show
<1>4. ASSUME NEW t \in Tab, WriteHostKeyFile(t) PROVE NamesSanitized'
  BY <1>4 DEF WriteHostKeyFile, Goto
<1>5. ASSUME NEW t \in Tab, OpenEncrypted(t) PROVE NamesSanitized'
  BY <1>5 DEF OpenEncrypted, Goto
<1>6. ASSUME NEW t \in Tab, Seal(t) PROVE NamesSanitized'
  BY <1>6 DEF Seal, Goto
<1>7. ASSUME NEW t \in Tab, WriteSession(t) PROVE NamesSanitized'
  <2>1. CASE SignedIn(t, sessionFile)
    <3>1. cookie' \in Token /\ cookie'.user = user[t]
      BY <1>7, <2>1 DEF WriteSession, SignedIn, Token
    <3>2. QED
      BY <1>7, <2>1, <3>1 DEF WriteSession, SignedIn, End
  <2>2. CASE ~SignedIn(t, sessionFile)
    BY <1>7, <2>2 DEF WriteSession, Goto
  <2>3. QED
    BY <2>1, <2>2
<1>8. ASSUME NEW t \in Tab, WriteSessionFile(t) PROVE NamesSanitized'
  <2>1. cookie' \in Token /\ cookie'.user = user[t]
    BY <1>8, ContentFacts DEF WriteSessionFile, SignedIn, Token
  <2>2. QED
    BY <1>8, <2>1 DEF WriteSessionFile, SignedIn, End
<1>9. ASSUME NEW t \in Tab, DiskFails(t) PROVE NamesSanitized'
  BY <1>9 DEF DiskFails, Fails, End, Show
<1>10. ASSUME NEW t \in Tab, ReadSession(t) PROVE NamesSanitized'
  <2>1. CASE Refused(t) \/ SignedOut(t)
    BY <1>10, <2>1 DEF ReadSession, Refused, SignedOut, End
  <2>2. CASE ~Refused(t) /\ ~SignedOut(t)
    BY <1>10, <2>2 DEF ReadSession, Token
  <2>3. QED
    BY <2>1, <2>2
<1>11. ASSUME NEW t \in Tab, RequireCsrf(t) PROVE NamesSanitized'
  <2>1. CASE Refused(t)
    BY <1>11, <2>1 DEF RequireCsrf, Refused, End
  <2>2. CASE ~Refused(t)
    BY <1>11, <2>2 DEF RequireCsrf, Goto
  <2>3. QED
    BY <2>1, <2>2
<1>12. ASSUME NEW t \in Tab, GetLoaded(t) PROVE NamesSanitized'
  BY <1>12 DEF GetLoaded
<1>13. ASSUME NEW t \in Tab, TryLoad(t) PROVE NamesSanitized'
  <2>1. CASE user[t] \in dirs
    BY <1>13, <2>1 DEF TryLoad
  <2>2. CASE user[t] \notin dirs
    BY <1>13, <2>2 DEF TryLoad, Refused, End
  <2>3. QED
    BY <2>1, <2>2
<1>14. ASSUME NEW t \in Tab, Handle(t) PROVE NamesSanitized'
  BY <1>14 DEF Handle, End, Show
<1>15. ASSUME NEW t \in Tab, Logout(t) PROVE NamesSanitized'
  <2>1. CASE Refused(t)
    BY <1>15, <2>1 DEF Logout, Refused, End
  <2>2. CASE SignedOut(t)
    BY <1>15, <2>2 DEF Logout, SignedOut, End
  <2>3. QED
    BY <1>15, <2>1, <2>2 DEF Logout
<1>16. ASSUME NEW t \in Tab, NEW token \in {None, form[t]}, Ask(t, token)
       PROVE  NamesSanitized'
  BY <1>16 DEF Ask
<1>17. ASSUME NEW u \in Name, DeleteHostKey(u) PROVE NamesSanitized'
  BY <1>17 DEF DeleteHostKey
<1>18. ASSUME Stop PROVE NamesSanitized'
  BY <1>18 DEF Stop, Nothing
<1>19. CASE UNCHANGED vars
  BY <1>19
<1> HIDE DEF TypeOK, NamesSanitized, Signing, Asking, Writing, Nothing, vars,
             disk, memory, request, browser
<1>20. QED
  BY <1>1, <1>2, <1>3, <1>4, <1>5, <1>6, <1>7, <1>8, <1>9, <1>10, <1>11,
     <1>12, <1>13, <1>14, <1>15, <1>16, <1>17, <1>18, <1>19
     DEF Next, SignInStep, RequestStep

LEMMA HeldStep ==
    ASSUME TypeOK, NamesSanitized, HeldIsRegistered, [Next]_vars
    PROVE  HeldIsRegistered'
<1> USE DEF TypeOK, NamesSanitized, HeldIsRegistered, Token, Signing,
            Asking, Writing, Nothing, vars, disk, memory, request, browser
<1>1. ASSUME NEW t \in Tab, NEW name \in Name, NEW room \in BOOLEAN,
            Login(t, name, room)
      PROVE  HeldIsRegistered'
  BY <1>1 DEF Login, Sanitized
<1>2. ASSUME NEW t \in Tab, GetOrCreate(t) PROVE HeldIsRegistered'
  BY <1>2 DEF GetOrCreate, CacheAccount
<1>3. ASSUME NEW t \in Tab, HostKeyFernet(t) PROVE HeldIsRegistered'
  BY <1>3 DEF HostKeyFernet, Fails, Goto, End, Show
<1>4. ASSUME NEW t \in Tab, WriteHostKeyFile(t) PROVE HeldIsRegistered'
  BY <1>4 DEF WriteHostKeyFile, Goto
<1>5. ASSUME NEW t \in Tab, OpenEncrypted(t) PROVE HeldIsRegistered'
  BY <1>5 DEF OpenEncrypted, Goto
<1>6. ASSUME NEW t \in Tab, Seal(t) PROVE HeldIsRegistered'
  BY <1>6 DEF Seal, Goto
<1>7. ASSUME NEW t \in Tab, WriteSession(t) PROVE HeldIsRegistered'
  BY <1>7 DEF WriteSession, SignedIn, Goto, End, Show
<1>8. ASSUME NEW t \in Tab, WriteSessionFile(t) PROVE HeldIsRegistered'
  BY <1>8 DEF WriteSessionFile, SignedIn, End, Show
<1>9. ASSUME NEW t \in Tab, DiskFails(t) PROVE HeldIsRegistered'
  BY <1>9 DEF DiskFails, Fails, End, Show
<1>10. ASSUME NEW t \in Tab, ReadSession(t) PROVE HeldIsRegistered'
  BY <1>10 DEF ReadSession, Refused, SignedOut, End, Show
<1>11. ASSUME NEW t \in Tab, RequireCsrf(t) PROVE HeldIsRegistered'
  BY <1>11 DEF RequireCsrf, CsrfValid, Refused, Goto, End, Show
<1>12. ASSUME NEW t \in Tab, GetLoaded(t) PROVE HeldIsRegistered'
  BY <1>12 DEF GetLoaded
<1>13. ASSUME NEW t \in Tab, TryLoad(t) PROVE HeldIsRegistered'
  BY <1>13 DEF TryLoad, CacheAccount, Refused, End, Show
<1>14. ASSUME NEW t \in Tab, Handle(t) PROVE HeldIsRegistered'
  BY <1>14 DEF Handle, End, Show
<1>15. ASSUME NEW t \in Tab, Logout(t) PROVE HeldIsRegistered'
  BY <1>15 DEF Logout, Refused, SignedOut, End, Show
<1>16. ASSUME NEW t \in Tab, NEW token \in {None, form[t]}, Ask(t, token)
       PROVE  HeldIsRegistered'
  BY <1>16 DEF Ask
<1>17. ASSUME NEW u \in Name, DeleteHostKey(u) PROVE HeldIsRegistered'
  BY <1>17 DEF DeleteHostKey
<1>18. ASSUME Stop PROVE HeldIsRegistered'
  BY <1>18 DEF Stop
<1>19. CASE UNCHANGED vars
  BY <1>19
<1> HIDE DEF TypeOK, NamesSanitized, HeldIsRegistered, Token, Signing,
             Asking, Writing, Nothing, vars, disk, memory, request, browser
<1>20. QED
  BY <1>1, <1>2, <1>3, <1>4, <1>5, <1>6, <1>7, <1>8, <1>9, <1>10, <1>11,
     <1>12, <1>13, <1>14, <1>15, <1>16, <1>17, <1>18, <1>19
     DEF Next, SignInStep, RequestStep

LEMMA FilesStep ==
    ASSUME TypeOK, LoopOwned, FilesInTurn, [Next]_vars
    PROVE  FilesInTurn'
<1> USE NoneAssumption DEF TypeOK, LoopOwned, FilesInTurn, Signing, Asking,
            Writing, Nothing, Content, Missing, Empty, vars, disk, memory,
            request, browser
<1>1. ASSUME NEW t \in Tab, NEW name \in Name, NEW room \in BOOLEAN,
            Login(t, name, room)
      PROVE  FilesInTurn'
  BY <1>1 DEF Login, Sanitized
<1>2. ASSUME NEW t \in Tab, GetOrCreate(t) PROVE FilesInTurn'
  BY <1>2 DEF GetOrCreate, CacheAccount
<1>3. ASSUME NEW t \in Tab, HostKeyFernet(t) PROVE FilesInTurn'
  BY <1>3 DEF HostKeyFernet, Fails, Goto, End, Show
<1>4. ASSUME NEW t \in Tab, WriteHostKeyFile(t) PROVE FilesInTurn'
  BY <1>4 DEF WriteHostKeyFile, Goto
<1>5. ASSUME NEW t \in Tab, OpenEncrypted(t) PROVE FilesInTurn'
  BY <1>5 DEF OpenEncrypted, Goto
<1>6. ASSUME NEW t \in Tab, Seal(t) PROVE FilesInTurn'
  BY <1>6 DEF Seal, Goto
<1>7. ASSUME NEW t \in Tab, WriteSession(t) PROVE FilesInTurn'
  BY <1>7 DEF WriteSession, SignedIn, Goto, End, Show
<1>8. ASSUME NEW t \in Tab, WriteSessionFile(t) PROVE FilesInTurn'
  BY <1>8 DEF WriteSessionFile, SignedIn, End, Show
<1>9. ASSUME NEW t \in Tab, DiskFails(t) PROVE FilesInTurn'
  BY <1>9 DEF DiskFails, Fails, End, Show
<1>10. ASSUME NEW t \in Tab, ReadSession(t) PROVE FilesInTurn'
  BY <1>10 DEF ReadSession, Refused, SignedOut, End, Show
<1>11. ASSUME NEW t \in Tab, RequireCsrf(t) PROVE FilesInTurn'
  BY <1>11 DEF RequireCsrf, CsrfValid, Refused, Goto, End, Show
<1>12. ASSUME NEW t \in Tab, GetLoaded(t) PROVE FilesInTurn'
  BY <1>12 DEF GetLoaded
<1>13. ASSUME NEW t \in Tab, TryLoad(t) PROVE FilesInTurn'
  BY <1>13 DEF TryLoad, CacheAccount, Refused, End, Show
<1>14. ASSUME NEW t \in Tab, Handle(t) PROVE FilesInTurn'
  BY <1>14 DEF Handle, End, Show
<1>15. ASSUME NEW t \in Tab, Logout(t) PROVE FilesInTurn'
  BY <1>15 DEF Logout, Refused, SignedOut, End, Show
<1>16. ASSUME NEW t \in Tab, NEW token \in {None, form[t]}, Ask(t, token)
       PROVE  FilesInTurn'
  BY <1>16 DEF Ask
<1>17. ASSUME NEW u \in Name, DeleteHostKey(u) PROVE FilesInTurn'
  BY <1>17 DEF DeleteHostKey
<1>18. ASSUME Stop PROVE FilesInTurn'
  BY <1>18 DEF Stop
<1>19. CASE UNCHANGED vars
  BY <1>19
<1> HIDE DEF TypeOK, LoopOwned, FilesInTurn, Signing, Asking, Writing,
             Nothing, Content, Missing, Empty, vars, disk, memory, request,
             browser
<1>20. QED
  BY <1>1, <1>2, <1>3, <1>4, <1>5, <1>6, <1>7, <1>8, <1>9, <1>10, <1>11,
     <1>12, <1>13, <1>14, <1>15, <1>16, <1>17, <1>18, <1>19
     DEF Next, SignInStep, RequestStep

LEMMA CookieStep ==
    ASSUME TypeOK, NamesSanitized, CookieSigned, CookieWorks, [Next]_vars
    PROVE  CookieSigned' /\ CookieWorks'
<1> USE DEF TypeOK, NamesSanitized, CookieSigned, CookieWorks, Signing,
            Asking, Writing, Nothing, Content, Missing, Empty, vars, disk,
            memory, request, browser
<1>1. ASSUME NEW t \in Tab, NEW name \in Name, NEW room \in BOOLEAN,
            Login(t, name, room)
      PROVE  CookieSigned' /\ CookieWorks'
  BY <1>1 DEF Login, Sanitized
<1>2. ASSUME NEW t \in Tab, GetOrCreate(t)
      PROVE  CookieSigned' /\ CookieWorks'
  BY <1>2 DEF GetOrCreate, CacheAccount
<1>3. ASSUME NEW t \in Tab, HostKeyFernet(t)
      PROVE  CookieSigned' /\ CookieWorks'
  BY <1>3 DEF HostKeyFernet, Fails, Goto, End, Show
<1>4. ASSUME NEW t \in Tab, WriteHostKeyFile(t)
      PROVE  CookieSigned' /\ CookieWorks'
  BY <1>4 DEF WriteHostKeyFile, Goto
<1>5. ASSUME NEW t \in Tab, OpenEncrypted(t)
      PROVE  CookieSigned' /\ CookieWorks'
  BY <1>5 DEF OpenEncrypted, Goto
<1>6. ASSUME NEW t \in Tab, Seal(t) PROVE CookieSigned' /\ CookieWorks'
  BY <1>6 DEF Seal, Goto
<1>7. ASSUME NEW t \in Tab, WriteSession(t)
      PROVE  CookieSigned' /\ CookieWorks'
  BY <1>7 DEF WriteSession, SignedIn, Goto, End, Show
<1>8. ASSUME NEW t \in Tab, WriteSessionFile(t)
      PROVE  CookieSigned' /\ CookieWorks'
  BY <1>8 DEF WriteSessionFile, SignedIn, End, Show
<1>9. ASSUME NEW t \in Tab, DiskFails(t) PROVE CookieSigned' /\ CookieWorks'
  BY <1>9 DEF DiskFails, Fails, End, Show
<1>10. ASSUME NEW t \in Tab, ReadSession(t)
       PROVE  CookieSigned' /\ CookieWorks'
  BY <1>10 DEF ReadSession, Refused, SignedOut, End, Show
<1>11. ASSUME NEW t \in Tab, RequireCsrf(t)
       PROVE  CookieSigned' /\ CookieWorks'
  BY <1>11 DEF RequireCsrf, CsrfValid, Refused, Goto, End, Show
<1>12. ASSUME NEW t \in Tab, GetLoaded(t)
       PROVE  CookieSigned' /\ CookieWorks'
  BY <1>12 DEF GetLoaded
<1>13. ASSUME NEW t \in Tab, TryLoad(t) PROVE CookieSigned' /\ CookieWorks'
  BY <1>13 DEF TryLoad, CacheAccount, Refused, End, Show
<1>14. ASSUME NEW t \in Tab, Handle(t) PROVE CookieSigned' /\ CookieWorks'
  BY <1>14 DEF Handle, End, Show
<1>15. ASSUME NEW t \in Tab, Logout(t) PROVE CookieSigned' /\ CookieWorks'
  BY <1>15 DEF Logout, Refused, SignedOut, End, Show
<1>16. ASSUME NEW t \in Tab, NEW token \in {None, form[t]}, Ask(t, token)
       PROVE  CookieSigned' /\ CookieWorks'
  BY <1>16 DEF Ask
<1>17. ASSUME NEW u \in Name, DeleteHostKey(u)
       PROVE  CookieSigned' /\ CookieWorks'
  BY <1>17 DEF DeleteHostKey
<1>18. ASSUME Stop PROVE CookieSigned' /\ CookieWorks'
  BY <1>18 DEF Stop
<1>19. CASE UNCHANGED vars
  BY <1>19
<1> HIDE DEF TypeOK, NamesSanitized, CookieSigned, CookieWorks, Signing,
             Asking, Writing, Nothing, Content, Missing, Empty, vars, disk,
             memory, request, browser
<1>20. QED
  BY <1>1, <1>2, <1>3, <1>4, <1>5, <1>6, <1>7, <1>8, <1>9, <1>10, <1>11,
     <1>12, <1>13, <1>14, <1>15, <1>16, <1>17, <1>18, <1>19
     DEF Next, SignInStep, RequestStep

LEMMA StoredStep ==
    ASSUME TypeOK, NamesSanitized, FilesInTurn, StoredKeyReadable,
           [Next]_vars
    PROVE  StoredKeyReadable'
<1> USE DEF TypeOK, NamesSanitized, FilesInTurn, StoredKeyReadable,
            Readable, Signing, Asking, Writing, Nothing, Content, Missing,
            Empty, vars, disk, memory, request, browser
<1>1. ASSUME NEW t \in Tab, NEW name \in Name, NEW room \in BOOLEAN,
            Login(t, name, room)
      PROVE  StoredKeyReadable'
  BY <1>1 DEF Login, Sanitized
<1>2. ASSUME NEW t \in Tab, GetOrCreate(t) PROVE StoredKeyReadable'
  BY <1>2 DEF GetOrCreate, CacheAccount
<1>3. ASSUME NEW t \in Tab, HostKeyFernet(t) PROVE StoredKeyReadable'
  BY <1>3 DEF HostKeyFernet, Fails, Goto, End, Show
<1>4. ASSUME NEW t \in Tab, WriteHostKeyFile(t) PROVE StoredKeyReadable'
  BY <1>4 DEF WriteHostKeyFile, Goto
<1>5. ASSUME NEW t \in Tab, OpenEncrypted(t) PROVE StoredKeyReadable'
  BY <1>5 DEF OpenEncrypted, Goto
<1>6. ASSUME NEW t \in Tab, Seal(t) PROVE StoredKeyReadable'
  BY <1>6 DEF Seal, Goto
<1>7. ASSUME NEW t \in Tab, WriteSession(t) PROVE StoredKeyReadable'
  BY <1>7 DEF WriteSession, SignedIn, Goto, End, Show
<1>8. ASSUME NEW t \in Tab, WriteSessionFile(t) PROVE StoredKeyReadable'
  BY <1>8 DEF WriteSessionFile, SignedIn, End, Show
<1>9. ASSUME NEW t \in Tab, DiskFails(t) PROVE StoredKeyReadable'
  BY <1>9 DEF DiskFails, Fails, End, Show
<1>10. ASSUME NEW t \in Tab, ReadSession(t) PROVE StoredKeyReadable'
  BY <1>10 DEF ReadSession, Refused, SignedOut, End, Show
<1>11. ASSUME NEW t \in Tab, RequireCsrf(t) PROVE StoredKeyReadable'
  BY <1>11 DEF RequireCsrf, CsrfValid, Refused, Goto, End, Show
<1>12. ASSUME NEW t \in Tab, GetLoaded(t) PROVE StoredKeyReadable'
  BY <1>12 DEF GetLoaded
<1>13. ASSUME NEW t \in Tab, TryLoad(t) PROVE StoredKeyReadable'
  BY <1>13 DEF TryLoad, CacheAccount, Refused, End, Show
<1>14. ASSUME NEW t \in Tab, Handle(t) PROVE StoredKeyReadable'
  BY <1>14 DEF Handle, End, Show
<1>15. ASSUME NEW t \in Tab, Logout(t) PROVE StoredKeyReadable'
  BY <1>15 DEF Logout, Refused, SignedOut, End, Show
<1>16. ASSUME NEW t \in Tab, NEW token \in {None, form[t]}, Ask(t, token)
       PROVE  StoredKeyReadable'
  BY <1>16 DEF Ask
<1>17. ASSUME NEW u \in Name, DeleteHostKey(u) PROVE StoredKeyReadable'
  BY <1>17 DEF DeleteHostKey
<1>18. ASSUME Stop PROVE StoredKeyReadable'
  BY <1>18 DEF Stop
<1>19. CASE UNCHANGED vars
  BY <1>19
<1> HIDE DEF TypeOK, NamesSanitized, FilesInTurn, StoredKeyReadable,
             Readable, Signing, Asking, Writing, Nothing, Content, Missing,
             Empty, vars, disk, memory, request, browser
<1>20. QED
  BY <1>1, <1>2, <1>3, <1>4, <1>5, <1>6, <1>7, <1>8, <1>9, <1>10, <1>11,
     <1>12, <1>13, <1>14, <1>15, <1>16, <1>17, <1>18, <1>19
     DEF Next, SignInStep, RequestStep

LEMMA FormsStep ==
    ASSUME TypeOK, FormsActOnOwnAccount, [Next]_vars
    PROVE  FormsActOnOwnAccount'
<1> USE DEF TypeOK, FormsActOnOwnAccount, Signing, Asking, Nothing, vars,
            disk, memory, request, browser
<1>1. ASSUME NEW t \in Tab, NEW name \in Name, NEW room \in BOOLEAN,
            Login(t, name, room)
      PROVE  FormsActOnOwnAccount'
  BY <1>1 DEF Login, Sanitized
<1>2. ASSUME NEW t \in Tab, GetOrCreate(t) PROVE FormsActOnOwnAccount'
  BY <1>2 DEF GetOrCreate, CacheAccount
<1>3. ASSUME NEW t \in Tab, HostKeyFernet(t) PROVE FormsActOnOwnAccount'
  BY <1>3 DEF HostKeyFernet, Fails, Goto, End, Show
<1>4. ASSUME NEW t \in Tab, WriteHostKeyFile(t) PROVE FormsActOnOwnAccount'
  BY <1>4 DEF WriteHostKeyFile, Goto
<1>5. ASSUME NEW t \in Tab, OpenEncrypted(t) PROVE FormsActOnOwnAccount'
  BY <1>5 DEF OpenEncrypted, Goto
<1>6. ASSUME NEW t \in Tab, Seal(t) PROVE FormsActOnOwnAccount'
  BY <1>6 DEF Seal, Goto
<1>7. ASSUME NEW t \in Tab, WriteSession(t) PROVE FormsActOnOwnAccount'
  BY <1>7 DEF WriteSession, SignedIn, Goto, End, Show
<1>8. ASSUME NEW t \in Tab, WriteSessionFile(t) PROVE FormsActOnOwnAccount'
  BY <1>8 DEF WriteSessionFile, SignedIn, End, Show
<1>9. ASSUME NEW t \in Tab, DiskFails(t) PROVE FormsActOnOwnAccount'
  BY <1>9 DEF DiskFails, Fails, End, Show
<1>10. ASSUME NEW t \in Tab, ReadSession(t) PROVE FormsActOnOwnAccount'
  BY <1>10 DEF ReadSession, Refused, SignedOut, End, Show
<1>11. ASSUME NEW t \in Tab, RequireCsrf(t) PROVE FormsActOnOwnAccount'
  BY <1>11 DEF RequireCsrf, CsrfValid, Refused, Goto, End, Show
<1>12. ASSUME NEW t \in Tab, GetLoaded(t) PROVE FormsActOnOwnAccount'
  BY <1>12 DEF GetLoaded
<1>13. ASSUME NEW t \in Tab, TryLoad(t) PROVE FormsActOnOwnAccount'
  BY <1>13 DEF TryLoad, CacheAccount, Refused, End, Show
<1>14. ASSUME NEW t \in Tab, Handle(t) PROVE FormsActOnOwnAccount'
  BY <1>14 DEF Handle, End, Show
<1>15. ASSUME NEW t \in Tab, Logout(t) PROVE FormsActOnOwnAccount'
  BY <1>15 DEF Logout, Refused, SignedOut, End, Show
<1>16. ASSUME NEW t \in Tab, NEW token \in {None, form[t]}, Ask(t, token)
       PROVE  FormsActOnOwnAccount'
  BY <1>16 DEF Ask
<1>17. ASSUME NEW u \in Name, DeleteHostKey(u) PROVE FormsActOnOwnAccount'
  BY <1>17 DEF DeleteHostKey
<1>18. ASSUME Stop PROVE FormsActOnOwnAccount'
  BY <1>18 DEF Stop
<1>19. CASE UNCHANGED vars
  BY <1>19
<1> HIDE DEF TypeOK, FormsActOnOwnAccount, Signing, Asking, Nothing, vars,
             disk, memory, request, browser
<1>20. QED
  BY <1>1, <1>2, <1>3, <1>4, <1>5, <1>6, <1>7, <1>8, <1>9, <1>10, <1>11,
     <1>12, <1>13, <1>14, <1>15, <1>16, <1>17, <1>18, <1>19
     DEF Next, SignInStep, RequestStep

-----------------------------------------------------------------------------
IInv ==
    /\ TypeOK /\ LoopOwned /\ NamesSanitized /\ HeldIsRegistered
    /\ FilesInTurn /\ CookieSigned /\ CookieWorks
    /\ StoredKeyReadable /\ FormsActOnOwnAccount

LEMMA InitInv == Init => IInv
<1> SUFFICES ASSUME Init PROVE IInv
  OBVIOUS
<1> USE DEF Init, Signing, Asking, Writing, Content, Missing, Empty, Nothing
<1>1. TypeOK
  BY BoundsAssumption DEF TypeOK
<1>2. LoopOwned /\ NamesSanitized /\ HeldIsRegistered
  BY NoneAssumption DEF LoopOwned, NamesSanitized, HeldIsRegistered
<1>3. FilesInTurn /\ CookieSigned /\ CookieWorks
  BY DEF FilesInTurn, CookieSigned, CookieWorks
<1>4. StoredKeyReadable /\ FormsActOnOwnAccount
  BY DEF StoredKeyReadable, FormsActOnOwnAccount
<1>5. QED
  BY <1>1, <1>2, <1>3, <1>4 DEF IInv

LEMMA InductiveInv == Spec => []IInv
<1>1. IInv /\ [Next]_vars => IInv'
  BY TypeStep, LoopStep, NamesStep, HeldStep, FilesStep, CookieStep,
     StoredStep, FormsStep DEF IInv
<1>2. QED
  BY InitInv, <1>1, PTL DEF Spec

(* Every variable keeps its type.                                          *)
THEOREM TypeCorrect == Spec => []TypeOK
BY InductiveInv, PTL DEF IInv

(* There is one Account per AnkiWeb user, for any number of tabs that sign *)
(* in and send cookies at once.                                            *)
THEOREM AlwaysOneAccount == Spec => []OneAccount
<1>1. IInv => OneAccount
  <2> SUFFICES ASSUME IInv, NEW t1 \in Tab, NEW t2 \in Tab,
                      obj[t1] # 0, obj[t2] # 0, user[t1].who = user[t2].who
               PROVE  obj[t1] = obj[t2]
    BY DEF OneAccount
  <2>1. /\ user[t1] \in Name /\ ~user[t1].caps
        /\ user[t2] \in Name /\ ~user[t2].caps
    BY DEF IInv, HeldIsRegistered, NamesSanitized, Writing, Signing, Asking
  <2>2. user[t1] = user[t2]
    BY <2>1 DEF Name
  <2>3. QED
    BY <2>2 DEF IInv, HeldIsRegistered
<1>2. QED
  BY InductiveInv, <1>1, PTL

(* A hostKey on disk can be opened: the key file is whole before the first *)
(* seal and is never replaced.                                             *)
THEOREM AlwaysStoredKeyReadable == Spec => []StoredKeyReadable
BY InductiveInv, PTL DEF IInv

(* The browser's cookie is accepted and its account found, over every stop *)
(* and refused write.                                                      *)
THEOREM AlwaysCookieWorks == Spec => []CookieWorks
BY InductiveInv, PTL DEF IInv

(* A form is handled for the account it was rendered for.                  *)
THEOREM AlwaysFormsActOnOwnAccount == Spec => []FormsActOnOwnAccount
BY InductiveInv, PTL DEF IInv

(* No step replaces a key that is written, not even a stop between opening *)
(* a key file and writing to it.                                           *)
THEOREM AlwaysKeysLast == Spec => KeysLast
<1>1. ASSUME IInv, [Next]_vars
      PROVE  /\ hostKeyFile > Empty => hostKeyFile' = hostKeyFile
             /\ sessionFile > Empty => sessionFile' = sessionFile
  <2> USE <1>1 DEF IInv, FilesInTurn, Missing, Empty, vars, disk
  <2>1. ASSUME NEW t \in Tab, SignInStep(t)
        PROVE  /\ hostKeyFile > Empty => hostKeyFile' = hostKeyFile
               /\ sessionFile > Empty => sessionFile' = sessionFile
    BY <2>1 DEF SignInStep, GetOrCreate, HostKeyFernet, WriteHostKeyFile,
                OpenEncrypted, Seal, WriteSession, WriteSessionFile
  <2>2. ASSUME NEW t \in Tab, RequestStep(t) \/ DiskFails(t)
        PROVE  UNCHANGED disk
    BY <2>2 DEF RequestStep, ReadSession, RequireCsrf, GetLoaded, TryLoad,
                Handle, Logout, DiskFails
  <2>3. QED
    BY <2>1, <2>2 DEF Next, Login, Ask, DeleteHostKey, Stop
<1>2. QED
  BY InductiveInv, <1>1, PTL DEF Spec, KeysLast
=============================================================================
